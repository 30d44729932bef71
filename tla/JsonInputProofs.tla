-------------------------- MODULE JsonInputProofs --------------------------
(***************************************************************************)
(* For every limit and every stream, however long: load_json_stream never  *)
(* asks for nothing, accepts only the whole of a source within the limit,  *)
(* and reads no more than one unit beyond it.  And for every limit and     *)
(* every value, of whatever objects, shared or cyclic: ensure_json_value   *)
(* measures it as it would be written.                                     *)
(***************************************************************************)
EXTENDS JsonLimits, WellFoundedInduction, TLAPS

\* While the loop runs, the collected bytes are those of the units delivered,
\* and every read but the last brought at least one unit.
Collected ==
    pc \in {"open", "read", "decode", "parse"} =>
        /\ data = source.offset[position]
        /\ reads <= position + 1
        /\ pc \in {"open", "read"} => reads <= position

\* After the loop, the stream is exhausted.
Exhausted ==
    pc \in {"decode", "parse"} \/ outcome = "value" =>
        /\ position = source.length
        /\ data = source.offset[source.length]

Unfinished == pc # "ended" => outcome = "none"

\* stream_is_binary is the type of every chunk so far.
OneKind ==
    pc # "ended" \/ outcome = "value" =>
        /\ chunk_kinds \subseteq {stream_is_binary}
        /\ pc \in {"decode", "parse", "ended"} => stream_is_binary \in chunk_kinds

IInv == TypeOK /\ Collected /\ Exhausted /\ Unfinished /\ OneKind /\ ReadingIsBounded

\* A source's units encode to at least one byte each, and offsets grow.
LEMMA SourceFacts ==
    ASSUME NEW s \in Sources
    PROVE  /\ s.length \in Nat
           /\ s.offset \in [0..s.length -> Nat]
           /\ s.offset[0] = 0
           /\ \A i, j \in 0..s.length : i < j => s.offset[j] - s.offset[i] >= j - i
           /\ \A i \in 0..s.length : i <= s.offset[i]
           /\ s.document \in {"value", "not_strict"}
<1>1. IsSource(s)
  BY SourcesAssumption
<1>2. /\ s.length \in Nat
      /\ s.offset \in [0..s.length -> Nat]
      /\ s.offset[0] = 0
      /\ \A i, j \in 0..s.length : i < j => s.offset[j] - s.offset[i] >= j - i
      /\ s.document \in {"value", "not_strict"}
  BY <1>1 DEF IsSource
<1>3. ASSUME NEW i \in 0..s.length PROVE i <= s.offset[i]
  <2>1. CASE i = 0
    BY <2>1, <1>2
  <2>2. CASE i > 0
    <3>1. 0 \in 0..s.length /\ 0 < i
      BY <1>2, <2>2
    <3>2. s.offset[i] - s.offset[0] >= i - 0
      BY <1>2, <3>1
    <3> QED
      BY <1>2, <3>2
  <2> QED
    BY <2>1, <2>2, <1>2
<1> QED
  BY <1>2, <1>3

\* load_json_stream starts in the invariant.
LEMMA InitIInv == Init => IInv
<1> SUFFICES ASSUME Init PROVE IInv
  OBVIOUS
<1>1. source \in Sources
  BY DEF Init
<1>2. source.length \in Nat /\ source.offset[0] = 0
  BY <1>1, SourceFacts
<1>3. TypeOK
  <2>1. faults \in BOOLEAN
    BY Zenon DEF Init
  <2>2. chunk_kinds \subseteq {"binary", "text"}
    BY DEF Init
  <2>3. position \in 0..source.length /\ data \in 0..MAX_JSON_INPUT_BYTES /\ reads \in Nat
    BY <1>2, BoundAssumption DEF Init
  <2> QED
    BY <1>1, <2>1, <2>2, <2>3 DEF Init, TypeOK
<1>4. Collected /\ Exhausted /\ Unfinished /\ OneKind
  BY <1>2 DEF Init, Collected, Exhausted, Unfinished, OneKind
<1>5. ReadingIsBounded
  BY BoundAssumption DEF Init, ReadingIsBounded
<1> QED
  BY <1>3, <1>4, <1>5 DEF IInv

\* One chunk: its units lie within the source, and their bytes continue the
\* bytes collected before.
LEMMA ReadStep ==
    ASSUME IInv, NEW n \in Deliverable, NEW kind \in {"binary", "text"}, Read(n, kind)
    PROVE  IInv'
<1>1. /\ source \in Sources /\ source' = source
      /\ pc = "read" /\ outcome = "none"
      /\ n \in 0..Remaining /\ n <= Requested
      /\ n = 0 => Remaining = 0 \/ Requested = 0
      /\ position' = position + n /\ reads' = reads + 1
  BY DEF IInv, TypeOK, Unfinished, Read, Deliverable
<1>2. /\ source.length \in Nat /\ position \in 0..source.length
      /\ source.offset \in [0..source.length -> Nat]
      /\ data = source.offset[position] /\ position <= data
      /\ data \in Nat /\ data <= MAX_JSON_INPUT_BYTES /\ MAX_JSON_INPUT_BYTES \in Nat
      /\ reads \in Nat /\ reads <= position
  <2>1. /\ position \in 0..source.length /\ data \in 0..MAX_JSON_INPUT_BYTES
        /\ reads \in Nat
    BY DEF IInv, TypeOK
  <2>2. data = source.offset[position] /\ reads <= position
    BY <1>1 DEF IInv, Collected
  <2> QED
    BY <1>1, <2>1, <2>2, SourceFacts, BoundAssumption
<1>3. /\ n \in Nat /\ position' \in 0..source.length
      /\ position' <= MAX_JSON_INPUT_BYTES + 1
      /\ reads' \in Nat /\ reads' <= MAX_JSON_INPUT_BYTES + 1
      /\ n = 0 => position' = source.length /\ position' = position
      /\ n > 0 => reads' <= position'
      /\ reads' <= position' + 1
  <2>1. n \in Nat /\ n <= source.length - position /\ n <= MAX_JSON_INPUT_BYTES + 1 - data
    BY <1>1, <1>2 DEF Remaining, Requested
  <2>2. n = 0 => source.length - position = 0
    BY <1>1, <1>2 DEF Remaining, Requested
  <2>3. /\ position' = position + n /\ reads' = reads + 1
        /\ position \in Nat /\ source.length \in Nat /\ data \in Nat /\ reads \in Nat
        /\ reads <= position /\ position <= data /\ data <= MAX_JSON_INPUT_BYTES
        /\ MAX_JSON_INPUT_BYTES \in Nat
    BY <1>1, <1>2
  <2>4. position' \in Nat /\ position' <= source.length /\ position' <= MAX_JSON_INPUT_BYTES + 1
    BY <2>1, <2>3
  <2>5. reads' \in Nat /\ reads' <= MAX_JSON_INPUT_BYTES + 1 /\ reads' <= position' + 1
    BY <2>1, <2>3
  <2>6. (n = 0 => position' = source.length /\ position' = position) /\ (n > 0 => reads' <= position')
    BY <2>1, <2>2, <2>3
  <2> QED
    BY <2>1, <2>3, <2>4, <2>5, <2>6
<1>4. RawBytes(n) = source.offset[position'] - data /\ source.offset[position'] \in Nat
  BY <1>1, <1>2, <1>3 DEF RawBytes
<1>5. /\ faults' \in BOOLEAN /\ chunk_kinds' \subseteq {"binary", "text"}
      /\ stream_is_binary' \in {"none", "binary", "text"}
  <2>1. faults' = (faults \/ kind # source.kind)
    BY Zenon DEF Read
  <2>2. chunk_kinds' = chunk_kinds \cup {kind} /\ chunk_kinds \subseteq {"binary", "text"}
    BY DEF Read, IInv, TypeOK
  <2>3. stream_is_binary' \in {kind, stream_is_binary}
    BY DEF Read
  <2>4. faults' \in BOOLEAN
    BY <2>1, Zenon
  <2> QED
    BY <2>2, <2>3, <2>4 DEF IInv, TypeOK
<1>6. pc' \in {"read", "decode"} =>
         chunk_kinds' = {stream_is_binary'}
  <2>1. chunk_kinds \subseteq {stream_is_binary} /\ chunk_kinds \subseteq {"binary", "text"}
    BY <1>1 DEF IInv, TypeOK, OneKind
  <2>2. chunk_kinds' = chunk_kinds \cup {kind}
    BY DEF Read
  <2>3. CASE TypeIsConsistent(kind)
    <3>1. stream_is_binary' = kind
      BY <2>3 DEF Read
    <3>2. chunk_kinds \subseteq {kind}
      BY <2>1, <2>3 DEF TypeIsConsistent
    <3> QED
      BY <2>2, <3>1, <3>2
  <2>4. CASE ~TypeIsConsistent(kind)
    BY <2>4 DEF Read, End
  <2> QED
    BY <2>3, <2>4
<1>7. CASE pc' = "ended"
  <2>1. outcome' \in {"unreadable", "too_large"} /\ data' = data
    BY <1>1, <1>7 DEF Read, End
  <2>2. TypeOK'
    BY <1>1, <1>2, <1>3, <1>5, <1>7, <2>1 DEF TypeOK
  <2> QED
    BY <1>3, <1>7, <2>1, <2>2
    DEF IInv, Collected, Exhausted, Unfinished, OneKind, ReadingIsBounded
<1>8. CASE pc' = "decode"
  <2>1. n = 0 /\ outcome' = outcome /\ data' = data
    BY <1>1, <1>8 DEF Read, End, IsEnd
  <2>2. TypeOK'
    BY <1>1, <1>2, <1>3, <1>5, <1>8, <2>1 DEF TypeOK
  <2> QED
    BY <1>1, <1>2, <1>3, <1>8, <1>6, <2>1, <2>2
    DEF IInv, Collected, Exhausted, Unfinished, OneKind, ReadingIsBounded
<1>9. CASE pc' = "read"
  <2>1. n # 0 /\ outcome' = outcome /\ data' = data + RawBytes(n) /\ ~ExceedsBudget(n)
    BY <1>1, <1>9 DEF Read, End, IsEnd
  <2>2. data' = source.offset[position'] /\ data' \in 0..MAX_JSON_INPUT_BYTES
    BY <1>2, <1>4, <2>1 DEF ExceedsBudget
  <2>3. TypeOK'
    BY <1>1, <1>2, <1>3, <1>5, <1>9, <2>1, <2>2 DEF TypeOK
  <2> QED
    BY <1>1, <1>2, <1>3, <1>9, <1>6, <2>1, <2>2, <2>3
    DEF IInv, Collected, Exhausted, Unfinished, OneKind, ReadingIsBounded
<1> QED
  BY <1>1, <1>7, <1>8, <1>9 DEF Read, End

\* Every step keeps it: chunks by ReadStep, the others leave the data alone.
LEMMA NextIInv == IInv /\ [Next]_vars => IInv'
<1> SUFFICES ASSUME IInv, [Next]_vars PROVE IInv'
  OBVIOUS
<1> USE DEF IInv, TypeOK, Collected, Exhausted, Unfinished, OneKind, ReadingIsBounded
<1>1. CASE Open
  BY <1>1 DEF Open
<1>2. CASE OpenFails
  BY <1>2, BoundAssumption DEF OpenFails, End
<1>3. ASSUME NEW n \in Deliverable, NEW kind \in {"binary", "text"}, Read(n, kind)
      PROVE  IInv'
  BY <1>3, ReadStep
<1>4. ASSUME NEW result \in {"encoding", "unreadable"}, ReadFails(result) PROVE IInv'
  <2>1. /\ source \in Sources /\ reads \in Nat /\ reads <= position
        /\ position \in 0..source.length /\ data = source.offset[position]
        /\ data \in 0..MAX_JSON_INPUT_BYTES
    BY <1>4 DEF ReadFails
  <2>2. reads <= MAX_JSON_INPUT_BYTES
    BY <2>1, SourceFacts, BoundAssumption
  <2> QED
    BY <1>4, <2>1, <2>2, BoundAssumption DEF ReadFails, End
<1>5. CASE Decode
  BY <1>5 DEF Decode, End
<1>6. CASE Parse
  <2>1. source.document \in {"value", "not_strict"}
    BY SourceFacts
  <2> QED
    BY <1>6, <2>1 DEF Parse, End
<1>7. CASE Terminating
  BY <1>7 DEF Terminating, vars
<1>8. CASE UNCHANGED vars
  BY <1>8 DEF vars
<1> QED
  BY <1>1, <1>2, <1>3, <1>4, <1>5, <1>6, <1>7, <1>8 DEF Next

\* The inductive invariant holds throughout.
LEMMA Invariance == Spec => []IInv
BY InitIInv, NextIInv, PTL DEF Spec

\* Type correctness of load_json_stream's loop, for every limit and stream.
THEOREM TypeCorrect == Spec => []TypeOK
<1>1. IInv => TypeOK
  BY DEF IInv
<1> QED
  BY <1>1, Invariance, PTL

\* The argument of read() is positive in every call: the loop cannot mistake
\* an empty answer to read(0) for the end of the stream.
THEOREM AsksForSomething == Spec => []NeverAsksForNothing
<1>1. IInv => NeverAsksForNothing
  BY BoundAssumption DEF IInv, TypeOK, NeverAsksForNothing, Requested
<1> QED
  BY <1>1, Invariance, PTL

\* Whatever the stream does, what load_json_stream accepts is the whole
\* source and within the limit: an input is never silently truncated.
THEOREM NothingIsTruncated == Spec => []AcceptedIsWhole
<1>1. IInv => AcceptedIsWhole
  <2> SUFFICES ASSUME IInv, pc \in {"decode", "parse"} \/ outcome = "value"
               PROVE  /\ position = source.length
                      /\ data = source.offset[source.length]
                      /\ data <= MAX_JSON_INPUT_BYTES
                      /\ chunk_kinds = {stream_is_binary}
    BY Zenon DEF AcceptedIsWhole
  <2>1. position = source.length /\ data = source.offset[source.length]
    BY DEF IInv, Exhausted
  <2>2. data <= MAX_JSON_INPUT_BYTES
    BY BoundAssumption DEF IInv, TypeOK
  <2>3. chunk_kinds = {stream_is_binary}
    <3>1. pc \in {"decode", "parse", "ended"}
      BY DEF IInv, Unfinished
    <3>2. chunk_kinds \subseteq {stream_is_binary} /\ stream_is_binary \in chunk_kinds
      BY <3>1 DEF IInv, OneKind
    <3> QED
      BY <3>2
  <2> QED
    BY <2>1, <2>2, <2>3
<1> QED
  BY <1>1, Invariance, PTL

\* The loop takes at most one unit more than could be accepted, and ends
\* after at most MAX_JSON_INPUT_BYTES + 1 reads, even on an endless stream.
THEOREM ReadingEnds == Spec => []ReadingIsBounded
<1>1. IInv => ReadingIsBounded
  BY DEF IInv
<1> QED
  BY <1>1, Invariance, PTL

-----------------------------------------------------------------------------
(* The result and the chunks.                                              *)

\* As long as the stream works, its chunks are of its own type, all characters
\* so far had an encoding, and what is parsed is UTF-8 without a mark.
Working ==
    ~faults =>
        /\ pc # "ended" => /\ stream_is_binary \in {"none", source.kind}
                           /\ source.unencodable \cap (1..position) = {}
        /\ pc = "parse" => ~source.byte_order_mark /\ source.utf8

\* Only characters of the source can be without an encoding.
LEMMA UnencodableFacts ==
    ASSUME NEW s \in Sources
    PROVE  s.unencodable \subseteq 1..s.length
BY SourcesAssumption DEF IsSource

\* A chunk is refused only for what is in the source.
LEMMA WorkingReadStep ==
    ASSUME IInv, IInv', Working,
           NEW n \in Deliverable, NEW kind \in {"binary", "text"}, Read(n, kind)
    PROVE  Working' /\ ResultIsChunkingIndependent'
<1> DEFINE size == source.offset[source.length]
<1>1. SUFFICES ASSUME ~faults' PROVE Working' /\ ResultIsChunkingIndependent'
  BY Zenon DEF Working, ResultIsChunkingIndependent
<1>2. ~faults /\ kind = source.kind
  BY <1>1, Zenon DEF Read
<1>3. /\ stream_is_binary \in {"none", source.kind}
      /\ source.unencodable \cap (1..position) = {}
  <2>1. pc # "ended"
    BY DEF Read
  <2> QED
    BY <1>2, <2>1, Zenon DEF Working
<1>4. /\ source' = source /\ pc = "read" /\ position' = position + n
      /\ n \in Nat /\ position \in Nat /\ position' \in 0..source.length
      /\ source \in Sources /\ data \in Nat /\ data = source.offset[position]
  BY SourceFacts, BoundAssumption DEF IInv, TypeOK, Collected, Read, Deliverable, Remaining
<1>5. TypeIsConsistent(kind)
  BY <1>2, <1>3 DEF TypeIsConsistent
<1>6. CASE IsEnd(n)
  <2>1. pc' = "decode" /\ stream_is_binary' = kind
    BY <1>5, <1>6 DEF Read
  <2>2. position' = position
    BY <1>4, <1>6 DEF IsEnd
  <2> QED
    BY <1>2, <1>3, <1>4, <2>1, <2>2 DEF Working, ResultIsChunkingIndependent
<1>7. CASE ~IsEnd(n) /\ ~ChunkEncodes(n)
  <2>1. pc' = "ended" /\ outcome' = "unreadable"
    BY <1>5, <1>7 DEF Read, End
  <2>2. source.unencodable # {}
    BY <1>7 DEF ChunkEncodes, Encodable
  <2> QED
    BY <1>4, <2>1, <2>2 DEF Working, ResultIsChunkingIndependent
<1>8. CASE ~IsEnd(n) /\ ChunkEncodes(n) /\ ExceedsBudget(n)
  <2>1. pc' = "ended" /\ outcome' = "too_large"
    BY <1>5, <1>8 DEF Read, End
  <2>2. source.offset[position'] > MAX_JSON_INPUT_BYTES /\ source.offset[position'] \in Nat
    BY <1>4, <1>8, SourceFacts, BoundAssumption DEF ExceedsBudget, RawBytes
  <2>3. size \in Nat /\ size >= source.offset[position']
    <3>1. source.length \in Nat /\ source.length \in 0..source.length /\ size \in Nat
      BY <1>4, SourceFacts
    <3>2. CASE position' = source.length
      BY <3>1, <3>2, <2>2
    <3>3. CASE position' < source.length
      <4>1. size - source.offset[position'] >= source.length - position'
        BY <1>4, <3>1, <3>3, SourceFacts
      <4> QED
        BY <1>4, <2>2, <3>1, <3>3, <4>1
    <3> QED
      BY <1>4, <3>1, <3>2, <3>3
  <2>4. size > MAX_JSON_INPUT_BYTES
    BY <2>2, <2>3, BoundAssumption
  <2> QED
    BY <1>4, <2>1, <2>4 DEF Working, ResultIsChunkingIndependent
<1>9. CASE ~IsEnd(n) /\ ChunkEncodes(n) /\ ~ExceedsBudget(n)
  <2>1. pc' = "read" /\ stream_is_binary' = kind
    BY <1>4, <1>5, <1>9 DEF Read
  <2>2. source.unencodable \cap (1..position') = {}
    <3>1. source.unencodable \cap ((position + 1)..(position + n)) = {}
      BY <1>9 DEF ChunkEncodes, Encodable
    <3>2. 1..position' = (1..position) \cup ((position + 1)..(position + n))
      BY <1>4
    <3> QED
      BY <1>3, <3>1, <3>2
  <2> QED
    BY <1>2, <1>4, <2>1, <2>2 DEF Working, ResultIsChunkingIndependent
<1> QED
  BY <1>6, <1>7, <1>8, <1>9

\* The steps after the loop decide by the source alone.
LEMMA WorkingStep ==
    ASSUME IInv, IInv', Working, ResultIsChunkingIndependent, [Next]_vars
    PROVE  Working' /\ ResultIsChunkingIndependent'
<1> DEFINE size == source.offset[source.length]
<1>1. CASE Open
  BY <1>1 DEF Open, Working, ResultIsChunkingIndependent
<1>2. CASE OpenFails \/ ReadFails("encoding") \/ ReadFails("unreadable")
  <2>1. faults'
    BY <1>2 DEF OpenFails, ReadFails
  <2> QED
    BY <2>1, Zenon DEF Working, ResultIsChunkingIndependent
<1>3. ASSUME NEW n \in Deliverable, NEW kind \in {"binary", "text"}, Read(n, kind)
      PROVE  Working' /\ ResultIsChunkingIndependent'
  BY <1>3, WorkingReadStep
<1>4. ASSUME pc \in {"decode", "parse"}, ~faults
      PROVE  source.unencodable = {} /\ ~(size > MAX_JSON_INPUT_BYTES)
  <2>1. /\ source \in Sources /\ position = source.length
        /\ data = size /\ data \in 0..MAX_JSON_INPUT_BYTES
    BY <1>4 DEF IInv, TypeOK, Exhausted
  <2>2. source.unencodable \cap (1..position) = {}
    BY <1>4 DEF Working
  <2>3. source.unencodable = {}
    BY <2>1, <2>2, UnencodableFacts
  <2> QED
    BY <2>1, <2>3, BoundAssumption
<1>5. CASE Decode
  <2>1. SUFFICES ASSUME ~faults PROVE Working' /\ ResultIsChunkingIndependent'
    BY <1>5, Zenon DEF Decode, Working, ResultIsChunkingIndependent
  <2>2. source.unencodable = {} /\ ~(size > MAX_JSON_INPUT_BYTES)
    BY <1>4, <1>5, <2>1 DEF Decode
  <2> QED
    BY <1>5, <2>1, <2>2 DEF Decode, End, Working, ResultIsChunkingIndependent
<1>6. CASE Parse
  <2>1. SUFFICES ASSUME ~faults PROVE Working' /\ ResultIsChunkingIndependent'
    BY <1>6, Zenon DEF Parse, Working, ResultIsChunkingIndependent
  <2>2. source.unencodable = {} /\ ~(size > MAX_JSON_INPUT_BYTES)
    BY <1>4, <1>6, <2>1 DEF Parse
  <2>3. ~source.byte_order_mark /\ source.utf8
    BY <1>6, <2>1 DEF Parse, Working
  <2> QED
    BY <1>6, <2>1, <2>2, <2>3 DEF Parse, End, Working, ResultIsChunkingIndependent
<1>7. CASE Terminating \/ UNCHANGED vars
  BY <1>7 DEF Terminating, vars, Working, ResultIsChunkingIndependent
<1> QED
  BY <1>1, <1>2, <1>3, <1>5, <1>6, <1>7 DEF Next

\* Whatever the sizes of its chunks, a stream that works gets load_json_stream
\* to the result that its content determines.
THEOREM ChunksDoNotMatter == Spec => []ResultIsChunkingIndependent
<1>1. Init => Working /\ ResultIsChunkingIndependent
  BY DEF Init, Working, ResultIsChunkingIndependent
<1>2. IInv /\ IInv' /\ Working /\ ResultIsChunkingIndependent /\ [Next]_vars
        => Working' /\ ResultIsChunkingIndependent'
  BY WorkingStep
<1> QED
  BY <1>1, <1>2, Invariance, PTL DEF Spec

-----------------------------------------------------------------------------
(* Numbers, and functions built step by step.                              *)

\* Of some numbers one is the least.
LEMMA LeastNumber ==
    ASSUME NEW T \in SUBSET Nat, T # {}
    PROVE  \E m \in T : \A k \in T : m <= k
<1>1. PICK m \in T : \A k \in T : ~ (<<k, m>> \in OpToRel(<, Nat))
  BY NatLessThanWellFounded, WFMin
<1>2. \A k \in T : ~ (k < m)
  BY <1>1 DEF OpToRel
<1> QED
  BY <1>2

\* What holds at 0 and is handed on holds up to m.
LEMMA EveryLevel ==
    ASSUME NEW m \in Nat, NEW G, 0 \in G, \A n \in 1..m : n - 1 \in G => n \in G
    PROVE  \A n \in 0..m : n \in G
<1> DEFINE Bad == {n \in 0..m : n \notin G}
<1> SUFFICES ASSUME Bad # {} PROVE FALSE
  OBVIOUS
<1>1. Bad \in SUBSET Nat
  OBVIOUS
<1>2. PICK n \in Bad : \A k \in Bad : n <= k
  BY <1>1, LeastNumber
<1>3. n \in 1..m /\ n - 1 \in 0..m /\ ~(n <= n - 1)
  BY <1>2
<1>4. n - 1 \in G
  BY <1>2, <1>3
<1> QED
  BY <1>2, <1>3, <1>4

IsIteration(f, x, m, next) == f[0] = x /\ \A n \in 1..m : f[n] = next[n][f[n - 1]]

StaysIn(X, m, next) == \A n \in 1..m : next[n] \in [X -> X]

\* A function can be built from a value at 0 and a way on from each value.
LEMMA Iterated ==
    ASSUME NEW X, NEW x \in X, NEW m \in Nat, NEW next, StaysIn(X, m, next)
    PROVE  \E f \in [0..m -> X] : IsIteration(f, x, m, next)
<1> USE DEF StaysIn
<1> DEFINE Good(k, f) == f[0] = x /\ \A n \in 1..k : f[n] = next[n][f[n - 1]]
           G == {k \in 0..m : \E f \in [0..k -> X] : Good(k, f)}
<1>1. 0 \in G
  <2> DEFINE g == [n \in 0..0 |-> x]
  <2>1. g \in [0..0 -> X] /\ g[0] = x /\ 1..0 = {}
    OBVIOUS
  <2>2. Good(0, g)
    BY <2>1
  <2>3. 0 \in 0..m /\ g \in [0..0 -> X]
    BY <2>1
  <2> HIDE DEF g, Good
  <2> QED
    BY <2>2, <2>3, Zenon
<1>2. ASSUME NEW k \in 1..m, k - 1 \in G PROVE k \in G
  <2>1. PICK f \in [0..(k - 1) -> X] : Good(k - 1, f)
    BY <1>2
  <2> DEFINE g == [n \in 0..k |-> IF n = k THEN next[k][f[k - 1]] ELSE f[n]]
  <2>2. k - 1 \in 0..(k - 1) /\ f[k - 1] \in X /\ next[k][f[k - 1]] \in X
    OBVIOUS
  <2>3. g \in [0..k -> X]
    <3>1. ASSUME NEW n \in 0..k, n # k PROVE f[n] \in X
      <4>1. n \in 0..(k - 1)
        BY <3>1
      <4> QED
        BY <4>1
    <3> QED
      BY <2>2, <3>1
  <2>4. g[0] = x
    BY <2>1
  <2>5. ASSUME NEW n \in 1..k PROVE g[n] = next[n][g[n - 1]]
    <3>1. n \in 0..k /\ n - 1 \in 0..k /\ n - 1 # k
      OBVIOUS
    <3>2. g[n - 1] = f[n - 1]
      BY <3>1
    <3>3. CASE n = k
      BY <3>2, <3>3
    <3>4. CASE n # k
      <4>1. n \in 1..(k - 1) /\ g[n] = f[n]
        BY <3>4
      <4>2. f[n] = next[n][f[n - 1]]
        BY <2>1, <4>1
      <4> QED
        BY <3>2, <4>1, <4>2
    <3> QED
      BY <3>3, <3>4
  <2>6. Good(k, g)
    BY <2>4, <2>5
  <2>7. k \in 0..m
    OBVIOUS
  <2> HIDE DEF g, Good
  <2> QED
    BY <2>3, <2>6, <2>7, Zenon
<1>3. m \in G
  <2> HIDE DEF G
  <2>1. 0 \in G /\ m \in 0..m
    BY <1>1
  <2> QED
    BY <1>2, <2>1, EveryLevel
<1> QED
  BY <1>3 DEF IsIteration

-----------------------------------------------------------------------------
(* Sums.                                                                   *)

IsTotals(list, f) == f = [k \in 0..Len(list) |-> IF k = 0 THEN 0 ELSE f[k - 1] + list[k]]

Totals(list) == CHOOSE f : IsTotals(list, f)

\* The sum of a list is the last of its running totals.
LEMMA SumIsTotal == \A list : SumOf(list) = Totals(list)[Len(list)]
  BY Zenon DEF SumOf, Totals, IsTotals

\* The running totals of a list of numbers.
LEMMA TotalsSteps ==
    ASSUME NEW list \in Seq(Nat)
    PROVE  /\ Totals(list)[0] = 0
           /\ \A k \in 1..Len(list) : Totals(list)[k] = Totals(list)[k - 1] + list[k]
           /\ \A k \in 0..Len(list) : Totals(list)[k] \in Nat
<1> DEFINE f == Totals(list)
           m == Len(list)
           next == [k \in 1..m |-> [total \in Nat |-> total + list[k]]]
<1>0. m \in Nat /\ \A k \in 1..m : list[k] \in Nat
  OBVIOUS
<1>1. IsTotals(list, f)
  <2>1. StaysIn(Nat, m, next) /\ 0 \in Nat
    BY <1>0 DEF StaysIn
  <2>2. PICK g \in [0..m -> Nat] : IsIteration(g, 0, m, next)
    <3> HIDE DEF next, m
    <3> QED
      BY <1>0, <2>1, Iterated, Zenon
  <2>3. ASSUME NEW k \in 0..m PROVE g[k] = IF k = 0 THEN 0 ELSE g[k - 1] + list[k]
    <3>1. CASE k = 0
      BY <2>2, <3>1 DEF IsIteration
    <3>2. CASE k # 0
      <4>1. k \in 1..m /\ k - 1 \in 0..m
        BY <1>0, <3>2
      <4>2. g[k - 1] \in Nat /\ g[k] = next[k][g[k - 1]]
        BY <2>2, <4>1 DEF IsIteration
      <4> QED
        BY <3>2, <4>1, <4>2
    <3> QED
      BY <3>1, <3>2
  <2>4. IsTotals(list, g)
    BY <2>3 DEF IsTotals
  <2> QED
    BY <2>4, Zenon DEF Totals
<1>2. f = [k \in 0..m |-> IF k = 0 THEN 0 ELSE f[k - 1] + list[k]]
  BY <1>1, Zenon DEF IsTotals
<1> HIDE DEF f
<1>3. f[0] = 0 /\ \A k \in 1..m : f[k] = f[k - 1] + list[k]
  BY <1>0, <1>2
<1>4. \A k \in 0..m : f[k] \in Nat
  <2> DEFINE G == {k \in 0..m : f[k] \in Nat}
  <2>1. 0 \in G
    BY <1>0, <1>3
  <2>2. ASSUME NEW k \in 1..m, k - 1 \in G PROVE k \in G
    <3>1. list[k] \in Nat /\ f[k - 1] \in Nat /\ k \in 0..m
      BY <1>0, <2>2
    <3>2. f[k] = f[k - 1] + list[k]
      BY <1>3, <2>2
    <3> QED
      BY <3>1, <3>2
  <2>3. \A k \in 0..m : k \in G
    <3> HIDE DEF G
    <3> QED
      BY <1>0, <2>1, <2>2, EveryLevel
  <2> QED
    BY <2>3
<1> QED
  BY <1>3, <1>4 DEF f

\* Nothing adds up to nothing, and one number to itself.
LEMMA SmallSums ==
    /\ SumOf(<< >>) = 0
    /\ \A w \in Nat : SumOf(<<w>>) = w
<1>1. << >> \in Seq(Nat) /\ Len(<< >>) = 0
  OBVIOUS
<1>2. SumOf(<< >>) = 0
  BY <1>1, TotalsSteps, SumIsTotal
<1>3. ASSUME NEW w \in Nat PROVE SumOf(<<w>>) = w
  <2> DEFINE s == <<w>>
  <2>1. s \in Seq(Nat) /\ Len(s) = 1 /\ s[1] = w
    OBVIOUS
  <2> HIDE DEF s
  <2>2. Totals(s)[0] = 0 /\ \A k \in 1..1 : Totals(s)[k] = Totals(s)[k - 1] + s[k]
    BY <2>1, TotalsSteps
  <2>3. Totals(s)[1] = Totals(s)[0] + s[1]
    BY <2>2
  <2>4. SumOf(s) = Totals(s)[1]
    BY <2>1, SumIsTotal
  <2>5. SumOf(s) = w
    BY <2>1, <2>2, <2>3, <2>4
  <2> QED
    BY <2>5 DEF s
<1> QED
  BY <1>2, <1>3

\* A sum is a number.
LEMMA SumIsNumber ==
    ASSUME NEW list \in Seq(Nat)
    PROVE  SumOf(list) \in Nat
<1>1. Len(list) \in 0..Len(list)
  OBVIOUS
<1> QED
  BY <1>1, TotalsSteps, SumIsTotal

\* The sum of two lists, one after the other, is the sum of their sums.
LEMMA SumOfBoth ==
    ASSUME NEW a \in Seq(Nat), NEW b \in Seq(Nat)
    PROVE  SumOf(a \o b) = SumOf(a) + SumOf(b)
<1> DEFINE s == a \o b
           G == {k \in 0..Len(a) : Totals(s)[k] = Totals(a)[k]}
           H == {k \in 0..Len(b) : Totals(s)[Len(a) + k] = Totals(a)[Len(a)] + Totals(b)[k]}
<1>1. /\ s \in Seq(Nat) /\ Len(s) = Len(a) + Len(b) /\ Len(a) \in Nat /\ Len(b) \in Nat
      /\ \A k \in 1..Len(a) : s[k] = a[k]
      /\ \A k \in 1..Len(b) : s[Len(a) + k] = b[k]
  OBVIOUS
<1> HIDE DEF s
<1>2. /\ Totals(s)[0] = 0 /\ Totals(a)[0] = 0 /\ Totals(b)[0] = 0
      /\ \A k \in 1..Len(s) : Totals(s)[k] = Totals(s)[k - 1] + s[k]
      /\ \A k \in 1..Len(a) : Totals(a)[k] = Totals(a)[k - 1] + a[k]
      /\ \A k \in 1..Len(b) : Totals(b)[k] = Totals(b)[k - 1] + b[k]
      /\ \A k \in 0..Len(a) : Totals(a)[k] \in Nat
      /\ \A k \in 0..Len(b) : Totals(b)[k] \in Nat
  BY <1>1, TotalsSteps
<1>3. Totals(s)[Len(a)] = Totals(a)[Len(a)]
  <2>1. 0 \in G
    BY <1>1, <1>2
  <2>2. ASSUME NEW k \in 1..Len(a), k - 1 \in G PROVE k \in G
    <3>1. k \in 0..Len(a) /\ k \in 1..Len(s)
      BY <1>1
    <3>2. Totals(s)[k] = Totals(s)[k - 1] + a[k] /\ Totals(a)[k] = Totals(a)[k - 1] + a[k]
      BY <1>1, <1>2, <3>1
    <3> QED
      BY <2>2, <3>1, <3>2
  <2>3. \A k \in 0..Len(a) : k \in G
    <3> HIDE DEF G
    <3> QED
      BY <1>1, <2>1, <2>2, EveryLevel
  <2> QED
    BY <1>1, <2>3
<1>4. Totals(s)[Len(a) + Len(b)] = Totals(a)[Len(a)] + Totals(b)[Len(b)]
  <2>1. 0 \in H
    <3>1. 0 \in 0..Len(b) /\ Len(a) + 0 = Len(a) /\ Len(a) \in 0..Len(a)
      BY <1>1
    <3>2. Totals(a)[Len(a)] \in Nat /\ Totals(b)[0] = 0
      BY <1>2, <3>1
    <3>3. Totals(a)[Len(a)] + Totals(b)[0] = Totals(a)[Len(a)]
      BY <3>2
    <3> QED
      BY <1>3, <3>1, <3>3
  <2>2. ASSUME NEW k \in 1..Len(b), k - 1 \in H PROVE k \in H
    <3>1. /\ k \in 0..Len(b) /\ Len(a) + k \in 1..Len(s) /\ Len(a) + k - 1 = Len(a) + (k - 1)
          /\ k - 1 \in 0..Len(b) /\ b[k] \in Nat /\ Len(a) \in 0..Len(a)
      BY <1>1
    <3>2. Totals(s)[Len(a) + k] = Totals(s)[Len(a) + (k - 1)] + b[k]
      <4> DEFINE j == Len(a) + k
      <4>1. j \in 1..Len(s) /\ j - 1 = Len(a) + (k - 1) /\ s[j] = b[k]
        BY <1>1, <3>1
      <4> HIDE DEF j
      <4>2. Totals(s)[j] = Totals(s)[j - 1] + s[j]
        BY <1>2, <4>1
      <4>3. Totals(s)[j] = Totals(s)[Len(a) + (k - 1)] + b[k]
        BY <4>1, <4>2
      <4> QED
        BY <4>3 DEF j
    <3>3. Totals(b)[k] = Totals(b)[k - 1] + b[k]
      BY <1>2
    <3>4. Totals(a)[Len(a)] \in Nat /\ Totals(b)[k - 1] \in Nat
      BY <1>2, <3>1
    <3> QED
      BY <2>2, <3>1, <3>2, <3>3, <3>4
  <2>3. \A k \in 0..Len(b) : k \in H
    <3> HIDE DEF H
    <3> QED
      BY <1>1, <2>1, <2>2, EveryLevel
  <2> QED
    BY <1>1, <2>3
<1> QED
  BY <1>1, <1>4, SumIsTotal DEF s

-----------------------------------------------------------------------------
(* The measures of a value, for any heap.                                  *)

IsHeap(h) == \A o \in Objects : IsObject(h[o])

Levels == 0..MAX_JSON_NESTING

Below(h, o) == {h[o].items[i].object : i \in DOMAIN h[o].items}

IsNesting(h, f) ==
    f = [n \in Levels |->
            {o \in Objects : h[o].kind \in Scalars \/ (n > 0 /\ Below(h, o) \subseteq f[n - 1])}]

Nesting(h) == CHOOSE f : IsNesting(h, f)

Sizes(h, w, o) == [i \in DOMAIN h[o].items |-> w[h[o].items[i].object]]

IsWeight(h, f) ==
    f = [n \in Levels |->
            [o \in Objects |-> IF n = 0 THEN 1 ELSE 1 + SumOf(Sizes(h, f[n - 1], o))]]

Weight(h) == CHOOSE f : IsWeight(h, f)

IsReach(h, f) ==
    f = [n \in Levels |->
            [o \in Objects |->
                {o} \cup (IF n = 0 THEN {} ELSE UNION {f[n - 1][child] : child \in Below(h, o)})]]

Reach(h) == CHOOSE f : IsReach(h, f)

\* They are what the specification says of the current heap.
LEMMA MeasuresOfHeap ==
    /\ NestsWithin = Nesting(heap)
    /\ Written = Weight(heap)
    /\ Reached = Reach(heap)
<1>1. NestsWithin = Nesting(heap)
  BY Zenon DEF NestsWithin, Nesting, IsNesting, Levels, Below, Children
<1>2. Written = Weight(heap)
  BY Zenon DEF Written, Weight, IsWeight, Levels, Sizes
<1>3. Reached = Reach(heap)
  BY Zenon DEF Reached, Reach, IsReach, Levels, Below, Children
<1> QED
  BY <1>1, <1>2, <1>3

\* The elements of a sequence.
LEMMA ElementsOfSeq ==
    ASSUME NEW S, NEW s \in Seq(S)
    PROVE  /\ DOMAIN s = 1..Len(s) /\ Len(s) \in Nat
           /\ \A i \in 1..Len(s) : s[i] \in S
  OBVIOUS

\* An object refers to objects.
LEMMA ItemsFacts ==
    ASSUME NEW h, IsHeap(h), NEW o \in Objects
    PROVE  /\ h[o].items \in Seq([object : Objects, key : Keys])
           /\ Below(h, o) \subseteq Objects
           /\ h[o].kind \in Scalars \cup {"unsupported"} => h[o].items = << >>
<1>1. IsObject(h[o])
  BY DEF IsHeap
<1>2. h[o].items \in Seq([object : Objects, key : Keys])
  <2> DEFINE S == [object : Objects, key : Keys]
  <2>1. << >> \in Seq(S)
    OBVIOUS
  <2> HIDE DEF S
  <2>2. h[o].items = << >> \/ h[o].items \in Seq(S)
    BY <1>1 DEF IsObject, S
  <2>3. h[o].items \in Seq(S)
    BY <2>1, <2>2
  <2> QED
    BY <2>3 DEF S
<1>3. h[o].kind \in Scalars \cup {"unsupported"} => h[o].items = << >>
  BY <1>1 DEF IsObject, Scalars
<1>4. \A i \in DOMAIN h[o].items : h[o].items[i] \in [object : Objects, key : Keys]
  BY <1>2, ElementsOfSeq
<1> QED
  BY <1>2, <1>3, <1>4 DEF Below

\* What nests within a number of levels.
LEMMA NestingSteps ==
    ASSUME NEW h, NEW n \in Levels, NEW o \in Objects
    PROVE  o \in Nesting(h)[n]
             <=> h[o].kind \in Scalars \/ (n > 0 /\ Below(h, o) \subseteq Nesting(h)[n - 1])
<1> DEFINE X == SUBSET Objects
           fits(S) == {p \in Objects : h[p].kind \in Scalars \/ Below(h, p) \subseteq S}
           first == {p \in Objects : h[p].kind \in Scalars}
           next == [k \in 1..MAX_JSON_NESTING |-> [S \in X |-> fits(S)]]
           f == Nesting(h)
<1>1. StaysIn(X, MAX_JSON_NESTING, next) /\ first \in X
  <2>1. \A S \in X : fits(S) \in X
    OBVIOUS
  <2>2. first \in X
    OBVIOUS
  <2> HIDE DEF fits, first, X
  <2> QED
    BY <2>1, <2>2 DEF StaysIn
<1>2. PICK g \in [Levels -> X] : IsIteration(g, first, MAX_JSON_NESTING, next)
  <2>1. MAX_JSON_NESTING \in Nat
    BY LimitsAssumption
  <2> HIDE DEF X, first, next
  <2> QED
    BY <1>1, <2>1, Iterated, Zenon DEF Levels
<1>3. ASSUME NEW k \in Levels
      PROVE  g[k] = {p \in Objects : h[p].kind \in Scalars \/ (k > 0 /\ Below(h, p) \subseteq g[k - 1])}
  <2>1. CASE k = 0
    <3>1. g[k] = first
      BY <1>2, <2>1 DEF IsIteration
    <3> QED
      BY <2>1, <3>1
  <2>2. CASE k # 0
    <3>1. k \in 1..MAX_JSON_NESTING /\ k - 1 \in Levels /\ k > 0
      BY <2>2, LimitsAssumption DEF Levels
    <3>2. g[k - 1] \in X /\ g[k] = next[k][g[k - 1]]
      BY <1>2, <3>1 DEF IsIteration
    <3>3. g[k] = fits(g[k - 1])
      <4> HIDE DEF X, fits
      <4> QED
        BY <3>1, <3>2
    <3> QED
      BY <3>1, <3>3
  <2> QED
    BY <2>1, <2>2
<1>4. IsNesting(h, g)
  BY <1>2, <1>3 DEF IsNesting
<1>5. IsNesting(h, f)
  BY <1>4, Zenon DEF Nesting
<1> HIDE DEF f
<1>6. f[n] = {p \in Objects : h[p].kind \in Scalars \/ (n > 0 /\ Below(h, p) \subseteq f[n - 1])}
  BY <1>5 DEF IsNesting
<1>7. o \in f[n] <=> h[o].kind \in Scalars \/ (n > 0 /\ Below(h, o) \subseteq f[n - 1])
  BY <1>6
<1> QED
  BY <1>7 DEF f

\* A function on 1..n into S is a sequence.
LEMMA FunctionIsSeq ==
    ASSUME NEW S, NEW n \in Nat, NEW f \in [1..n -> S]
    PROVE  f \in Seq(S) /\ Len(f) = n
  OBVIOUS

\* The sizes of the items of an object are numbers, and so is their sum.
LEMMA SizesAreNumbers ==
    ASSUME NEW h, IsHeap(h), NEW o \in Objects, NEW w \in [Objects -> Nat]
    PROVE  Sizes(h, w, o) \in Seq(Nat) /\ SumOf(Sizes(h, w, o)) \in Nat
<1> DEFINE items == h[o].items
<1>1. /\ DOMAIN items = 1..Len(items) /\ Len(items) \in Nat
      /\ \A i \in 1..Len(items) : items[i] \in [object : Objects, key : Keys]
  BY ItemsFacts, ElementsOfSeq, Zenon
<1>2. \A i \in 1..Len(items) : w[items[i].object] \in Nat
  BY <1>1
<1>3. Sizes(h, w, o) \in [1..Len(items) -> Nat]
  BY <1>1, <1>2 DEF Sizes
<1>4. Sizes(h, w, o) \in Seq(Nat)
  BY <1>1, <1>3, FunctionIsSeq
<1> QED
  BY <1>4, SumIsNumber

\* What an object takes to write: itself, and its items one level further down.
LEMMA WeightSteps ==
    ASSUME NEW h, IsHeap(h)
    PROVE  /\ \A n \in Levels : Weight(h)[n] \in [Objects -> Nat]
           /\ \A o \in Objects : Weight(h)[0][o] = 1
           /\ \A n \in 1..MAX_JSON_NESTING : \A o \in Objects :
                 Weight(h)[n][o] = 1 + SumOf(Sizes(h, Weight(h)[n - 1], o))
<1> DEFINE X == [Objects -> Nat]
           first == [p \in Objects |-> 1]
           grown(w) == [p \in Objects |-> 1 + SumOf(Sizes(h, w, p))]
           next == [k \in 1..MAX_JSON_NESTING |-> [w \in X |-> grown(w)]]
           f == Weight(h)
<1>0. MAX_JSON_NESTING \in Nat /\ 0 \in Levels
  BY LimitsAssumption DEF Levels
<1>a. ASSUME NEW w \in X PROVE grown(w) \in X
  BY <1>a, SizesAreNumbers
<1>b. first \in X
  OBVIOUS
<1>1. StaysIn(X, MAX_JSON_NESTING, next)
  <2> HIDE DEF grown, first, X
  <2> QED
    BY <1>a DEF StaysIn
<1>2. PICK g \in [Levels -> X] : IsIteration(g, first, MAX_JSON_NESTING, next)
  <2> HIDE DEF X, first, next
  <2> QED
    BY <1>0, <1>1, <1>b, Iterated, Zenon DEF Levels
<1>3. ASSUME NEW k \in Levels
      PROVE  g[k] = [p \in Objects |-> IF k = 0 THEN 1 ELSE 1 + SumOf(Sizes(h, g[k - 1], p))]
  <2>1. CASE k = 0
    <3>1. g[k] = first
      BY <1>2, <2>1 DEF IsIteration
    <3> QED
      BY <2>1, <3>1
  <2>2. CASE k # 0
    <3>1. k \in 1..MAX_JSON_NESTING /\ k - 1 \in Levels
      BY <2>2, LimitsAssumption DEF Levels
    <3>2. g[k - 1] \in X /\ g[k] = next[k][g[k - 1]]
      BY <1>2, <3>1 DEF IsIteration
    <3>3. g[k] = grown(g[k - 1])
      <4> HIDE DEF X, grown
      <4> QED
        BY <3>1, <3>2
    <3> QED
      BY <2>2, <3>3
  <2> QED
    BY <2>1, <2>2
<1>4. IsWeight(h, g)
  BY <1>2, <1>3 DEF IsWeight
<1>5. IsWeight(h, f)
  BY <1>4, Zenon DEF Weight
<1> HIDE DEF f
<1>6. \A n \in Levels :
        f[n] = [p \in Objects |-> IF n = 0 THEN 1 ELSE 1 + SumOf(Sizes(h, f[n - 1], p))]
  BY <1>5 DEF IsWeight
<1>7. f[0] = first
  BY <1>0, <1>6
<1>8. ASSUME NEW n \in 1..MAX_JSON_NESTING PROVE f[n] = grown(f[n - 1])
  <2>1. n \in Levels /\ n # 0
    BY <1>0 DEF Levels
  <2> QED
    BY <1>6, <2>1
<1>9. \A n \in Levels : f[n] \in X
  <2> DEFINE G == {n \in Levels : f[n] \in X}
  <2>1. 0 \in G
    BY <1>0, <1>7, <1>b
  <2>2. ASSUME NEW n \in 1..MAX_JSON_NESTING, n - 1 \in G PROVE n \in G
    <3>1. f[n - 1] \in X
      BY <2>2
    <3>2. f[n] \in X
      <4> HIDE DEF X, grown
      <4> QED
        BY <1>8, <1>a, <3>1
    <3>3. n \in Levels
      BY <1>0 DEF Levels
    <3> QED
      BY <3>2, <3>3
  <2>3. \A n \in 0..MAX_JSON_NESTING : n \in G
    <3> HIDE DEF G
    <3> QED
      BY <1>0, <2>1, <2>2, EveryLevel
  <2> QED
    BY <2>3 DEF Levels
<1> QED
  BY <1>7, <1>8, <1>9 DEF f

\* What an object leads to: itself, and what its items lead to one level down.
LEMMA ReachSteps ==
    ASSUME NEW h, IsHeap(h), NEW n \in Levels, NEW o \in Objects
    PROVE  Reach(h)[n][o] =
             {o} \cup (IF n = 0 THEN {}
                       ELSE UNION {Reach(h)[n - 1][child] : child \in Below(h, o)})
<1> DEFINE X == [Objects -> SUBSET Objects]
           first == [p \in Objects |-> {p}]
           grown(r) == [p \in Objects |-> {p} \cup UNION {r[child] : child \in Below(h, p)}]
           next == [k \in 1..MAX_JSON_NESTING |-> [r \in X |-> grown(r)]]
           f == Reach(h)
<1>0. MAX_JSON_NESTING \in Nat
  BY LimitsAssumption
<1>a. ASSUME NEW r \in X PROVE grown(r) \in X
  <2>1. ASSUME NEW p \in Objects
        PROVE  UNION {r[child] : child \in Below(h, p)} \subseteq Objects
    <3>1. Below(h, p) \subseteq Objects
      BY ItemsFacts
    <3>2. \A child \in Below(h, p) : r[child] \subseteq Objects
      BY <1>a, <3>1
    <3> QED
      BY <3>2
  <2>2. \A p \in Objects : {p} \cup UNION {r[child] : child \in Below(h, p)} \in SUBSET Objects
    BY <2>1
  <2> QED
    BY <2>2
<1>b. first \in X
  OBVIOUS
<1>1. StaysIn(X, MAX_JSON_NESTING, next)
  <2> HIDE DEF grown, first, X
  <2> QED
    BY <1>a DEF StaysIn
<1>2. PICK g \in [Levels -> X] : IsIteration(g, first, MAX_JSON_NESTING, next)
  <2> HIDE DEF X, first, next
  <2> QED
    BY <1>0, <1>1, <1>b, Iterated, Zenon DEF Levels
<1>3. ASSUME NEW k \in Levels
      PROVE  g[k] = [p \in Objects |->
                       {p} \cup (IF k = 0 THEN {}
                                 ELSE UNION {g[k - 1][child] : child \in Below(h, p)})]
  <2>1. CASE k = 0
    <3>1. g[k] = first
      BY <1>2, <2>1 DEF IsIteration
    <3>2. \A p \in Objects : {p} \cup {} = {p}
      OBVIOUS
    <3> QED
      BY <2>1, <3>1, <3>2
  <2>2. CASE k # 0
    <3>1. k \in 1..MAX_JSON_NESTING /\ k - 1 \in Levels
      BY <2>2, LimitsAssumption DEF Levels
    <3>2. g[k - 1] \in X /\ g[k] = next[k][g[k - 1]]
      BY <1>2, <3>1 DEF IsIteration
    <3>3. g[k] = grown(g[k - 1])
      <4> HIDE DEF X, grown
      <4> QED
        BY <3>1, <3>2
    <3> QED
      BY <2>2, <3>3
  <2> QED
    BY <2>1, <2>2
<1>4. IsReach(h, g)
  BY <1>2, <1>3 DEF IsReach
<1>5. IsReach(h, f)
  BY <1>4, Zenon DEF Reach
<1> HIDE DEF f
<1>6. f[n] = [p \in Objects |->
                {p} \cup (IF n = 0 THEN {} ELSE UNION {f[n - 1][child] : child \in Below(h, p)})]
  BY <1>5 DEF IsReach
<1>7. f[n][o] = {o} \cup (IF n = 0 THEN {} ELSE UNION {f[n - 1][child] : child \in Below(h, o)})
  BY <1>6
<1> QED
  BY <1>7 DEF f

-----------------------------------------------------------------------------
(* The values waiting on the stack.                                        *)

Entries == [object : Objects, container_depth : Levels]

\* The levels there are below the container an entry is in.
Room(e) == MAX_JSON_NESTING - e.container_depth

Elements(s) == {s[i] : i \in 1..Len(s)}

Cost(h, e) == Weight(h)[Room(e)][e.object]

Costs(h, s) == [i \in 1..Len(s) |-> Cost(h, s[i])]

\* The values still to be taken.
Load(h, s) == SumOf(Costs(h, s))

Fits(h, e) == e.object \in Nesting(h)[Room(e)]

Leads(h, e) == Reach(h)[Room(e)][e.object]

Clean(h, e) == \A o \in Leads(h, e) : IsPortable(h[o])

\* Sequences are the same if their elements are.
LEMMA SameSeq ==
    ASSUME NEW S, NEW p \in Seq(S), NEW q \in Seq(S), Len(p) = Len(q),
           \A i \in 1..Len(p) : p[i] = q[i]
    PROVE  p = q
  OBVIOUS

\* One sequence after another.
LEMMA BothInOne ==
    ASSUME NEW S, NEW s \in Seq(S), NEW t \in Seq(S)
    PROVE  /\ s \o t \in Seq(S) /\ Len(s \o t) = Len(s) + Len(t)
           /\ Len(s) \in Nat /\ Len(t) \in Nat
           /\ \A i \in 1..Len(s) : (s \o t)[i] = s[i]
           /\ \A i \in 1..Len(t) : (s \o t)[Len(s) + i] = t[i]
  OBVIOUS

\* One stack on another.
LEMMA ElementsOfBoth ==
    ASSUME NEW s \in Seq(Entries), NEW t \in Seq(Entries)
    PROVE  s \o t \in Seq(Entries) /\ Elements(s \o t) = Elements(s) \cup Elements(t)
<1>1. /\ s \o t \in Seq(Entries) /\ Len(s \o t) = Len(s) + Len(t)
      /\ Len(s) \in Nat /\ Len(t) \in Nat
      /\ \A i \in 1..Len(s) : (s \o t)[i] = s[i]
      /\ \A i \in 1..Len(t) : (s \o t)[Len(s) + i] = t[i]
  BY BothInOne
<1> DEFINE u == s \o t
<1> HIDE DEF u
<1>2. ASSUME NEW i \in 1..Len(s) PROVE s[i] \in Elements(u)
  BY <1>1 DEF Elements, u
<1>3. ASSUME NEW i \in 1..Len(t) PROVE t[i] \in Elements(u)
  <2>1. Len(s) + i \in 1..Len(u)
    BY <1>1 DEF u
  <2>2. u[Len(s) + i] = t[i]
    BY <1>1 DEF u
  <2> QED
    BY <2>1, <2>2 DEF Elements
<1>4. ASSUME NEW i \in 1..Len(u) PROVE u[i] \in Elements(s) \cup Elements(t)
  <2>1. CASE i <= Len(s)
    BY <1>1, <2>1 DEF Elements, u
  <2>2. CASE ~(i <= Len(s))
    <3>1. i - Len(s) \in 1..Len(t) /\ Len(s) + (i - Len(s)) = i
      BY <1>1, <2>2 DEF u
    <3>2. u[i] = t[i - Len(s)]
      BY <1>1, <3>1 DEF u
    <3> QED
      BY <3>1, <3>2 DEF Elements
  <2> QED
    BY <2>1, <2>2
<1>5. Elements(u) = Elements(s) \cup Elements(t)
  BY <1>2, <1>3, <1>4 DEF Elements
<1> QED
  BY <1>1, <1>5 DEF u

\* The top of the stack and what is below it.
LEMMA TopAndRest ==
    ASSUME NEW s \in Seq(Entries), s # << >>
    PROVE  /\ Front(s) \in Seq(Entries)
           /\ Last(s) \in Entries
           /\ s = Front(s) \o <<Last(s)>>
           /\ <<Last(s)>> \in Seq(Entries) /\ Elements(<<Last(s)>>) = {Last(s)}
<1>1. Len(s) \in Nat \ {0} /\ s = [i \in 1..Len(s) |-> s[i]] /\ \A i \in 1..Len(s) : s[i] \in Entries
  OBVIOUS
<1>2. Front(s) = [i \in 1..(Len(s) - 1) |-> s[i]] /\ Last(s) = s[Len(s)]
  BY DEF Front, Last
<1>3. Front(s) \in [1..(Len(s) - 1) -> Entries] /\ Len(s) - 1 \in Nat
  BY <1>1, <1>2
<1>4. Front(s) \in Seq(Entries) /\ Len(Front(s)) = Len(s) - 1
  BY <1>3, FunctionIsSeq
<1>5. Last(s) \in Entries
  BY <1>1, <1>2
<1> DEFINE e == Last(s)
           f == Front(s)
<1>6. <<e>> \in Seq(Entries) /\ Len(<<e>>) = 1 /\ <<e>>[1] = e
  BY <1>5
<1>7. Elements(<<e>>) = {e}
  BY <1>6 DEF Elements
<1>8. s = f \o <<e>>
  <2>1. /\ f \o <<e>> \in Seq(Entries) /\ Len(f \o <<e>>) = Len(s)
        /\ \A i \in 1..Len(f) : (f \o <<e>>)[i] = f[i]
        /\ (f \o <<e>>)[Len(f) + 1] = e
    <3> DEFINE t == <<e>>
    <3>1. t \in Seq(Entries) /\ Len(t) = 1 /\ t[1] = e
      BY <1>6
    <3>2. f \in Seq(Entries) /\ Len(f) = Len(s) - 1
      BY <1>4
    <3> HIDE DEF f, e, t
    <3>3. /\ f \o t \in Seq(Entries) /\ Len(f \o t) = Len(f) + Len(t)
          /\ Len(f) \in Nat /\ Len(t) \in Nat
          /\ \A i \in 1..Len(f) : (f \o t)[i] = f[i]
          /\ \A i \in 1..Len(t) : (f \o t)[Len(f) + i] = t[i]
      <4>1. \A u, v \in Seq(Entries) :
              /\ u \o v \in Seq(Entries) /\ Len(u \o v) = Len(u) + Len(v)
              /\ Len(u) \in Nat /\ Len(v) \in Nat
              /\ \A i \in 1..Len(u) : (u \o v)[i] = u[i]
              /\ \A i \in 1..Len(v) : (u \o v)[Len(u) + i] = v[i]
        BY BothInOne
      <4> QED
        BY <3>1, <3>2, <4>1, Zenon
    <3>4. (f \o t)[Len(f) + 1] = t[1]
      BY <3>1, <3>3
    <3>5. Len(f \o t) = Len(s)
      <4>1. Len(s) \in Nat
        BY <1>1
      <4> QED
        BY <3>1, <3>2, <3>3, <4>1
    <3> QED
      BY <3>1, <3>3, <3>4, <3>5 DEF t
  <2>2. ASSUME NEW i \in 1..Len(s) PROVE (f \o <<e>>)[i] = s[i]
    <3>1. CASE i = Len(s)
      BY <1>1, <1>2, <1>4, <2>1, <3>1
    <3>2. CASE i # Len(s)
      <4>1. i \in 1..(Len(s) - 1)
        BY <1>1, <3>2
      <4> QED
        BY <1>2, <1>4, <2>1, <4>1
    <3> QED
      BY <3>1, <3>2
  <2>3. \A t \in Seq(Entries) : Len(t) = Len(s) /\ (\A i \in 1..Len(s) : t[i] = s[i]) => t = s
    OBVIOUS
  <2> HIDE DEF f, e
  <2> QED
    BY <2>1, <2>2, <2>3
<1> QED
  BY <1>4, <1>5, <1>6, <1>7, <1>8

\* What an entry and a stack of them cost are numbers, and an entry costs one at least.
LEMMA CostIsNumber ==
    ASSUME NEW h, IsHeap(h)
    PROVE  /\ \A e \in Entries : Cost(h, e) \in Nat \ {0}
           /\ \A s \in Seq(Entries) : Costs(h, s) \in Seq(Nat) /\ Len(Costs(h, s)) = Len(s)
           /\ \A s \in Seq(Entries) : Load(h, s) \in Nat
<1>1. ASSUME NEW e \in Entries PROVE Cost(h, e) \in Nat \ {0}
  <2> DEFINE n == Room(e)
             o == e.object
  <2>1. n \in Levels /\ o \in Objects
    BY LimitsAssumption DEF Entries, Room, Levels
  <2>2. CASE n = 0
    BY <2>1, <2>2, WeightSteps DEF Cost
  <2>3. CASE n # 0
    <3>1. n \in 1..MAX_JSON_NESTING /\ n - 1 \in Levels
      BY <2>1, <2>3, LimitsAssumption DEF Levels
    <3> HIDE DEF n, o
    <3>2. Weight(h)[n][o] = 1 + SumOf(Sizes(h, Weight(h)[n - 1], o))
      BY <2>1, <3>1, WeightSteps
    <3>3. SumOf(Sizes(h, Weight(h)[n - 1], o)) \in Nat
      BY <2>1, <3>1, WeightSteps, SizesAreNumbers
    <3>4. Weight(h)[n][o] \in Nat \ {0}
      BY <3>2, <3>3
    <3> QED
      BY <3>4 DEF Cost, n, o
  <2> QED
    BY <2>2, <2>3
<1>2. ASSUME NEW s \in Seq(Entries)
      PROVE  Costs(h, s) \in Seq(Nat) /\ Len(Costs(h, s)) = Len(s)
  <2>1. Len(s) \in Nat /\ \A i \in 1..Len(s) : s[i] \in Entries
    BY ElementsOfSeq
  <2>2. Costs(h, s) \in [1..Len(s) -> Nat]
    BY <1>1, <2>1 DEF Costs
  <2> QED
    BY <2>1, <2>2, FunctionIsSeq
<1> QED
  BY <1>1, <1>2, SumIsNumber DEF Load

\* The load of one stack on another.
LEMMA LoadOfBoth ==
    ASSUME NEW h, IsHeap(h), NEW s \in Seq(Entries), NEW t \in Seq(Entries)
    PROVE  Load(h, s \o t) = Load(h, s) + Load(h, t)
<1> DEFINE u == s \o t
           a == Costs(h, s)
           b == Costs(h, t)
<1>1. /\ u \in Seq(Entries) /\ Len(u) = Len(s) + Len(t)
      /\ Len(s) \in Nat /\ Len(t) \in Nat
      /\ \A i \in 1..Len(s) : u[i] = s[i]
      /\ \A i \in 1..Len(t) : u[Len(s) + i] = t[i]
  BY BothInOne
<1>2. a \in Seq(Nat) /\ Len(a) = Len(s) /\ b \in Seq(Nat) /\ Len(b) = Len(t)
  BY CostIsNumber
<1>3. /\ a \o b \in Seq(Nat) /\ Len(a \o b) = Len(a) + Len(b)
      /\ \A i \in 1..Len(a) : (a \o b)[i] = a[i]
      /\ \A i \in 1..Len(b) : (a \o b)[Len(a) + i] = b[i]
  <2>1. ASSUME NEW c \in Seq(Nat), NEW d \in Seq(Nat)
        PROVE  /\ c \o d \in Seq(Nat) /\ Len(c \o d) = Len(c) + Len(d)
               /\ \A i \in 1..Len(c) : (c \o d)[i] = c[i]
               /\ \A i \in 1..Len(d) : (c \o d)[Len(c) + i] = d[i]
    BY BothInOne
  <2> HIDE DEF a, b
  <2> QED
    BY <1>2, <2>1, Zenon
<1>4. /\ \A i \in 1..Len(s) : a[i] = Cost(h, s[i])
      /\ \A i \in 1..Len(t) : b[i] = Cost(h, t[i])
  BY DEF Costs
<1>5. Costs(h, u) \in Seq(Nat) /\ Len(Costs(h, u)) = Len(u)
      /\ \A i \in 1..Len(u) : Costs(h, u)[i] = Cost(h, u[i])
  <2>1. Costs(h, u) \in Seq(Nat) /\ Len(Costs(h, u)) = Len(u)
    <3> HIDE DEF u
    <3> QED
      BY <1>1, CostIsNumber
  <2>2. \A i \in 1..Len(u) : Costs(h, u)[i] = Cost(h, u[i])
    BY DEF Costs
  <2> QED
    BY <2>1, <2>2
<1> DEFINE c == Costs(h, u)
           ab == a \o b
<1> HIDE DEF a, b, u, c, ab
<1>6. ASSUME NEW i \in 1..Len(u) PROVE c[i] = ab[i]
  <2>1. c[i] = Cost(h, u[i])
    BY <1>5 DEF c
  <2>2. CASE i <= Len(s)
    <3>1. i \in 1..Len(s) /\ i \in 1..Len(a)
      BY <1>1, <1>2, <2>2
    <3>2. u[i] = s[i] /\ ab[i] = a[i] /\ a[i] = Cost(h, s[i])
      BY <1>1, <1>3, <1>4, <3>1 DEF ab
    <3> QED
      BY <2>1, <3>2
  <2>3. CASE ~(i <= Len(s))
    <3> DEFINE j == i - Len(s)
    <3>1. j \in 1..Len(t) /\ j \in 1..Len(b) /\ Len(s) + j = i /\ Len(a) + j = i
      BY <1>1, <1>2, <2>3
    <3> HIDE DEF j
    <3>2. u[Len(s) + j] = t[j] /\ ab[Len(a) + j] = b[j] /\ b[j] = Cost(h, t[j])
      BY <1>1, <1>3, <1>4, <3>1 DEF ab
    <3> QED
      BY <2>1, <3>1, <3>2
  <2> QED
    BY <2>2, <2>3
<1>7. c = ab
  <2>1. c \in Seq(Nat) /\ ab \in Seq(Nat) /\ Len(c) = Len(u) /\ Len(ab) = Len(u)
    BY <1>1, <1>2, <1>3, <1>5 DEF c, ab
  <2>2. \A p, q \in Seq(Nat) :
          Len(p) = Len(q) /\ (\A i \in 1..Len(p) : p[i] = q[i]) => p = q
    BY SameSeq
  <2> QED
    BY <1>6, <2>1, <2>2
<1>8. SumOf(ab) = SumOf(a) + SumOf(b)
  BY <1>2, SumOfBoth DEF ab
<1> QED
  BY <1>7, <1>8 DEF Load, a, b, c, u

\* The load of a single entry and of an empty stack.
LEMMA SmallLoads ==
    ASSUME NEW h, IsHeap(h)
    PROVE  /\ Load(h, << >>) = 0
           /\ \A e \in Entries : Load(h, <<e>>) = Cost(h, e)
<1>1. Costs(h, << >>) = << >>
  BY DEF Costs
<1>2. ASSUME NEW e \in Entries PROVE Load(h, <<e>>) = Cost(h, e)
  <2>1. Cost(h, e) \in Nat
    BY CostIsNumber
  <2>2. Costs(h, <<e>>) = <<Cost(h, e)>>
    BY DEF Costs
  <2> QED
    BY <2>1, <2>2, SmallSums DEF Load
<1> QED
  BY <1>1, <1>2, SmallSums DEF Load

ItemsOf(h, e) ==
    [i \in DOMAIN h[e.object].items |->
        [object |-> h[e.object].items[i].object, container_depth |-> e.container_depth + 1]]

\* What a container is exchanged for on the stack.
LEMMA ItemsForContainer ==
    ASSUME NEW h, IsHeap(h), NEW e \in Entries, e.container_depth < MAX_JSON_NESTING
    PROVE  /\ ItemsOf(h, e) \in Seq(Entries)
           /\ Cost(h, e) = 1 + Load(h, ItemsOf(h, e))
           /\ h[e.object].kind \notin Scalars
                => (Fits(h, e) <=> \A c \in Elements(ItemsOf(h, e)) : Fits(h, c))
           /\ Leads(h, e) =
                {e.object} \cup UNION {Leads(h, c) : c \in Elements(ItemsOf(h, e))}
<1> DEFINE items == h[e.object].items
           pushed == ItemsOf(h, e)
           n == Room(e)
           o == e.object
<1>1. /\ o \in Objects /\ e.container_depth \in Levels /\ e.container_depth + 1 \in Levels
      /\ n \in Levels /\ n \in 1..MAX_JSON_NESTING /\ n > 0 /\ n # 0
      /\ n - 1 \in Levels /\ n - 1 = MAX_JSON_NESTING - (e.container_depth + 1)
  BY LimitsAssumption DEF Entries, Levels, Room
<1>2. /\ DOMAIN items = 1..Len(items) /\ Len(items) \in Nat
      /\ \A i \in 1..Len(items) : items[i] \in [object : Objects, key : Keys]
      /\ Below(h, o) \subseteq Objects
  <2>1. items \in Seq([object : Objects, key : Keys]) /\ Below(h, o) \subseteq Objects
    BY <1>1, ItemsFacts
  <2> QED
    BY <2>1, ElementsOfSeq, Zenon
<1> DEFINE Entry(p) == [object |-> p, container_depth |-> e.container_depth + 1]
<1>3. \A p \in Objects :
        Entry(p) \in Entries /\ Room(Entry(p)) = n - 1 /\ Entry(p).object = p
  BY <1>1 DEF Entries, Room
<1>4. /\ pushed = [i \in 1..Len(items) |-> Entry(items[i].object)]
      /\ \A i \in 1..Len(items) : items[i].object \in Objects
  BY <1>2 DEF ItemsOf
<1>5. pushed \in Seq(Entries) /\ Len(pushed) = Len(items)
      /\ \A i \in 1..Len(items) : pushed[i] = Entry(items[i].object)
  <2> HIDE DEF Entry, items
  <2>1. pushed \in [1..Len(items) -> Entries]
    BY <1>3, <1>4
  <2>2. \A i \in 1..Len(items) : pushed[i] = Entry(items[i].object)
    BY <1>4
  <2>3. pushed \in Seq(Entries) /\ Len(pushed) = Len(items)
    <3> HIDE DEF pushed
    <3> QED
      BY <1>2, <2>1, FunctionIsSeq
  <2> QED
    BY <2>2, <2>3
<1>6. Elements(pushed) = {Entry(p) : p \in Below(h, o)}
  <2>1. Below(h, o) = {items[i].object : i \in 1..Len(items)}
    BY <1>2 DEF Below
  <2>2. Elements(pushed) = {pushed[i] : i \in 1..Len(items)}
    BY <1>5 DEF Elements
  <2> HIDE DEF pushed, Entry, items, o
  <2> QED
    BY <1>5, <2>1, <2>2
<1>7. Cost(h, e) = 1 + Load(h, pushed)
  <2>1. Sizes(h, Weight(h)[n - 1], o) = Costs(h, pushed)
    <3> DEFINE w == Weight(h)[n - 1]
    <3>1. Sizes(h, w, o) = [i \in 1..Len(items) |-> w[items[i].object]]
      BY <1>2 DEF Sizes
    <3>2. Costs(h, pushed) = [i \in 1..Len(items) |-> Cost(h, pushed[i])]
      BY <1>5 DEF Costs
    <3>3. ASSUME NEW i \in 1..Len(items) PROVE Cost(h, pushed[i]) = w[items[i].object]
      <4>1. pushed[i] = Entry(items[i].object) /\ items[i].object \in Objects
        BY <1>4, <1>5
      <4>2. Room(pushed[i]) = n - 1 /\ pushed[i].object = items[i].object
        BY <1>3, <4>1
      <4> HIDE DEF pushed, items, n
      <4> QED
        BY <4>2 DEF Cost
    <3>4. [i \in 1..Len(items) |-> w[items[i].object]]
            = [i \in 1..Len(items) |-> Cost(h, pushed[i])]
      <4> HIDE DEF w, items, pushed
      <4> QED
        BY <3>3, Zenon
    <3> QED
      BY <3>1, <3>2, <3>4, Zenon
  <2>2. Weight(h)[n][o] = 1 + SumOf(Sizes(h, Weight(h)[n - 1], o))
    BY <1>1, WeightSteps
  <2> QED
    BY <2>1, <2>2 DEF Cost, Load
<1>8. ASSUME h[o].kind \notin Scalars
      PROVE  Fits(h, e) <=> \A c \in Elements(pushed) : Fits(h, c)
  <2>1. Fits(h, e) <=> Below(h, o) \subseteq Nesting(h)[n - 1]
    BY <1>1, <1>8, NestingSteps DEF Fits
  <2>2. \A p \in Below(h, o) : Fits(h, Entry(p)) <=> p \in Nesting(h)[n - 1]
    BY <1>2, <1>3 DEF Fits
  <2> HIDE DEF pushed, Entry, o, n
  <2> QED
    BY <1>6, <2>1, <2>2
<1>9. Leads(h, e) = {o} \cup UNION {Leads(h, c) : c \in Elements(pushed)}
  <2>1. Leads(h, e) = {o} \cup UNION {Reach(h)[n - 1][child] : child \in Below(h, o)}
    BY <1>1, ReachSteps DEF Leads
  <2>2. \A p \in Below(h, o) : Leads(h, Entry(p)) = Reach(h)[n - 1][p]
    BY <1>2, <1>3 DEF Leads
  <2> HIDE DEF pushed, Entry, o, n
  <2> QED
    BY <1>6, <2>1, <2>2
<1> QED
  BY <1>5, <1>7, <1>8, <1>9

\* A value without items costs one, and leads to itself only.
LEMMA NoItems ==
    ASSUME NEW h, IsHeap(h), NEW e \in Entries,
           h[e.object].kind \in Scalars \cup {"unsupported"}
    PROVE  Cost(h, e) = 1 /\ Leads(h, e) = {e.object} /\ h[e.object].items = << >>
<1> DEFINE n == Room(e)
           o == e.object
<1>1. n \in Levels /\ o \in Objects
  BY LimitsAssumption DEF Entries, Room, Levels
<1>2. h[o].items = << >>
  BY <1>1, ItemsFacts
<1>3. Below(h, o) = {}
  BY <1>2 DEF Below
<1>4. Leads(h, e) = {o}
  BY <1>1, <1>3, ReachSteps DEF Leads
<1>5. Cost(h, e) = 1
  <2>1. CASE n = 0
    BY <1>1, <2>1, WeightSteps DEF Cost
  <2>2. CASE n # 0
    <3>1. n \in 1..MAX_JSON_NESTING
      BY <1>1, <2>2, LimitsAssumption DEF Levels
    <3>2. Sizes(h, Weight(h)[n - 1], o) = << >>
      BY <1>2 DEF Sizes
    <3> HIDE DEF n, o
    <3>3. Weight(h)[n][o] = 1 + 0
      BY <1>1, <3>1, <3>2, WeightSteps, SmallSums
    <3> QED
      BY <3>3 DEF Cost, n, o
  <2> QED
    BY <2>1, <2>2
<1> QED
  BY <1>2, <1>4, <1>5

-----------------------------------------------------------------------------
(* The walk.                                                               *)

\* What the root is, is what was taken and what still waits: the values taken
\* and those still to come are all its values, and a fault it has is a fault of
\* one that waits.
Accounted(h, s, count) ==
    /\ s \in Seq(Entries)
    /\ count \in Nat
    /\ count + Load(h, s) = Weight(h)[MAX_JSON_NESTING][Root]
    /\ Root \in Nesting(h)[MAX_JSON_NESTING] <=> \A e \in Elements(s) : Fits(h, e)
    /\ (\A o \in Reach(h)[MAX_JSON_NESTING][Root] : IsPortable(h[o]))
         <=> \A e \in Elements(s) : Clean(h, e)
    /\ \A e \in Elements(s) : Leads(h, e) \subseteq Reach(h)[MAX_JSON_NESTING][Root]

BoundedIn(h) ==
    /\ Root \in Nesting(h)[MAX_JSON_NESTING]
    /\ Weight(h)[MAX_JSON_NESTING][Root] <= MAX_JSON_NODES
    /\ \A o \in Reach(h)[MAX_JSON_NESTING][Root] : IsPortable(h[o])

TrueIn(h, reason) ==
    CASE reason = "nodes" -> Weight(h)[MAX_JSON_NESTING][Root] > MAX_JSON_NODES
      [] reason = "nesting" -> Root \notin Nesting(h)[MAX_JSON_NESTING]
      [] OTHER -> \E o \in Reach(h)[MAX_JSON_NESTING][Root] :
                     \/ h[o].kind = reason
                     \/ \E i \in DOMAIN h[o].items : h[o].items[i].key = reason

ExactFor(h, count, w) ==
    /\ w = "accepted" => BoundedIn(h) /\ count = Weight(h)[MAX_JSON_NESTING][Root]
    /\ w \notin {"none", "walking", "accepted"} => ~BoundedIn(h) /\ TrueIn(h, w)
    /\ count <= MAX_JSON_NODES + 1

LimitsIInv ==
    /\ walk = "none" => nodes = 0
    /\ walk = "walking" =>
          IsHeap(heap) /\ nodes <= MAX_JSON_NODES /\ Accounted(heap, stack, nodes)
    /\ ExactFor(heap, nodes, walk)

\* The invariant is about the property.
LEMMA ExactIsExact ==
    LimitsIInv => AcceptedIsExact /\ RefusalIsExact /\ nodes <= MAX_JSON_NODES + 1
<1>1. IsBoundedJson <=> BoundedIn(heap)
  BY MeasuresOfHeap, Zenon DEF IsBoundedJson, BoundedIn
<1>2. ReasonIsTrue <=> TrueIn(heap, walk)
  BY MeasuresOfHeap, Zenon DEF ReasonIsTrue, TrueIn
<1>3. Written = Weight(heap)
  BY MeasuresOfHeap
<1> QED
  BY <1>1, <1>2, <1>3, Zenon DEF LimitsIInv, ExactFor, AcceptedIsExact, RefusalIsExact

\* Before the value on top of the stack is taken.
LEMMA TakenFacts ==
    ASSUME LimitsIInv, Taken
    PROVE  /\ IsHeap(heap) /\ Accounted(heap, stack, nodes) /\ nodes \in Nat
           /\ nodes' = nodes + 1 /\ nodes' \in Nat /\ nodes' <= MAX_JSON_NODES + 1
           /\ heap' = heap /\ walk = "walking"
           /\ Top \in Entries /\ Front(stack) \in Seq(Entries)
           /\ Elements(stack) = Elements(Front(stack)) \cup {Top}
           /\ Load(heap, Front(stack)) \in Nat /\ Cost(heap, Top) \in Nat \ {0}
           /\ nodes + Load(heap, Front(stack)) + Cost(heap, Top)
                = Weight(heap)[MAX_JSON_NESTING][Root]
           /\ current = heap[Top.object]
<1>1. /\ IsHeap(heap) /\ Accounted(heap, stack, nodes) /\ walk = "walking" /\ stack # << >>
      /\ nodes' = nodes + 1 /\ heap' = heap /\ nodes <= MAX_JSON_NODES
  BY DEF LimitsIInv, Taken
<1>2. /\ nodes \in Nat /\ stack \in Seq(Entries)
      /\ nodes + Load(heap, stack) = Weight(heap)[MAX_JSON_NESTING][Root]
  BY <1>1 DEF Accounted
<1> DEFINE f == Front(stack)
           e == Last(stack)
<1>3. /\ f \in Seq(Entries) /\ e \in Entries /\ stack = f \o <<e>>
      /\ <<e>> \in Seq(Entries) /\ Elements(<<e>>) = {e}
  BY <1>1, <1>2, TopAndRest
<1> HIDE DEF f, e
<1>4. Elements(stack) = Elements(f) \cup {e}
  BY <1>3, ElementsOfBoth
<1>5. Load(heap, stack) = Load(heap, f) + Cost(heap, e)
  <2>1. Load(heap, f \o <<e>>) = Load(heap, f) + Load(heap, <<e>>)
    BY <1>1, <1>3, LoadOfBoth
  <2>2. Load(heap, <<e>>) = Cost(heap, e)
    BY <1>1, <1>3, SmallLoads
  <2> QED
    BY <1>3, <2>1, <2>2
<1>6. Load(heap, f) \in Nat /\ Cost(heap, e) \in Nat \ {0}
  BY <1>1, <1>3, CostIsNumber
<1>7. nodes + Load(heap, f) + Cost(heap, e) = Weight(heap)[MAX_JSON_NESTING][Root]
  BY <1>2, <1>5, <1>6
<1>8. nodes' \in Nat /\ nodes' <= MAX_JSON_NODES + 1
  BY <1>1, <1>2, LimitsAssumption
<1>9. Top = e /\ Front(stack) = f
  BY DEF Top, e, f
<1> QED
  BY <1>1, <1>2, <1>3, <1>4, <1>6, <1>7, <1>8, <1>9, Zenon DEF current

\* A value leads to itself.
LEMMA LeadsToItself ==
    ASSUME NEW h, IsHeap(h), NEW e \in Entries
    PROVE  e.object \in Leads(h, e)
<1>1. Room(e) \in Levels /\ e.object \in Objects
  BY LimitsAssumption DEF Entries, Room, Levels
<1> QED
  BY <1>1, ReachSteps DEF Leads

\* The walk stops for a reason that is a fault of the value on top.
LEMMA StopStep ==
    ASSUME LimitsIInv, Taken, NEW reason, Stop(reason),
           \/ reason = "nodes" /\ nodes' > MAX_JSON_NODES
           \/ reason = "nesting" /\ ~Fits(heap, Top)
           \/ /\ reason \notin {"none", "walking", "accepted", "nodes", "nesting"}
              /\ ~IsPortable(current)
              /\ \/ current.kind = reason
                 \/ \E i \in DOMAIN current.items : current.items[i].key = reason
    PROVE  LimitsIInv'
<1>1. /\ IsHeap(heap) /\ Accounted(heap, stack, nodes) /\ nodes \in Nat
      /\ nodes' = nodes + 1 /\ nodes' \in Nat /\ nodes' <= MAX_JSON_NODES + 1
      /\ heap' = heap /\ Top \in Entries
      /\ Elements(stack) = Elements(Front(stack)) \cup {Top}
      /\ Load(heap, Front(stack)) \in Nat /\ Cost(heap, Top) \in Nat \ {0}
      /\ nodes + Load(heap, Front(stack)) + Cost(heap, Top)
           = Weight(heap)[MAX_JSON_NESTING][Root]
      /\ current = heap[Top.object]
  BY TakenFacts
<1>2. walk' = reason /\ reason \notin {"none", "walking", "accepted"}
  BY DEF Stop
<1>3. Top \in Elements(stack)
  BY <1>1
<1>4. ~BoundedIn(heap) /\ TrueIn(heap, reason)
  <2>1. CASE reason = "nodes" /\ nodes' > MAX_JSON_NODES
    <3>1. Weight(heap)[MAX_JSON_NESTING][Root] >= nodes + 1
      BY <1>1
    <3>2. Weight(heap)[MAX_JSON_NESTING][Root] \in Nat
      BY <1>1
    <3>3. Weight(heap)[MAX_JSON_NESTING][Root] > MAX_JSON_NODES
      BY <1>1, <2>1, <3>1, <3>2, LimitsAssumption
    <3>4. ~(Weight(heap)[MAX_JSON_NESTING][Root] <= MAX_JSON_NODES)
      BY <3>2, <3>3, LimitsAssumption
    <3> QED
      BY <2>1, <3>3, <3>4 DEF BoundedIn, TrueIn
  <2>2. CASE reason = "nesting" /\ ~Fits(heap, Top)
    <3>1. Root \notin Nesting(heap)[MAX_JSON_NESTING]
      BY <1>1, <1>3, <2>2, Zenon DEF Accounted
    <3> QED
      BY <2>2, <3>1 DEF BoundedIn, TrueIn
  <2>3. CASE /\ reason \notin {"none", "walking", "accepted", "nodes", "nesting"}
             /\ ~IsPortable(current)
             /\ \/ current.kind = reason
                \/ \E i \in DOMAIN current.items : current.items[i].key = reason
    <3>1. Top.object \in Leads(heap, Top)
      BY <1>1, LeadsToItself
    <3>2. Top.object \in Reach(heap)[MAX_JSON_NESTING][Root]
      BY <1>1, <1>3, <3>1, Zenon DEF Accounted
    <3>3. ~BoundedIn(heap)
      BY <1>1, <2>3, <3>2, Zenon DEF BoundedIn
    <3>4. \E o \in Reach(heap)[MAX_JSON_NESTING][Root] :
             \/ heap[o].kind = reason
             \/ \E i \in DOMAIN heap[o].items : heap[o].items[i].key = reason
      BY <1>1, <2>3, <3>2, Zenon
    <3> QED
      BY <2>3, <3>3, <3>4 DEF TrueIn
  <2> QED
    BY <2>1, <2>2, <2>3, Zenon
<1>5. ExactFor(heap', nodes', walk')
  BY <1>1, <1>2, <1>4 DEF ExactFor
<1> QED
  BY <1>2, <1>5 DEF LimitsIInv

\* The walk goes on, and what waits accounts for the root as before.
LEMMA GoesOn ==
    ASSUME LimitsIInv, Taken, nodes' <= MAX_JSON_NODES, walk' = walk,
           NEW t \in Seq(Entries), stack' = Front(stack) \o t,
           Cost(heap, Top) = 1 + Load(heap, t),
           Fits(heap, Top) <=> \A e \in Elements(t) : Fits(heap, e),
           Clean(heap, Top) <=> \A e \in Elements(t) : Clean(heap, e),
           \A e \in Elements(t) : Leads(heap, e) \subseteq Leads(heap, Top)
    PROVE  LimitsIInv'
<1>1. /\ IsHeap(heap) /\ Accounted(heap, stack, nodes) /\ nodes \in Nat
      /\ nodes' = nodes + 1 /\ nodes' \in Nat /\ nodes' <= MAX_JSON_NODES + 1
      /\ heap' = heap /\ walk = "walking" /\ Front(stack) \in Seq(Entries)
      /\ Elements(stack) = Elements(Front(stack)) \cup {Top}
      /\ Load(heap, Front(stack)) \in Nat /\ Cost(heap, Top) \in Nat \ {0}
      /\ nodes + Load(heap, Front(stack)) + Cost(heap, Top)
           = Weight(heap)[MAX_JSON_NESTING][Root]
  BY TakenFacts
<1> DEFINE f == Front(stack)
           s == f \o t
<1>2. s \in Seq(Entries) /\ Elements(s) = Elements(f) \cup Elements(t)
  BY <1>1, ElementsOfBoth
<1>3. Load(heap, s) = Load(heap, f) + Load(heap, t) /\ Load(heap, t) \in Nat
  BY <1>1, LoadOfBoth, CostIsNumber
<1> HIDE DEF f, s
<1>4. nodes' + Load(heap, s) = Weight(heap)[MAX_JSON_NESTING][Root]
  BY <1>1, <1>3 DEF f
<1>5. Root \in Nesting(heap)[MAX_JSON_NESTING] <=> \A e \in Elements(s) : Fits(heap, e)
  <2>1. Root \in Nesting(heap)[MAX_JSON_NESTING] <=> \A e \in Elements(stack) : Fits(heap, e)
    BY <1>1, Zenon DEF Accounted
  <2> QED
    BY <1>1, <1>2, <2>1 DEF f
<1>6. (\A o \in Reach(heap)[MAX_JSON_NESTING][Root] : IsPortable(heap[o]))
        <=> \A e \in Elements(s) : Clean(heap, e)
  <2>1. (\A o \in Reach(heap)[MAX_JSON_NESTING][Root] : IsPortable(heap[o]))
          <=> \A e \in Elements(stack) : Clean(heap, e)
    BY <1>1, Zenon DEF Accounted
  <2>2. (\A e \in Elements(stack) : Clean(heap, e)) <=> (\A e \in Elements(s) : Clean(heap, e))
    BY <1>1, <1>2 DEF f
  <2> QED
    BY <2>1, <2>2, Zenon
<1>7. \A e \in Elements(s) : Leads(heap, e) \subseteq Reach(heap)[MAX_JSON_NESTING][Root]
  <2>1. \A e \in Elements(stack) : Leads(heap, e) \subseteq Reach(heap)[MAX_JSON_NESTING][Root]
    BY <1>1, Zenon DEF Accounted
  <2> QED
    BY <1>1, <1>2, <2>1 DEF f
<1>8. Accounted(heap, s, nodes')
  BY <1>1, <1>2, <1>4, <1>5, <1>6, <1>7, Zenon DEF Accounted
<1>9. stack' = s
  BY DEF s, f
<1>10. ExactFor(heap', nodes', walk')
  BY <1>1 DEF ExactFor
<1> QED
  BY <1>1, <1>8, <1>9, <1>10 DEF LimitsIInv

\* A value that is no container is dropped, or it is the reason to stop.
LEMMA ScalarStep ==
    ASSUME LimitsIInv, Scalar
    PROVE  LimitsIInv'
<1>1. /\ Taken /\ nodes' <= MAX_JSON_NODES /\ current.kind \in Scalars
      /\ IF current.kind = "portable" THEN stack' = Front(stack) /\ walk' = walk
         ELSE Stop(current.kind)
  BY DEF Scalar
<1>2. /\ IsHeap(heap) /\ Top \in Entries /\ Front(stack) \in Seq(Entries)
      /\ current = heap[Top.object]
  BY <1>1, TakenFacts
<1>3. Top.object \in Objects /\ Room(Top) \in Levels
  BY <1>2, LimitsAssumption DEF Entries, Room, Levels
<1>4. /\ Cost(heap, Top) = 1 /\ Leads(heap, Top) = {Top.object}
      /\ heap[Top.object].items = << >>
  BY <1>1, <1>2, NoItems, Zenon
<1>5. CASE current.kind = "portable"
  <2> DEFINE t == << >>
  <2>1. t \in Seq(Entries) /\ Elements(t) = {}
    BY DEF Elements
  <2>2. stack' = Front(stack) \o t
    <3> DEFINE f == Front(stack)
    <3>1. f \in Seq(Entries) /\ stack' = f
      BY <1>1, <1>2, <1>5
    <3> HIDE DEF f
    <3>2. f \o << >> = f
      BY <3>1
    <3> QED
      BY <3>1, <3>2 DEF f
  <2>3. Cost(heap, Top) = 1 + Load(heap, t)
    BY <1>2, <1>4, SmallLoads
  <2>4. Fits(heap, Top)
    BY <1>1, <1>2, <1>3, NestingSteps DEF Fits
  <2>5. IsPortable(heap[Top.object])
    BY <1>2, <1>4, <1>5 DEF IsPortable
  <2>6. Clean(heap, Top)
    BY <1>4, <2>5 DEF Clean
  <2>7. walk' = walk
    BY <1>1, <1>5
  <2> HIDE DEF t
  <2> QED
    BY <1>1, <2>1, <2>2, <2>3, <2>4, <2>6, <2>7, GoesOn
<1>6. CASE current.kind # "portable"
  <2> DEFINE reason == current.kind
  <2>1. Stop(reason) /\ reason \in {"invalid_text", "non_finite"}
    BY <1>1, <1>6 DEF Scalars
  <2>2. ~IsPortable(current)
    BY <2>1 DEF IsPortable
  <2> HIDE DEF reason
  <2>3. reason \notin {"none", "walking", "accepted", "nodes", "nesting"}
    BY <2>1
  <2>4. current.kind = reason
    BY DEF reason
  <2> QED
    BY <1>1, <2>1, <2>2, <2>3, <2>4, StopStep
<1> QED
  BY <1>5, <1>6

\* A container, or what counts as one, in a container at the last level.
LEMMA ExceedDepthStep ==
    ASSUME LimitsIInv, ExceedDepth
    PROVE  LimitsIInv'
<1>1. Taken /\ current.kind \notin Scalars /\ TooDeep /\ Stop("nesting")
  BY DEF ExceedDepth
<1>2. IsHeap(heap) /\ Top \in Entries /\ current = heap[Top.object]
  BY <1>1, TakenFacts
<1>3. Room(Top) = 0 /\ Room(Top) \in Levels /\ Top.object \in Objects
  <2>1. Top.container_depth + 1 > MAX_JSON_NESTING
    BY <1>1 DEF TooDeep, next_depth
  <2>2. Top.container_depth \in 0..MAX_JSON_NESTING /\ Top.object \in Objects
    BY <1>2 DEF Entries, Levels
  <2> QED
    BY <2>1, <2>2, LimitsAssumption DEF Room, Levels
<1>4. ~Fits(heap, Top)
  <2>1. ~(Room(Top) > 0)
    BY <1>3
  <2> QED
    BY <1>1, <1>2, <1>3, <2>1, NestingSteps DEF Fits
<1> QED
  BY <1>1, <1>4, StopStep

\* A container is exchanged for its items, or one of its keys is the reason to stop.
LEMMA ContainerStep ==
    ASSUME LimitsIInv, Container
    PROVE  LimitsIInv'
<1>1. /\ Taken /\ nodes' <= MAX_JSON_NODES /\ current.kind \in {"list", "dict"} /\ ~TooDeep
      /\ IF KeyFaults = {} THEN stack' = Front(stack) \o Items /\ walk' = walk
         ELSE Stop(current.items[FirstFault].key)
  BY DEF Container
<1>2. /\ IsHeap(heap) /\ Top \in Entries /\ Front(stack) \in Seq(Entries)
      /\ current = heap[Top.object]
  BY <1>1, TakenFacts
<1>3. Top.container_depth < MAX_JSON_NESTING /\ Top.object \in Objects
  <2>1. ~(Top.container_depth + 1 > MAX_JSON_NESTING)
    BY <1>1 DEF TooDeep, next_depth
  <2>2. Top.container_depth \in 0..MAX_JSON_NESTING /\ Top.object \in Objects
    BY <1>2 DEF Entries, Levels
  <2> QED
    BY <2>1, <2>2, LimitsAssumption
<1>4. CASE KeyFaults = {}
  <2> DEFINE t == ItemsOf(heap, Top)
  <2>1. Items = t
    BY <1>2 DEF Items, ItemsOf, next_depth
  <2>2. /\ t \in Seq(Entries)
        /\ Cost(heap, Top) = 1 + Load(heap, t)
        /\ heap[Top.object].kind \notin Scalars
             => (Fits(heap, Top) <=> \A e \in Elements(t) : Fits(heap, e))
        /\ Leads(heap, Top) = {Top.object} \cup UNION {Leads(heap, e) : e \in Elements(t)}
    BY <1>2, <1>3, ItemsForContainer
  <2>3. heap[Top.object].kind \notin Scalars
    BY <1>1, <1>2 DEF Scalars
  <2>4. IsPortable(heap[Top.object])
    BY <1>1, <1>2, <1>4 DEF IsPortable, KeyFaults
  <2> HIDE DEF t
  <2>5. Clean(heap, Top) <=> \A e \in Elements(t) : Clean(heap, e)
    BY <2>2, <2>4 DEF Clean
  <2>6. \A e \in Elements(t) : Leads(heap, e) \subseteq Leads(heap, Top)
    BY <2>2
  <2>7. stack' = Front(stack) \o t /\ walk' = walk
    BY <1>1, <1>4, <2>1
  <2> QED
    BY <1>1, <2>2, <2>3, <2>5, <2>6, <2>7, GoesOn
<1>5. CASE KeyFaults # {}
  <2>1. /\ DOMAIN current.items = 1..Len(current.items) /\ Len(current.items) \in Nat
        /\ \A i \in 1..Len(current.items) : current.items[i] \in [object : Objects, key : Keys]
    <3>1. current.items \in Seq([object : Objects, key : Keys])
      BY <1>2, <1>3, ItemsFacts
    <3> QED
      BY <3>1, ElementsOfSeq, Zenon
  <2>2. KeyFaults \in SUBSET Nat
    BY <2>1 DEF KeyFaults
  <2>3. \E i \in KeyFaults : \A j \in KeyFaults : i <= j
    BY <1>5, <2>2, LeastNumber
  <2>4. FirstFault \in KeyFaults
    BY <2>3, Zenon DEF FirstFault
  <2> DEFINE reason == current.items[FirstFault].key
  <2>5. FirstFault \in DOMAIN current.items /\ reason \notin {"none", "text"}
    BY <2>4 DEF KeyFaults
  <2>6. reason \in {"invalid_text", "not_text"}
    BY <2>1, <2>5 DEF Keys
  <2>7. ~IsPortable(current)
    BY <2>5 DEF IsPortable
  <2>8. \E i \in DOMAIN current.items : current.items[i].key = reason
    BY <2>5
  <2>9. Stop(reason)
    BY <1>1, <1>5
  <2> HIDE DEF reason
  <2>10. reason \notin {"none", "walking", "accepted", "nodes", "nesting"}
    BY <2>6
  <2> QED
    BY <1>1, <2>7, <2>8, <2>9, <2>10, StopStep
<1> QED
  BY <1>4, <1>5

\* A value of another type is the reason to stop.
LEMMA UnsupportedStep ==
    ASSUME LimitsIInv, Unsupported
    PROVE  LimitsIInv'
<1>1. Taken /\ current.kind = "unsupported" /\ Stop("unsupported")
  BY DEF Unsupported
<1>2. ~IsPortable(current)
  BY <1>1 DEF IsPortable
<1> QED
  BY <1>1, <1>2, StopStep

\* The walk begins with the root.
LEMMA BeginStep ==
    ASSUME source \in Sources, LimitsIInv, Begin
    PROVE  LimitsIInv'
<1> DEFINE e == [object |-> Root, container_depth |-> 0]
<1>1. /\ walk = "none" /\ heap' \in Heaps(source) /\ stack' = <<e>>
      /\ walk' = "walking" /\ nodes' = nodes
  BY DEF Begin
<1>2. nodes' = 0
  BY <1>1 DEF LimitsIInv
<1> DEFINE h == heap'
<1>3. IsHeap(h)
  BY <1>1, HeapsAssumption DEF IsHeap
<1>4. e \in Entries /\ e.object = Root /\ Room(e) = MAX_JSON_NESTING
  BY HeapsAssumption, LimitsAssumption DEF Entries, Levels, Room
<1> HIDE DEF e, h
<1>5. <<e>> \in Seq(Entries) /\ Elements(<<e>>) = {e}
  BY <1>4 DEF Elements
<1>6. Load(h, <<e>>) = Cost(h, e) /\ Cost(h, e) \in Nat
  BY <1>3, <1>4, SmallLoads, CostIsNumber
<1>7. Cost(h, e) = Weight(h)[MAX_JSON_NESTING][Root]
  BY <1>4 DEF Cost
<1>8. Fits(h, e) <=> Root \in Nesting(h)[MAX_JSON_NESTING]
  BY <1>4 DEF Fits
<1>9. Leads(h, e) = Reach(h)[MAX_JSON_NESTING][Root]
  BY <1>4 DEF Leads
<1>10. 0 + Load(h, <<e>>) = Weight(h)[MAX_JSON_NESTING][Root]
  BY <1>6, <1>7
<1>11. Accounted(h, <<e>>, 0)
  BY <1>5, <1>8, <1>9, <1>10 DEF Accounted, Clean
<1>12. 0 <= MAX_JSON_NODES /\ 0 <= MAX_JSON_NODES + 1
  BY LimitsAssumption
<1>13. ExactFor(h, 0, "walking")
  BY <1>12 DEF ExactFor
<1> QED
  BY <1>1, <1>2, <1>3, <1>11, <1>12, <1>13 DEF LimitsIInv, h

\* The walk is over when nothing waits.
LEMMA AcceptStep ==
    ASSUME LimitsIInv, Accept
    PROVE  LimitsIInv'
<1>1. /\ walk = "walking" /\ stack = << >> /\ walk' = "accepted"
      /\ heap' = heap /\ nodes' = nodes
  BY DEF Accept
<1>2. IsHeap(heap) /\ nodes <= MAX_JSON_NODES /\ Accounted(heap, << >>, nodes)
  BY <1>1 DEF LimitsIInv
<1>3. Elements(<< >>) = {} /\ Load(heap, << >>) = 0
  BY <1>2, SmallLoads DEF Elements
<1>4. nodes \in Nat /\ nodes + 0 = Weight(heap)[MAX_JSON_NESTING][Root]
  BY <1>2, <1>3 DEF Accounted
<1>5. nodes = Weight(heap)[MAX_JSON_NESTING][Root]
  BY <1>4
<1>6. BoundedIn(heap)
  BY <1>2, <1>3, <1>5 DEF Accounted, BoundedIn
<1>7. ExactFor(heap, nodes, "accepted")
  BY <1>2, <1>4, <1>5, <1>6, LimitsAssumption DEF ExactFor
<1> QED
  BY <1>1, <1>7 DEF LimitsIInv

\* The walk keeps its invariant, whatever it walks on.
LEMMA NextLimitsIInv == IInv /\ LimitsIInv /\ [LimitsNext]_limits_vars => IInv' /\ LimitsIInv'
<1> SUFFICES ASSUME IInv, LimitsIInv, [LimitsNext]_limits_vars PROVE IInv' /\ LimitsIInv'
  OBVIOUS
<1>1. CASE ReadInput \/ UNCHANGED limits_vars
  <2>1. [Next]_vars /\ heap' = heap /\ stack' = stack /\ nodes' = nodes /\ walk' = walk
    BY <1>1 DEF ReadInput, limits_vars, walk_vars
  <2>2. IInv'
    BY <2>1, NextIInv
  <2> QED
    BY <2>1, <2>2, Zenon DEF LimitsIInv
<1>2. CASE Walk
  <2>1. UNCHANGED vars
    BY <1>2 DEF Walk
  <2>2. IInv'
    BY <2>1, NextIInv
  <2>3. source \in Sources
    BY DEF IInv, TypeOK
  <2>4. CASE Begin
    BY <2>2, <2>3, <2>4, BeginStep
  <2>5. CASE TooManyNodes
    <3>1. Taken /\ nodes' > MAX_JSON_NODES /\ Stop("nodes")
      BY <2>5 DEF TooManyNodes
    <3> QED
      BY <2>2, <3>1, StopStep
  <2>6. CASE Scalar
    BY <2>2, <2>6, ScalarStep
  <2>7. CASE ExceedDepth
    BY <2>2, <2>7, ExceedDepthStep
  <2>8. CASE Container
    BY <2>2, <2>8, ContainerStep
  <2>9. CASE Unsupported
    BY <2>2, <2>9, UnsupportedStep
  <2>10. CASE Accept
    BY <2>2, <2>10, AcceptStep
  <2> QED
    BY <1>2, <2>4, <2>5, <2>6, <2>7, <2>8, <2>9, <2>10, Zenon DEF Walk
<1> QED
  BY <1>1, <1>2, Zenon DEF LimitsNext

\* ensure_json_value, on any objects that refer to each other in any way: it
\* accepts exactly the values whose text would be within the limits and strict
\* JSON, counts every value that would be written, gives a true reason for a
\* refusal, and never takes more than one value over the limit.
THEOREM EveryValueIsMeasured ==
    LimitsSpec => [](AcceptedIsExact /\ RefusalIsExact /\ nodes <= MAX_JSON_NODES + 1)
<1>1. LimitsInit => IInv /\ LimitsIInv
  <2>1. LimitsInit => IInv
    BY InitIInv DEF LimitsInit
  <2>2. LimitsInit => LimitsIInv
    BY LimitsAssumption DEF LimitsInit, LimitsIInv, ExactFor
  <2> QED
    BY <2>1, <2>2
<1> QED
  BY <1>1, NextLimitsIInv, ExactIsExact, PTL DEF LimitsSpec
=============================================================================
