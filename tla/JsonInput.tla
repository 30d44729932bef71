------------------------------ MODULE JsonInput ------------------------------
(***************************************************************************)
(* load_json_stream of common.py: the loop that collects a bounded input   *)
(* from a stream, and what it makes of the collected text.                 *)
(*                                                                         *)
(* The stream is the environment.  It holds a source of units, bytes of a  *)
(* binary stream or characters of a text stream, and answers each read     *)
(* with as many of them as it likes, at least one unless it is at its end, *)
(* or it fails: OSError, UnicodeError, None, or a chunk of the other type. *)
(* Content is abstracted to what the loop and its checks depend on: how    *)
(* many bytes the units encode to, where characters end, and whether the   *)
(* whole is UTF-8, begins with a byte order mark, and is strict JSON.      *)
(***************************************************************************)
EXTENDS Integers, FiniteSets

CONSTANTS
    Sources,                \* the streams that can be read
    MAX_JSON_INPUT_BYTES    \* 1,000,000 in the code

\* offset[i] is the number of bytes that the first i units encode to.
IsSource(source) ==
    /\ source \in [kind : {"binary", "text"}, length : Nat,
                   offset : [0..source.length -> Nat],
                   boundaries : SUBSET (0..source.length),
                   unencodable : SUBSET (1..source.length),
                   byte_order_mark : BOOLEAN, utf8 : BOOLEAN,
                   document : {"value", "not_strict"}]
    /\ source.offset[0] = 0
    /\ \A i, j \in 0..source.length : i < j => source.offset[j] - source.offset[i] >= j - i

ASSUME SourcesAssumption == \A source \in Sources : IsSource(source)
ASSUME BoundAssumption == MAX_JSON_INPUT_BYTES \in Nat

VARIABLES
    source,             \* the stream's content
    position,           \* how many units the stream has delivered
    data,               \* len(data): the bytes collected
    stream_is_binary,   \* none, binary or text
    pc,                 \* open, read, decode, parse, ended
    outcome,            \* the value, or which JsonInputError
    faults,             \* history: the stream has misbehaved
    chunk_kinds,        \* history: types of the chunks and of the end marker
    reads               \* history: number of calls of read()

vars == <<source, position, data, stream_is_binary, pc, outcome, faults,
          chunk_kinds, reads>>

Remaining == source.length - position

\* Mutant: no room to notice one byte too many.
BugAsksForTheRest == MAX_JSON_INPUT_BYTES - data

\* Mutant: what is already collected does not reduce the request.
BugAsksForAll == MAX_JSON_INPUT_BYTES + 1

\* The argument of read().
Requested == MAX_JSON_INPUT_BYTES + 1 - data

\* What a stream may deliver: nothing only at its end or when asked for
\* nothing, otherwise any number of units up to the request.
Deliverable ==
    {n \in 0..Remaining : n <= Requested /\ (n = 0 => Remaining = 0 \/ Requested = 0)}

\* The bytes that n more units encode to.
RawBytes(n) == source.offset[position + n] - source.offset[position]

Encodable(n) == source.unencodable \cap ((position + 1)..(position + n)) = {}

\* Mutant: one byte over the limit is accepted.
BugOneByteMore(n) == data + RawBytes(n) > MAX_JSON_INPUT_BYTES + 1

ExceedsBudget(n) == data + RawBytes(n) > MAX_JSON_INPUT_BYTES

Init ==
    /\ source \in Sources
    /\ position = 0
    /\ data = 0
    /\ stream_is_binary = "none"
    /\ pc = "open"
    /\ outcome = "none"
    /\ faults = FALSE
    /\ chunk_kinds = {}
    /\ reads = 0

End(result) ==
    /\ pc' = "ended"
    /\ outcome' = result

\* load_json opens a file; standard input is there already.
Open ==
    /\ pc = "open"
    /\ pc' = "read"
    /\ UNCHANGED <<source, position, data, stream_is_binary, outcome, faults,
                   chunk_kinds, reads>>

OpenFails ==
    /\ pc = "open"
    /\ source.kind = "binary"
    /\ faults' = TRUE
    /\ End("unreadable")
    /\ UNCHANGED <<source, position, data, stream_is_binary, chunk_kinds, reads>>

\* Mutant: the type of the earlier chunks is forgotten.
BugTypeForgotten(kind) == TRUE

TypeIsConsistent(kind) == stream_is_binary \in {"none", kind}

\* Mutant: a chunk shorter than the request is taken for the last one.
BugShortReadIsEnd(n) == n < Requested

\* `if not chunk: break`
IsEnd(n) == n = 0

\* Mutant: each chunk is decoded on its own.
BugDecodesChunks(n) ==
    /\ Encodable(n)
    /\ position + n \in source.boundaries

\* `chunk.encode("utf-8")` of a text chunk raises no UnicodeError.
ChunkEncodes(n) == Encodable(n)

\* One iteration: the stream delivers n units as a chunk of the given type.
\* A short read is not the end of the stream.
Read(n, kind) ==
    /\ pc = "read"
    /\ n \in Deliverable
    /\ reads' = reads + 1
    /\ faults' = (faults \/ kind # source.kind)
    /\ chunk_kinds' = chunk_kinds \cup {kind}
    /\ position' = position + n
    /\ IF ~TypeIsConsistent(kind)
       THEN End("unreadable") /\ UNCHANGED <<data, stream_is_binary>>
       ELSE /\ stream_is_binary' = kind
            /\ IF IsEnd(n)
               THEN pc' = "decode" /\ UNCHANGED <<data, outcome>>
               ELSE IF ~ChunkEncodes(n)
               THEN End("unreadable") /\ UNCHANGED data
               ELSE IF ExceedsBudget(n)
               THEN End("too_large") /\ UNCHANGED data
               ELSE /\ data' = data + RawBytes(n)
                    /\ UNCHANGED <<pc, outcome>>
    /\ UNCHANGED source

\* read() raises, or returns neither bytes nor str.
ReadFails(result) ==
    /\ pc = "read"
    /\ reads' = reads + 1
    /\ faults' = TRUE
    /\ End(result)
    /\ UNCHANGED <<source, position, data, stream_is_binary, chunk_kinds>>

Decode ==
    /\ pc = "decode"
    /\ IF source.byte_order_mark \/ ~source.utf8
       THEN End("encoding")
       ELSE pc' = "parse" /\ UNCHANGED outcome
    /\ UNCHANGED <<source, position, data, stream_is_binary, faults, chunk_kinds, reads>>

\* parse_json_text: json.loads.  Then come the structural limits, which
\* JsonLimits models.
Parse ==
    /\ pc = "parse"
    /\ End(source.document)
    /\ UNCHANGED <<source, position, data, stream_is_binary, faults, chunk_kinds, reads>>

Terminating == pc = "ended" /\ UNCHANGED vars

Next ==
    \/ Open
    \/ OpenFails
    \/ \E n \in Deliverable, kind \in {"binary", "text"} : Read(n, kind)
    \/ ReadFails("encoding")
    \/ ReadFails("unreadable")
    \/ Decode
    \/ Parse
    \/ Terminating

Spec == Init /\ [][Next]_vars

-----------------------------------------------------------------------------
(* Properties.                                                             *)

\* Every variable has its type, and the collected bytes never exceed the limit.
TypeOK ==
    /\ source \in Sources
    /\ position \in 0..source.length
    /\ data \in 0..MAX_JSON_INPUT_BYTES
    /\ stream_is_binary \in {"none", "binary", "text"}
    /\ pc \in {"open", "read", "decode", "parse", "ended"}
    /\ outcome \in {"none", "value", "encoding", "unreadable", "too_large", "not_strict"}
    /\ faults \in BOOLEAN
    /\ chunk_kinds \subseteq {"binary", "text"}
    /\ reads \in Nat

\* The loop never calls read(0): it would get an empty chunk, which means
\* the end of the stream, and would accept a truncated input.
NeverAsksForNothing == pc = "read" => Requested >= 1

\* What is parsed is the whole source, to its last byte, however the stream
\* cut it up, and it is within the limit: no input is silently truncated.  All
\* of it, the end marker included, came as bytes or all of it as text.
AcceptedIsWhole ==
    pc \in {"decode", "parse"} \/ outcome = "value" =>
        /\ position = source.length
        /\ data = source.offset[source.length]
        /\ data <= MAX_JSON_INPUT_BYTES
        /\ chunk_kinds = {stream_is_binary}

\* The result depends on the source and not on the sizes of the chunks, as
\* long as the stream works; of two reasons to refuse a text stream, a
\* character without encoding and the size, the first one met is reported.
ResultIsChunkingIndependent ==
    pc = "ended" /\ ~faults =>
        LET size == source.offset[source.length] IN
        IF source.unencodable # {}
        THEN \/ outcome = "unreadable"
             \/ outcome = "too_large" /\ size > MAX_JSON_INPUT_BYTES
        ELSE outcome = IF size > MAX_JSON_INPUT_BYTES THEN "too_large"
                       ELSE IF source.byte_order_mark \/ ~source.utf8 THEN "encoding"
                       ELSE source.document

\* An endless stream ends the loop: at most MAX + 1 units are taken from the
\* stream, one more than could be accepted, in at most as many reads, the
\* one that reports the end included.
ReadingIsBounded ==
    /\ position <= MAX_JSON_INPUT_BYTES + 1
    /\ reads <= MAX_JSON_INPUT_BYTES + 1
=============================================================================
