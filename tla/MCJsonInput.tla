---------------------------- MODULE MCJsonInput ----------------------------
(***************************************************************************)
(* Streams of up to six units around a limit of four bytes: bytes, and     *)
(* characters of one or two bytes, with a character split between chunks,  *)
(* a byte order mark, invalid UTF-8 and unencodable characters.  The       *)
(* shortest of them stands for any value of three objects that refer to    *)
(* each other and to themselves in every way, with up to two references in *)
(* a list and one in a dict: trees, shared subtrees, cycles and cycles     *)
(* through several containers.                                             *)
(***************************************************************************)
EXTENDS JsonLimits

Binary(length, mark, utf8, document) ==
    [kind |-> "binary", length |-> length, offset |-> [i \in 0..length |-> i],
     boundaries |-> (0..length) \ {1, 3}, unencodable |-> {},
     byte_order_mark |-> mark, utf8 |-> utf8, document |-> document]

\* Every second character takes two bytes.
Text(length, unencodable, mark) ==
    [kind |-> "text", length |-> length,
     offset |-> [i \in 0..length |-> i + i \div 2],
     boundaries |-> 0..length, unencodable |-> unencodable \cap 1..length,
     byte_order_mark |-> mark, utf8 |-> TRUE, document |-> "value"]

Streams ==
    {Binary(length, mark, utf8, document) :
        length \in 0..6, mark \in BOOLEAN, utf8 \in BOOLEAN,
        document \in {"value", "not_strict"}}
    \cup {Text(length, unencodable, mark) :
            length \in 0..6, unencodable \in SUBSET {2, 4}, mark \in BOOLEAN}

Item(o, key) == [object |-> o, key |-> key]

SmallObjects ==
    {[kind |-> kind, items |-> << >>] : kind \in Scalars \cup {"unsupported", "list"}}
      \cup {[kind |-> "list", items |-> <<Item(o, "none")>>] : o \in Objects}
      \cup {[kind |-> "list", items |-> <<Item(o, "none"), Item(p, "none")>>] :
                o, p \in Objects}
      \cup {[kind |-> "dict", items |-> <<Item(o, key)>>] :
                o \in Objects, key \in Keys \ {"none"}}

Null == [o \in Objects |-> [kind |-> "portable", items |-> << >>]]

StreamHeaps(s) ==
    IF s = Binary(1, FALSE, TRUE, "value") THEN [Objects -> SmallObjects] ELSE {Null}
=============================================================================
