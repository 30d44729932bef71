---------------------------- MODULE AtomicExport ----------------------------
(***************************************************************************)
(* What exporting a document to a path promises: whoever looks at the      *)
(* path finds what was there before or the whole of one exported document, *)
(* never a part of one.  An export takes effect at one instant or, when it *)
(* fails, not at all.  A power failure ends every export under way and may *)
(* bring back something the path held earlier.  JsonExport implements it.  *)
(***************************************************************************)
CONSTANTS
    Writers,        \* the exports; each writes a document of its own
    Originals       \* what the path may hold before any of them

VARIABLES
    held,           \* what the path holds: an original, or a writer's document
    past,           \* everything it has held
    status          \* of each export: pending, published or failed

vars == <<held, past, status>>

Init ==
    /\ held \in Originals
    /\ past = {held}
    /\ status = [w \in Writers |-> "pending"]

Publish(w) ==
    /\ status[w] = "pending"
    /\ held' = w
    /\ past' = past \cup {w}
    /\ status' = [status EXCEPT ![w] = "published"]

Fail(w) ==
    /\ status[w] = "pending"
    /\ status' = [status EXCEPT ![w] = "failed"]
    /\ UNCHANGED <<held, past>>

PowerLoss ==
    /\ held' \in past
    /\ status' = [w \in Writers |->
                    IF status[w] = "pending" THEN "failed" ELSE status[w]]
    /\ UNCHANGED past

Next == PowerLoss \/ \E w \in Writers : Publish(w) \/ Fail(w)

Spec == Init /\ [][Next]_vars
=============================================================================
