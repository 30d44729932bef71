----------------------------- MODULE Playground -----------------------------
(***************************************************************************)
(* run_playground of playground.py: two editors, a verdict line, a result  *)
(* box, and the dialogs that Evaluate and Export result open.  A callback  *)
(* runs to its next dialog without serving other events, so that much of   *)
(* it is one action; a dialog keeps the user from the window behind it,    *)
(* while the callback that opened it waits with the result it holds.       *)
(*                                                                         *)
(* Abstracted: a text is one of a few, Accepted says which of them pass    *)
(* the strict boundaries, and an evaluation is named by its two texts.     *)
(***************************************************************************)
EXTENDS Naturals

CONSTANTS
    PolicyTexts, ResponseTexts,
    Accepted,           \* the texts that parse, and validate if a policy
    Targets,            \* the paths a save dialog can return
    MAX_EDITS           \* bound: how often the user edits a text

VARIABLES
    policy_box, response_box,
    verdict_var, result_box,
    phase,              \* opening, the event loop, a dialog, or how it ended
    held_result,        \* what export holds while the user picks a target
    files,              \* what each target holds
    edited,             \* history: edited since the verdict was set
    edits               \* history: for the bound

window_vars == <<policy_box, response_box, verdict_var, result_box, phase,
                 held_result, files, edited, edits>>

Rejected == <<"INVALID">>
Empty == << >>

\* evaluate_documents
Evaluation(policy, response) ==
    IF {policy, response} \subseteq Accepted THEN <<policy, response>> ELSE Rejected

Evaluations == (PolicyTexts \X ResponseTexts) \cup {Rejected}

\* What the editors hold now.
Current == Evaluation(policy_box, response_box)

\* A document is checked when it is loaded, but its text is indented anew:
\* it may be over the size limit where the file was not.
WindowInit ==
    /\ policy_box \in PolicyTexts
    /\ response_box \in ResponseTexts
    /\ verdict_var = Empty
    /\ result_box = Empty
    /\ phase = "opening"
    /\ held_result = Empty
    /\ files = [t \in Targets |-> Empty]
    /\ edited = FALSE
    /\ edits = 0

Show(evaluation) ==
    /\ verdict_var' = evaluation
    /\ result_box' = IF evaluation = Rejected THEN Empty ELSE evaluation
    /\ edited' = FALSE

\* The smoke test evaluates what was loaded and opens no window; nor does a
\* session without Tkinter or a display.
OpenNothing ==
    /\ phase = "opening"
    /\ phase' \in {"ready", "refused"}
    /\ UNCHANGED <<policy_box, response_box, verdict_var, result_box,
                   held_result, files, edited, edits>>

EvaluateQuietly ==
    /\ phase = "opening"
    /\ Show(Current)
    /\ phase' = "loop"
    /\ UNCHANGED <<policy_box, response_box, held_result, files, edits>>

Edit ==
    /\ phase = "loop"
    /\ edits < MAX_EDITS
    /\ \/ policy_box' \in PolicyTexts \ {policy_box} /\ UNCHANGED response_box
       \/ response_box' \in ResponseTexts \ {response_box} /\ UNCHANGED policy_box
    /\ edited' = TRUE
    /\ edits' = edits + 1
    /\ UNCHANGED <<verdict_var, result_box, phase, held_result, files>>

\* Mutant: a rejected text leaves the result box as it is.
BugResultKept ==
    /\ phase = "loop"
    /\ verdict_var' = Current
    /\ result_box' = IF Current = Rejected THEN result_box ELSE Current
    /\ edited' = FALSE
    /\ phase' = IF Current = Rejected THEN "error dialog" ELSE "loop"
    /\ UNCHANGED <<policy_box, response_box, held_result, files, edits>>

Evaluate ==
    /\ phase = "loop"
    /\ Show(Current)
    /\ phase' = IF Current = Rejected THEN "error dialog" ELSE "loop"
    /\ UNCHANGED <<policy_box, response_box, held_result, files, edits>>

\* Mutant: the result that is shown is exported as it is.
BugExportShown ==
    /\ phase = "loop"
    /\ result_box # Empty
    /\ held_result' = result_box
    /\ phase' = "save dialog"
    /\ UNCHANGED <<policy_box, response_box, verdict_var, result_box, files,
                   edited, edits>>

ExportResult ==
    /\ phase = "loop"
    /\ Show(Current)
    /\ IF Current = Rejected
       THEN phase' = "error dialog" /\ UNCHANGED held_result
       ELSE phase' = "save dialog" /\ held_result' = Current
    /\ UNCHANGED <<policy_box, response_box, files, edits>>

Cancel ==
    /\ phase = "save dialog"
    /\ phase' = "loop"
    /\ held_result' = Empty
    /\ UNCHANGED <<policy_box, response_box, verdict_var, result_box, files,
                   edited, edits>>

\* Mutant: a failed write is reported like a rejected text.
BugFailureIsInvalid(target) ==
    /\ phase = "save dialog"
    /\ \/ /\ files' = [files EXCEPT ![target] = held_result]
          /\ phase' = "loop"
          /\ UNCHANGED <<verdict_var, result_box, edited>>
       \/ Show(Rejected) /\ phase' = "error dialog" /\ UNCHANGED files
    /\ held_result' = Empty
    /\ UNCHANGED <<policy_box, response_box, edits>>

\* write_json publishes the result or leaves the target as it was.
Save(target) ==
    /\ phase = "save dialog"
    /\ \/ files' = [files EXCEPT ![target] = held_result] /\ phase' = "loop"
       \/ phase' = "error dialog" /\ UNCHANGED files
    /\ held_result' = Empty
    /\ UNCHANGED <<policy_box, response_box, verdict_var, result_box, edited, edits>>

Dismiss ==
    /\ phase = "error dialog"
    /\ phase' = "loop"
    /\ UNCHANGED <<policy_box, response_box, verdict_var, result_box,
                   held_result, files, edited, edits>>

\* The window manager can close the window behind a dialog, which ends with it.
Close ==
    /\ phase \in {"loop", "save dialog", "error dialog"}
    /\ phase' = "closed"
    /\ UNCHANGED <<policy_box, response_box, verdict_var, result_box,
                   held_result, files, edited, edits>>

WindowNext ==
    \/ OpenNothing \/ EvaluateQuietly \/ Edit \/ Evaluate \/ ExportResult
    \/ Cancel \/ (\E target \in Targets : Save(target)) \/ Dismiss \/ Close

WindowSpec == WindowInit /\ [][WindowNext]_window_vars

-----------------------------------------------------------------------------

\* The verdict line and the result box always show one and the same evaluation;
\* unless a text was edited since, it is that of the texts in the editors, and
\* no dialog, cancelled or failed export changes that.
ShownBelongsTogether ==
    phase \notin {"opening", "ready", "refused"} =>
        /\ verdict_var \in Evaluations
        /\ result_box = (IF verdict_var = Rejected THEN Empty ELSE verdict_var)
        /\ ~edited => verdict_var = Current

\* A file is written only when the user picked it, with the evaluation of the
\* texts as they stand, which is also what the window shows.
ExportIsWhatIsShown ==
    [][files' # files =>
          /\ phase = "save dialog"
          /\ Current # Rejected
          /\ verdict_var = Current /\ result_box = Current
          /\ \E t \in Targets : files' = [files EXCEPT ![t] = Current]]_window_vars
=============================================================================
