------------------------------ MODULE CliProofs ------------------------------
(***************************************************************************)
(* The safety properties of Cli, for any names, file systems, invocations  *)
(* and number of changes by other processes.  The inductive invariant says *)
(* how far the command has got at each pc (Progress), what is left in the  *)
(* buffers (Buffers), and what the guard has seen (Guarded).  The window   *)
(* of the command playground, which is Playground, comes last.             *)
(***************************************************************************)
EXTENDS Cli, Playground, TLAPS

\* The document reaches standard output, and the export takes effect, only at
\* their step; an error is raised once and leads to the end.
Progress ==
    /\ error # "none" => pc \in {"stderr", "exit", "exited"}
    /\ status # 0 => pc \in {"exit", "exited"}
    /\ pc \in {"parse", "guard", "dispatch"} => loaded = 0
    /\ pc \in {"parse", "guard", "dispatch", "load", "export", "stdout"} =>
          error = "none" /\ shown["stdout"] = "nothing"
    /\ pc \in {"parse", "guard", "dispatch", "load", "export"} => ~published
    /\ pc \in {"dispatch", "load", "export", "stdout", "gate"} => output # "invalid"
    /\ pc = "export" => output # "none"
    /\ pc \in {"stdout", "gate"} => (published <=> output # "none")
    /\ pc = "gate" => error = "none" /\ shown["stdout"] = "whole"
    /\ pc = "stderr" => /\ error # "none"
                        /\ shown["stdout"] # "whole"
                        /\ published => error = "stdout"
    /\ arguments.command = "help" => pc \in {"parse", "exit", "exited"}
    /\ error = "usage" => loaded = 0 /\ ~published
    /\ StatusTellsTheTruth

\* Bytes are left only in the buffer of a stream that failed and was released.
Buffers ==
    /\ arguments.command # "help" /\ ~unreleased =>
          \A s \in unflushed : stream[s] = "null"
    /\ StatusSurvivesExit

\* What _guard_output compares, in any file system.
AliasesIn(f, name) ==
    \/ Resolve(f, output) = Resolve(f, name)
    \/ Found(f, output).kind = "file" /\ Found(f, output) = Found(f, name)

\* While no other process interferes, the names are those of the start, but
\* for an export, and the guard has seen them.
Guarded ==
    moves = 0 =>
        /\ ~published => fs = initial_fs
        /\ published => output \in Names /\ fs = [initial_fs EXCEPT ![output] = File(Result)]
        /\ (pc \in {"dispatch", "load", "export", "stdout", "gate"} \/ published) /\ output \in Names
              => \A name \in InputNames : ~AliasesIn(initial_fs, name)

IInv == TypeOK /\ Progress /\ Buffers /\ Guarded

-----------------------------------------------------------------------------

LEMMA InitialState == Init => IInv
<1> SUFFICES ASSUME Init PROVE IInv
    OBVIOUS
<1>1. IsInvocation(arguments) /\ IsFileSystem(fs) /\ IsFileSystem(initial_fs)
    BY ConstantsAssumption DEF Init
<1>2. TypeOK
    BY <1>1 DEF Init, TypeOK, IsInvocation, Streams
<1>3. Progress
    BY <1>1 DEF Init, Progress, StatusTellsTheTruth, Streams
<1>4. Buffers
    BY DEF Init, Buffers, StatusSurvivesExit
<1>5. Guarded
    BY DEF Init, Guarded
<1> QED
    BY <1>2, <1>3, <1>4, <1>5 DEF IInv

\* However a write to a standard stream ends, only that stream is affected.
LEMMA WritesKeepTypes ==
    ASSUME TypeOK, NEW s \in Streams, Written(s) \/ NeverOpened(s) \/ Failed(s)
    PROVE  /\ stream' \in [Streams -> {"open", "closed", "broken", "null"}]
           /\ shown' \in [Streams -> {"nothing", "part", "whole"}]
           /\ unflushed' \subseteq Streams
           /\ unreleased' \in BOOLEAN
           /\ \A r \in Streams \ {s} : stream'[r] = stream[r] /\ shown'[r] = shown[r]
<1>1. CASE Written(s)
    BY <1>1 DEF TypeOK, Written
<1>2. CASE NeverOpened(s)
    BY <1>2 DEF TypeOK, NeverOpened
<1>3. CASE Failed(s)
    <2>1. stream' \in {stream, [stream EXCEPT ![s] = "null"]} /\ unreleased' \in BOOLEAN
        BY <1>3 DEF TypeOK, Failed
    <2>2. shown' \in {shown, [shown EXCEPT ![s] = "part"]}
        BY <1>3 DEF Failed
    <2>3. unflushed' \subseteq Streams
        BY <1>3 DEF TypeOK, Failed
    <2> QED
        BY <2>1, <2>2, <2>3 DEF TypeOK
<1> QED
    BY <1>1, <1>2, <1>3

LEMMA StepsKeepTypes == TypeOK /\ Progress /\ [Next]_vars => TypeOK'
<1> SUFFICES ASSUME TypeOK, Progress, [Next]_vars PROVE TypeOK'
    OBVIOUS
<1> USE DEF vars, history
<1>1. CASE ShowHelp
    BY <1>1 DEF ShowHelp, TypeOK, Streams
<1>2. CASE ParseArguments
    BY <1>2 DEF ParseArguments, Raise, TypeOK
<1>3. CASE GuardOutput
    BY <1>3 DEF GuardOutput, Raise, TypeOK
<1>4. CASE DispatchCommand
    BY <1>4 DEF DispatchCommand, Raise, TypeOK
<1>5. CASE LoadFile
    BY <1>5 DEF LoadFile, Loaded, Raise, TypeOK
<1>6. CASE LoadStdin
    BY <1>6 DEF LoadStdin, Loaded, Raise, TypeOK
<1>7. CASE RunCommand
    BY <1>7 DEF RunCommand, Raise, TypeOK
<1>8. CASE Export
    <2>1. IsFileSystem(fs')
        BY <1>8 DEF Export, TypeOK, IsFileSystem, IsNode, File, LinkTo, Nothing
    <2> QED
        BY <1>8, <2>1 DEF Export, Raise, TypeOK
<1>9. CASE WriteResult
    <2>1. "stdout" \in Streams /\ (Written("stdout") \/ NeverOpened("stdout") \/ Failed("stdout"))
        BY <1>9 DEF WriteResult, Streams
    <2> QED
        BY <1>9, <2>1, WritesKeepTypes DEF WriteResult, Raise, TypeOK
<1>10. CASE WriteError
    <2>1. "stderr" \in Streams /\ (Written("stderr") \/ NeverOpened("stderr") \/ Failed("stderr"))
        BY <1>10 DEF WriteError, Streams
    <2> QED
        BY <1>10, <2>1, WritesKeepTypes DEF WriteError, TypeOK
<1>11. CASE ApplyGate
    BY <1>11 DEF ApplyGate, TypeOK
<1>12. CASE ExitInterpreter
    BY <1>12 DEF ExitInterpreter, TypeOK
<1>13. ASSUME NEW s \in Streams, Break(s) PROVE TypeOK'
    BY <1>13 DEF Break, TypeOK, Streams
<1>14. ASSUME NEW name \in Names, Move(name) PROVE TypeOK'
    BY <1>14 DEF Move, TypeOK
<1>15. CASE UNCHANGED vars
    BY <1>15 DEF TypeOK
<1> QED
    BY <1>1, <1>2, <1>3, <1>4, <1>5, <1>6, <1>7, <1>8, <1>9, <1>10, <1>11, <1>12,
       <1>13, <1>14, <1>15 DEF Next, Step, Exited

LEMMA StepsKeepProgress == TypeOK /\ Progress /\ [Next]_vars => Progress'
<1> SUFFICES ASSUME TypeOK, Progress, [Next]_vars PROVE Progress'
    OBVIOUS
<1> USE DEF vars, history, Progress, StatusTellsTheTruth, output
<1>1. CASE ShowHelp
    BY <1>1 DEF ShowHelp
<1>2. CASE ParseArguments
    BY <1>2 DEF ParseArguments, Raise
<1>3. CASE GuardOutput
    BY <1>3 DEF GuardOutput, Raise
<1>4. CASE DispatchCommand
    BY <1>4 DEF DispatchCommand, Raise
<1>5. CASE LoadFile
    BY <1>5 DEF LoadFile, Loaded, Raise
<1>6. CASE LoadStdin
    BY <1>6 DEF LoadStdin, Loaded, Raise
<1>7. CASE RunCommand
    BY <1>7 DEF RunCommand, Raise
<1>8. CASE Export
    BY <1>8 DEF Export, Raise
<1>9. CASE WriteResult
    <2>1. "stdout" \in Streams
        BY DEF Streams
    <2>2. CASE Written("stdout")
        <3>1. shown'["stdout"] = "whole"
            BY <2>1, <2>2 DEF Written, TypeOK
        <3>2. ~NeverOpened("stdout") /\ ~Failed("stdout")
            BY <2>2 DEF Written, NeverOpened, Failed
        <3> QED
            BY <1>9, <2>2, <3>1, <3>2 DEF WriteResult, Written
    <2>3. CASE NeverOpened("stdout")
        BY <1>9, <2>1, <2>3 DEF WriteResult, NeverOpened, Written, Raise, TypeOK
    <2>4. CASE Failed("stdout")
        <3>1. shown'["stdout"] # "whole"
            BY <1>9, <2>1, <2>4 DEF WriteResult, Failed, TypeOK
        <3> QED
            BY <1>9, <2>4, <3>1 DEF WriteResult, Failed, Written, Raise, TypeOK
    <2> QED
        BY <1>9, <2>2, <2>3, <2>4 DEF WriteResult
<1>10. CASE WriteError
    <2>1. "stderr" \in Streams /\ "stdout" \in Streams \ {"stderr"}
        BY DEF Streams
    <2>2. shown'["stderr"] = "whole" \/ stream'["stderr"] # "open"
        <3>1. CASE Written("stderr")
            BY <2>1, <3>1 DEF Written, TypeOK
        <3>2. CASE NeverOpened("stderr")
            BY <2>1, <3>2 DEF NeverOpened, TypeOK
        <3>3. CASE Failed("stderr")
            BY <2>1, <3>3 DEF Failed, TypeOK
        <3> QED
            BY <1>10, <3>1, <3>2, <3>3 DEF WriteError
    <2>3. shown'["stdout"] = shown["stdout"]
        BY <1>10, <2>1, WritesKeepTypes DEF WriteError
    <2> QED
        BY <1>10, <2>2, <2>3 DEF WriteError
<1>11. CASE ApplyGate
    BY <1>11 DEF ApplyGate
<1>12. CASE ExitInterpreter
    BY <1>12 DEF ExitInterpreter
<1>13. ASSUME NEW s \in Streams, Break(s) PROVE Progress'
    <2>1. stream["stderr"] # "open" => stream'["stderr"] # "open"
        BY <1>13 DEF Break, TypeOK, Streams
    <2> QED
        BY <1>13, <2>1 DEF Break
<1>14. ASSUME NEW name \in Names, Move(name) PROVE Progress'
    BY <1>14 DEF Move
<1>15. CASE UNCHANGED vars
    BY <1>15
<1> QED
    BY <1>1, <1>2, <1>3, <1>4, <1>5, <1>6, <1>7, <1>8, <1>9, <1>10, <1>11, <1>12,
       <1>13, <1>14, <1>15 DEF Next, Step, Exited

LEMMA StepsKeepBuffers == TypeOK /\ Progress /\ Buffers /\ [Next]_vars => Buffers'
<1> SUFFICES ASSUME TypeOK, Progress, Buffers, [Next]_vars PROVE Buffers'
    OBVIOUS
<1> USE DEF vars, history, Buffers, StatusSurvivesExit
<1>1. CASE ShowHelp
    BY <1>1 DEF ShowHelp
<1>2. ASSUME NEW s \in Streams, Written(s) \/ NeverOpened(s) \/ Failed(s),
             UNCHANGED <<arguments, exit_code>>, pc' # "exited"
      PROVE  Buffers'
    <2>1. CASE Written(s) \/ NeverOpened(s)
        BY <1>2, <2>1 DEF Written, NeverOpened
    <2>2. CASE Failed(s)
        <3> SUFFICES ASSUME arguments'.command # "help", ~unreleased' ,
                            NEW r \in unflushed'
                     PROVE  stream'[r] = "null"
            BY <1>2
        <3>1. stream' = [stream EXCEPT ![s] = "null"] /\ ~unreleased
            BY <2>2 DEF Failed, TypeOK
        <3>2. r = s \/ r \in unflushed
            BY <2>2 DEF Failed
        <3>3. r \in Streams
            BY <1>2, WritesKeepTypes
        <3> QED
            BY <1>2, <3>1, <3>2, <3>3 DEF TypeOK
    <2> QED
        BY <1>2, <2>1, <2>2
<1>3. CASE WriteResult
    <2>1. pc' # "exited" /\ "stdout" \in Streams
        BY <1>3 DEF WriteResult, Raise, Streams
    <2> QED
        BY <1>2, <1>3, <2>1 DEF WriteResult
<1>4. CASE WriteError
    <2>1. pc' # "exited" /\ "stderr" \in Streams
        BY <1>4 DEF WriteError, Streams
    <2> QED
        BY <1>2, <1>4, <2>1 DEF WriteError
<1>5. CASE ExitInterpreter
    BY <1>5 DEF ExitInterpreter
<1>6. ASSUME NEW s \in Streams, Break(s) PROVE Buffers'
    BY <1>6 DEF Break, TypeOK
<1>7. ASSUME NEW name \in Names, Move(name) PROVE Buffers'
    BY <1>7 DEF Move
<1>8. CASE ParseArguments \/ GuardOutput \/ DispatchCommand \/ LoadFile \/ LoadStdin
    BY <1>8 DEF ParseArguments, GuardOutput, DispatchCommand, LoadFile, LoadStdin,
                Loaded, Raise
<1>9. CASE RunCommand \/ Export \/ ApplyGate
    BY <1>9 DEF RunCommand, Export, ApplyGate, Raise
<1>10. CASE UNCHANGED vars
    BY <1>10
<1> QED
    BY <1>1, <1>3, <1>4, <1>5, <1>6, <1>7, <1>8, <1>9, <1>10 DEF Next, Step, Exited

LEMMA StepsKeepGuarded == TypeOK /\ Progress /\ Guarded /\ [Next]_vars => Guarded'
<1> SUFFICES ASSUME TypeOK, Progress, Guarded, [Next]_vars PROVE Guarded'
    OBVIOUS
<1> USE DEF vars, history, Guarded, output, inputs, InputNames, AliasesIn, Resolve, Found
<1>1. CASE ShowHelp \/ ParseArguments
    BY <1>1 DEF ShowHelp, ParseArguments, Raise, Progress
<1>2. CASE GuardOutput
    <2>1. pc' = "dispatch" /\ output \in Names =>
              \A name \in InputNames : ~AliasesIn(fs, name)
        BY <1>2, ConstantsAssumption DEF GuardOutput, Aliases, Raise
    <2> QED
        BY <1>2, <2>1 DEF GuardOutput, Raise, Progress
<1>3. CASE DispatchCommand
    BY <1>3 DEF DispatchCommand, Raise
<1>4. CASE LoadFile \/ LoadStdin
    <2>1. /\ pc' \in {"load", "stderr"} /\ pc = "load"
          /\ UNCHANGED <<arguments, fs, history>>
        BY <1>4 DEF LoadFile, LoadStdin, Loaded, Raise
    <2> QED
        BY <2>1
<1>5. CASE RunCommand
    BY <1>5 DEF RunCommand, Raise
<1>6. CASE Export
    <2>1. output \in Names
        BY <1>6 DEF Export, Progress, TypeOK, IsInvocation
    <2>2. ~published
        BY <1>6 DEF Export, Progress
    <2> QED
        BY <1>6, <2>1, <2>2 DEF Export, Raise
<1>7. CASE WriteResult
    BY <1>7 DEF WriteResult, Raise
<1>8. CASE WriteError \/ ApplyGate \/ ExitInterpreter
    BY <1>8 DEF WriteError, ApplyGate, ExitInterpreter
<1>9. ASSUME NEW s \in Streams, Break(s) PROVE Guarded'
    BY <1>9 DEF Break
<1>10. ASSUME NEW name \in Names, Move(name) PROVE Guarded'
    BY <1>10 DEF Move, TypeOK
<1>11. CASE UNCHANGED vars
    BY <1>11
<1> QED
    BY <1>1, <1>2, <1>3, <1>4, <1>5, <1>6, <1>7, <1>8, <1>9, <1>10, <1>11
       DEF Next, Step, Exited

-----------------------------------------------------------------------------

LEMMA Inductive == Spec => []IInv
<1>1. IInv /\ [Next]_vars => IInv'
    BY StepsKeepTypes, StepsKeepProgress, StepsKeepBuffers, StepsKeepGuarded DEF IInv
<1> QED
    BY InitialState, <1>1, PTL DEF Spec

\* Every variable of main keeps its type, whatever the streams and other
\* processes do; the exit status is 0, 1, 2 or the interpreter's 120.
THEOREM TypeCorrect == Spec => []TypeOK
<1>1. IInv => TypeOK
    BY DEF IInv
<1> QED
    BY Inductive, <1>1, PTL

\* The status main returns says what happened to the result, the export and
\* the strict conditions, for every command line and every failure.
THEOREM TruthfulStatus == Spec => []StatusTellsTheTruth
<1>1. IInv => StatusTellsTheTruth
    BY DEF IInv, Progress
<1> QED
    BY Inductive, <1>1, PTL

\* The status main returns is the one the caller sees.
THEOREM StatusSurvives == Spec => []StatusSurvivesExit
<1>1. IInv => StatusSurvivesExit
    BY DEF IInv, Buffers
<1> QED
    BY Inductive, <1>1, PTL

\* The export replaces no input: the name it replaces is neither an input, nor
\* where one leads, because the guard compared what the names lead to.
LEMMA GuardSuffices == IInv => InputsSurvive
<1> SUFFICES ASSUME IInv, moves = 0, published, NEW name \in InputNames
             PROVE  Found(fs, name) = Found(initial_fs, name)
    BY DEF IInv, Guarded, Progress, InputsSurvive
<1> USE DEF Found, Resolve
<1>1. /\ output \in Names
      /\ fs = [initial_fs EXCEPT ![output] = File(Result)]
      /\ ~AliasesIn(initial_fs, name)
    BY DEF IInv, Guarded
<1>2. IsFileSystem(initial_fs) /\ name \in Names
    BY DEF IInv, TypeOK, IsInvocation, InputNames, inputs
<1>3. name # output
    BY <1>1 DEF AliasesIn
<1>4. fs[name] = initial_fs[name]
    BY <1>1, <1>2, <1>3 DEF IsFileSystem
<1>5. Resolve(initial_fs, name) \in Names
    <2>1. IsNode(initial_fs[name])
        BY <1>2 DEF IsFileSystem
    <2>2. initial_fs[name].kind = "link" => initial_fs[name].to \in Names
        BY <2>1 DEF IsNode, Nothing
    <2> QED
        BY <1>2, <2>2
<1>6. Resolve(initial_fs, name) # output
    <2> SUFFICES ASSUME Resolve(initial_fs, name) = output PROVE FALSE
        OBVIOUS
    <2>1. initial_fs[name].kind = "link" /\ initial_fs[name].to = output
        BY <1>3
    <2>2. initial_fs[output].kind # "link"
        BY <1>2, <2>1 DEF IsFileSystem
    <2> QED
        BY <1>1, <2>2 DEF AliasesIn
<1>7. fs[Resolve(initial_fs, name)] = initial_fs[Resolve(initial_fs, name)]
    BY <1>1, <1>2, <1>5, <1>6 DEF IsFileSystem
<1> QED
    BY <1>4, <1>7

\* No command overwrites what one of its inputs leads to, through any mixture
\* of files, hard links and symbolic links.
THEOREM InputsAreSafe == Spec => []InputsSurvive
    BY Inductive, GuardSuffices, PTL
-----------------------------------------------------------------------------
(* The window that the command playground opens, for any texts, targets    *)
(* and number of edits.  What it adds to the property is what an open save *)
(* dialog guarantees: the texts cannot change behind it, so that the       *)
(* result that export holds stays the evaluation of the texts and of what  *)
(* is shown.                                                               *)

WindowTyping ==
    /\ policy_box \in PolicyTexts /\ response_box \in ResponseTexts
    /\ phase \in {"opening", "ready", "refused", "loop", "save dialog",
                  "error dialog", "closed"}
    /\ edited \in BOOLEAN

HeldIsCurrent ==
    phase = "save dialog" =>
        /\ held_result = Current /\ verdict_var = Current
        /\ Current # Rejected
        /\ ~edited

WindowInv == WindowTyping /\ ShownBelongsTogether /\ HeldIsCurrent

LEMMA CurrentIsEvaluation == WindowTyping => Current \in Evaluations
    BY DEF WindowTyping, Current, Evaluation, Evaluations

LEMMA WindowStepsKeepInvariant == WindowInv /\ [WindowNext]_window_vars => WindowInv'
<1> SUFFICES ASSUME WindowInv, [WindowNext]_window_vars PROVE WindowInv'
    OBVIOUS
<1> USE DEF WindowInv, WindowTyping, HeldIsCurrent, ShownBelongsTogether, Current
<1>1. Current \in Evaluations
    BY CurrentIsEvaluation
<1>2. CASE OpenNothing
    BY <1>2 DEF OpenNothing
<1>3. CASE EvaluateQuietly
    BY <1>1, <1>3 DEF EvaluateQuietly, Show
<1>4. CASE Edit
    BY <1>4 DEF Edit
<1>5. CASE Evaluate
    BY <1>1, <1>5 DEF Evaluate, Show
<1>6. CASE ExportResult
    BY <1>1, <1>6 DEF ExportResult, Show
<1>7. CASE Cancel
    BY <1>7 DEF Cancel
<1>8. ASSUME NEW target \in Targets, Save(target) PROVE WindowInv'
    BY <1>8 DEF Save
<1>9. CASE Dismiss
    BY <1>9 DEF Dismiss
<1>10. CASE Close
    BY <1>10 DEF Close
<1>11. CASE UNCHANGED window_vars
    BY <1>11 DEF window_vars
<1> QED
    BY <1>2, <1>3, <1>4, <1>5, <1>6, <1>7, <1>8, <1>9, <1>10, <1>11 DEF WindowNext

LEMMA WindowInductive == WindowSpec => []WindowInv
<1>1. WindowInit => WindowInv
    BY DEF WindowInit, WindowInv, WindowTyping, ShownBelongsTogether, HeldIsCurrent
<1> QED
    BY <1>1, WindowStepsKeepInvariant, PTL DEF WindowSpec

\* The verdict line and the result box never show two evaluations, nor a stale
\* one as if it were that of the texts.
THEOREM ShownIsOneEvaluation == WindowSpec => []ShownBelongsTogether
<1>1. WindowInv => ShownBelongsTogether
    BY DEF WindowInv
<1> QED
    BY WindowInductive, <1>1, PTL

\* What a step writes to a file is the evaluation of the texts as they stand.
THEOREM ExportIsCurrent == WindowSpec => ExportIsWhatIsShown
<1>1. WindowInv /\ [WindowNext]_window_vars =>
          [files' # files =>
              /\ phase = "save dialog"
              /\ Current # Rejected
              /\ verdict_var = Current /\ result_box = Current
              /\ \E t \in Targets : files' = [files EXCEPT ![t] = Current]]_window_vars
    <2> SUFFICES ASSUME WindowInv, [WindowNext]_window_vars, files' # files
                 PROVE  /\ phase = "save dialog"
                        /\ Current # Rejected
                        /\ verdict_var = Current /\ result_box = Current
                        /\ \E t \in Targets : files' = [files EXCEPT ![t] = Current]
        OBVIOUS
    <2>1. PICK target \in Targets : Save(target)
        BY DEF WindowNext, window_vars, OpenNothing, EvaluateQuietly, Edit, Evaluate,
               ExportResult, Cancel, Dismiss, Close
    <2>2. phase = "save dialog" /\ files' = [files EXCEPT ![target] = held_result]
        BY <2>1 DEF Save
    <2> QED
        BY <2>2 DEF WindowInv, HeldIsCurrent, ShownBelongsTogether
<1> QED
    BY WindowInductive, <1>1, PTL DEF WindowSpec, ExportIsWhatIsShown
=============================================================================
