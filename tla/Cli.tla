--------------------------------- MODULE Cli ---------------------------------
(***************************************************************************)
(* main of cli.py: one command from its parsed arguments to the exit       *)
(* status that the operating system sees.  The path guard, the reading of  *)
(* the inputs, the command, the export, the standard streams and the       *)
(* interpreter's own flush at exit are the steps; meanwhile the reader of  *)
(* a pipe may go away, and another process may change a path.              *)
(*                                                                         *)
(* Abstracted: the argument grammar, to its three outcomes; a command, to  *)
(* the strict conditions it finds unmet; the export, to what AtomicExport  *)
(* promises: it publishes the whole result or fails and leaves the path.   *)
(***************************************************************************)
EXTENDS Naturals, Sequences

CONSTANTS
    Names,          \* paths; one name for each spelling
    FileSystems,    \* what the names may be at the start
    Invocations,    \* parsed arguments with the standard streams they meet
    MAX_MOVES       \* bound: how often another process changes a path

\* A name is a file, bare or under several names (hard links share the inode),
\* or a symbolic link to another name, or nothing.
File(inode) == [kind |-> "file", inode |-> inode]
LinkTo(name) == [kind |-> "link", to |-> name]
Nothing == [kind |-> "nothing"]

\* Nobody writes into a file, so the inode names the content too.
Result == "the result"

IsNode(node) ==
    \/ node = Nothing
    \/ node.kind = "file" /\ node = File(node.inode)
    \/ node.kind = "link" /\ node.to \in Names /\ node = LinkTo(node.to)

\* Links lead to names that are no links.
IsFileSystem(f) ==
    /\ f = [n \in Names |-> f[n]]
    /\ \A n \in Names :
          IsNode(f[n]) /\ (f[n].kind = "link" => f[f[n].to].kind # "link")

Streams == {"stdout", "stderr"}

\* The strict flags each kind of command takes.
Gates == [plain |-> {}, gated |-> {"strict_exit"}, playground |-> {},
          coverage |-> {"strict_exit", "strict_reasons"},
          help |-> {}, unknown |-> {}]

IsInvocation(i) ==
    /\ i.command \in DOMAIN Gates
    /\ i.flags \subseteq Gates[i.command]
    /\ i.inputs \in Seq(Names \cup {"-"})
    /\ i.output \in Names \cup {"none", "invalid"}
    /\ i.command = "playground" => i.output = "none"
    /\ i.stdin \in {"open", "closed"}
    /\ i.streams \in [Streams -> {"open", "closed"}]

ASSUME ConstantsAssumption ==
    /\ Names \cap {"-", "none", "invalid"} = {}
    /\ MAX_MOVES \in Nat
    /\ \A f \in FileSystems : IsFileSystem(f)
    /\ \A i \in Invocations : IsInvocation(i)

VARIABLES
    arguments,      \* what was parsed
    fs,             \* the names as any process sees them
    stream,         \* of each standard stream: open, closed, broken or null
    pc,
    loaded,         \* how many inputs have been read
    result,         \* the strict conditions the command found unmet
    error,          \* what was raised, or none
    unflushed,      \* streams whose buffer still holds bytes
    shown,          \* what a reader of each stream has got
    status,         \* what main returns
    exit_code,      \* what the operating system sees
    published,      \* history: the export took effect
    unreleased,     \* history: a failed stream could not be released
    initial_fs,     \* history: the names at the start
    moves           \* history: changes by another process, for the bound

history == <<published, unreleased, initial_fs, moves>>
vars == <<arguments, fs, stream, pc, loaded, result, error, unflushed, shown,
          status, exit_code, history>>

\* Path.resolve.
Resolve(f, name) == IF f[name].kind = "link" THEN f[name].to ELSE name

\* What opening a name for reading finds.
Found(f, name) == f[Resolve(f, name)]

Init ==
    /\ arguments \in Invocations
    /\ fs \in FileSystems
    /\ stream = arguments.streams
    /\ pc = "parse"
    /\ loaded = 0
    /\ result = {}
    /\ error = "none"
    /\ unflushed = {}
    /\ shown = [s \in Streams |-> "nothing"]
    /\ status = 0
    /\ exit_code = 0
    /\ published = FALSE
    /\ unreleased = FALSE
    /\ initial_fs = fs
    /\ moves = 0

output == arguments.output
inputs == arguments.inputs
InputNames == {inputs[i] : i \in DOMAIN inputs} \ {"-"}

-----------------------------------------------------------------------------
(* main.                                                                   *)

\* A controlled exception: only the error is left to be written.
Raise(e) == error' = e /\ pc' = "stderr"

\* argparse prints help and the version through the text layer, unflushed;
\* on a closed stdout it turns to stderr and ignores what happens there.
ShowHelp ==
    /\ pc = "parse"
    /\ arguments.command = "help"
    /\ unflushed' = IF stream["stdout"] = "closed" THEN {} ELSE {"stdout"}
    /\ pc' = "exit"
    /\ UNCHANGED <<arguments, fs, stream, loaded, result, error, shown, status,
                   exit_code, history>>

ParseArguments ==
    /\ pc = "parse"
    /\ arguments.command # "help"
    /\ IF arguments.command = "unknown" THEN Raise("usage")
                                        ELSE pc' = "guard" /\ UNCHANGED error
    /\ UNCHANGED <<arguments, fs, stream, loaded, result, unflushed, shown,
                   status, exit_code, history>>

\* Mutant: the names are compared as they are written.
BugNamesAsWritten(name) == output = name

\* The output and an input are the same path once resolved, or the same file.
Aliases(name) ==
    \/ Resolve(fs, output) = Resolve(fs, name)
    \/ /\ Found(fs, output).kind = "file"
       /\ Found(fs, output) = Found(fs, name)

\* _guard_output
GuardOutput ==
    /\ pc = "guard"
    /\ IF \/ output = "invalid"
          \/ output # "none" /\ \E name \in InputNames : Aliases(name)
       THEN Raise("usage")
       ELSE pc' = "dispatch" /\ UNCHANGED error
    /\ UNCHANGED <<arguments, fs, stream, loaded, result, unflushed, shown,
                   status, exit_code, history>>

ReadFromStdin == {i \in DOMAIN inputs : inputs[i] = "-"}

\* At most one input from stdin; playground takes none.
DispatchCommand ==
    /\ pc = "dispatch"
    /\ IF \/ \E i, j \in ReadFromStdin : i # j
          \/ arguments.command = "playground" /\ ReadFromStdin # {}
       THEN Raise("usage")
       ELSE pc' = "load" /\ UNCHANGED error
    /\ UNCHANGED <<arguments, fs, stream, loaded, result, unflushed, shown,
                   status, exit_code, history>>

\* _load_json_argument: the next input is readable and valid, or it is not.
Loaded ==
    /\ loaded' = loaded + 1
    /\ UNCHANGED <<pc, error>>

LoadFile ==
    /\ pc = "load"
    /\ loaded < Len(inputs)
    /\ inputs[loaded + 1] # "-"
    /\ \/ Found(fs, inputs[loaded + 1]).kind = "file" /\ Loaded
       \/ Raise("input") /\ UNCHANGED loaded
    /\ UNCHANGED <<arguments, fs, stream, result, unflushed, shown, status,
                   exit_code, history>>

LoadStdin ==
    /\ pc = "load"
    /\ loaded < Len(inputs)
    /\ inputs[loaded + 1] = "-"
    /\ \/ arguments.stdin = "open" /\ Loaded
       \/ Raise("input") /\ UNCHANGED loaded
    /\ UNCHANGED <<arguments, fs, stream, result, unflushed, shown, status,
                   exit_code, history>>

\* The command itself; the playground ends when its window is closed.
RunCommand ==
    /\ pc = "load"
    /\ loaded = Len(inputs)
    /\ \/ /\ result' \in SUBSET Gates[arguments.command]
          /\ pc' = IF output = "none" THEN "stdout" ELSE "export"
          /\ UNCHANGED error
       \/ Raise("command") /\ UNCHANGED result
    /\ UNCHANGED <<arguments, fs, stream, loaded, unflushed, shown, status,
                   exit_code, history>>

\* write_json: the name itself is replaced, not the file it leads to.
Export ==
    /\ pc = "export"
    /\ \/ /\ fs' = [fs EXCEPT ![output] = File(Result)]
          /\ published' = TRUE
          /\ pc' = "stdout"
          /\ UNCHANGED error
       \/ Raise("export") /\ UNCHANGED <<fs, published>>
    /\ UNCHANGED <<arguments, stream, loaded, result, unflushed, shown, status,
                   exit_code, unreleased, initial_fs, moves>>

\* _write_json_stream to a stream that takes it all.
Written(s) ==
    /\ stream[s] = "open"
    /\ shown' = [shown EXCEPT ![s] = "whole"]
    /\ UNCHANGED <<stream, unflushed, unreleased>>

\* A closed stream is None; nothing was buffered.
NeverOpened(s) ==
    /\ stream[s] = "closed"
    /\ UNCHANGED <<stream, unflushed, shown, unreleased>>

\* Mutant: a stream that failed is left as it is.
BugNotReleased(s) ==
    /\ stream[s] = "broken"
    /\ shown' \in {shown, [shown EXCEPT ![s] = "part"]}
    /\ unflushed' \in {unflushed, unflushed \cup {s}}
    /\ UNCHANGED <<stream, unreleased>>

\* The write or the flush fails, with bytes left in the buffer or none;
\* _release_failed_stream points the stream at the null device if it can.
Failed(s) ==
    /\ stream[s] = "broken"
    /\ shown' \in {shown, [shown EXCEPT ![s] = "part"]}
    /\ unflushed' \in {unflushed, unflushed \cup {s}}
    /\ \/ stream' = [stream EXCEPT ![s] = "null"] /\ UNCHANGED unreleased
       \/ unreleased' = TRUE /\ UNCHANGED stream

\* Mutant: a failed write of the result is passed over like one of an error.
BugFailurePassedOver ==
    /\ pc = "stdout"
    /\ Written("stdout") \/ NeverOpened("stdout") \/ Failed("stdout")
    /\ pc' = "gate"
    /\ UNCHANGED <<arguments, fs, loaded, result, error, status, exit_code,
                   published, initial_fs, moves>>

\* The result, or the acknowledgement of an export.
WriteResult ==
    /\ pc = "stdout"
    /\ \/ Written("stdout") /\ pc' = "gate" /\ UNCHANGED error
       \/ (NeverOpened("stdout") \/ Failed("stdout")) /\ Raise("stdout")
    /\ UNCHANGED <<arguments, fs, loaded, result, status, exit_code, published,
                   initial_fs, moves>>

\* Mutant: the error is written until standard error takes it.
BugErrorRetried ==
    /\ pc = "stderr"
    /\ \/ Written("stderr") /\ pc' = "exit"
       \/ (NeverOpened("stderr") \/ Failed("stderr")) /\ UNCHANGED pc
    /\ status' = 2
    /\ UNCHANGED <<arguments, fs, loaded, result, error, exit_code, published,
                   initial_fs, moves>>

\* _write_error, and the status 2 that records it if nothing else does.
WriteError ==
    /\ pc = "stderr"
    /\ Written("stderr") \/ NeverOpened("stderr") \/ Failed("stderr")
    /\ status' = 2
    /\ pc' = "exit"
    /\ UNCHANGED <<arguments, fs, loaded, result, error, exit_code, published,
                   initial_fs, moves>>

\* Mutant: a condition counts whether or not its flag is given.
BugGateAlwaysStrict ==
    /\ pc = "gate"
    /\ status' = IF result # {} THEN 1 ELSE 0
    /\ pc' = "exit"
    /\ UNCHANGED <<arguments, fs, stream, loaded, result, error, unflushed,
                   shown, exit_code, history>>

\* 1 exactly when a condition whose flag is given is not met.
ApplyGate ==
    /\ pc = "gate"
    /\ status' = IF arguments.flags \cap result # {} THEN 1 ELSE 0
    /\ pc' = "exit"
    /\ UNCHANGED <<arguments, fs, stream, loaded, result, error, unflushed,
                   shown, exit_code, history>>

\* The interpreter flushes what is left; if that fails, 120 replaces the
\* status that main returned.
ExitInterpreter ==
    /\ pc = "exit"
    /\ exit_code' = IF \E s \in unflushed : stream[s] = "broken" THEN 120 ELSE status
    /\ unflushed' = {}
    /\ pc' = "exited"
    /\ UNCHANGED <<arguments, fs, stream, loaded, result, error, shown, status,
                   history>>

-----------------------------------------------------------------------------
(* Others.                                                                 *)

\* The reader of a pipe goes away, or the device is full.
Break(s) ==
    /\ pc # "exited"
    /\ stream[s] = "open"
    /\ stream' = [stream EXCEPT ![s] = "broken"]
    /\ UNCHANGED <<arguments, fs, pc, loaded, result, error, unflushed, shown,
                   status, exit_code, history>>

\* Another process removes a name, or puts a file or a link there.
Move(name) ==
    /\ pc # "exited"
    /\ moves < MAX_MOVES
    /\ \/ fs' = [fs EXCEPT ![name] = Nothing]
       \/ fs' = [fs EXCEPT ![name] = File("foreign")]
       \/ \E n \in Names \ {name} :
             fs[n].kind # "link" /\ fs' = [fs EXCEPT ![name] = LinkTo(n)]
    /\ IsFileSystem(fs')
    /\ moves' = moves + 1
    /\ UNCHANGED <<arguments, stream, pc, loaded, result, error, unflushed,
                   shown, status, exit_code, published, unreleased, initial_fs>>

Exited == pc = "exited" /\ UNCHANGED vars

Step == \/ ShowHelp \/ ParseArguments \/ GuardOutput \/ DispatchCommand
        \/ LoadFile \/ LoadStdin \/ RunCommand \/ Export
        \/ WriteResult \/ WriteError \/ ApplyGate \/ ExitInterpreter

Next ==
    \/ Step
    \/ \E s \in Streams : Break(s)
    \/ \E name \in Names : Move(name)
    \/ Exited

Spec == Init /\ [][Next]_vars

\* Whoever feeds stdin may hold it open for ever, and the window of the
\* playground may stay open; the rest is the interpreter's own work.
WaitsForUser ==
    \/ pc = "load" /\ loaded < Len(inputs) /\ inputs[loaded + 1] = "-"
    \/ pc = "load" /\ loaded = Len(inputs) /\ arguments.command = "playground"

FairSpec == Spec /\ WF_vars(~WaitsForUser /\ Step)

-----------------------------------------------------------------------------
(* Properties.                                                             *)

TypeOK ==
    /\ IsInvocation(arguments)
    /\ IsFileSystem(fs) /\ IsFileSystem(initial_fs)
    /\ stream \in [Streams -> {"open", "closed", "broken", "null"}]
    /\ pc \in {"parse", "guard", "dispatch", "load", "export", "stdout", "stderr",
               "gate", "exit", "exited"}
    /\ loaded \in Nat
    /\ result \subseteq Gates[arguments.command]
    /\ error \in {"none", "usage", "input", "command", "export", "stdout"}
    /\ unflushed \subseteq Streams
    /\ shown \in [Streams -> {"nothing", "part", "whole"}]
    /\ status \in {0, 1, 2}
    /\ exit_code \in {0, 1, 2, 120}
    /\ published \in BOOLEAN
    /\ unreleased \in BOOLEAN
    /\ moves \in Nat

\* "Both exit 2, never 1": 0 and 1 are kept for a command that completed,
\* whose export took effect and whose whole document reached standard output;
\* 1 says that a condition the caller asked for is not met.  2 says that the
\* document did not get there and that the error did, if stderr takes it; the
\* export then took effect only if it was standard output that failed.
StatusTellsTheTruth ==
    pc \in {"exit", "exited"} /\ arguments.command # "help" =>
        IF status = 2
        THEN /\ error # "none"
             /\ shown["stdout"] # "whole"
             /\ shown["stderr"] = "whole" \/ stream["stderr"] # "open"
             /\ published => error = "stdout"
        ELSE /\ error = "none"
             /\ shown["stdout"] = "whole"
             /\ (published <=> output # "none")
             /\ status = 1 <=> arguments.flags \cap result # {}

\* "Output paths equal to an input, including resolved and hard-link aliases,
\* are rejected before any JSON input is read": as long as no other process
\* changes the paths, every input name leads to the file it led to before, and
\* a refused command has read nothing.
InputsSurvive ==
    /\ moves = 0 => \A name \in InputNames : Found(fs, name) = Found(initial_fs, name)
    /\ error = "usage" => loaded = 0 /\ ~published

\* A stream that failed does not fail the interpreter once more at exit: the
\* caller sees what main returned, unless the stream could not be released.
StatusSurvivesExit ==
    pc = "exited" /\ arguments.command # "help" /\ ~unreleased => exit_code = status

\* Every command ends, unless it waits for its user.
EndsOrWaitsForUser == <>(pc = "exited") \/ <>[]WaitsForUser

\* docs/OPERATOR.md: "a closed or failing standard output, such as a pipe
\* whose reader has exited, is JSON_OUTPUT_ERROR.  Both exit 2, never 1."
FailingOutputExits2 ==
    pc = "exited" /\ stream["stdout"] \in {"closed", "broken"} /\ shown["stdout"] # "whole"
        => exit_code = 2
=============================================================================
