----------------------------- MODULE JsonExport -----------------------------
(***************************************************************************)
(* write_json of common.py, call by call: each writer is a process (a CLI  *)
(* command, the playground) that exports its own document to the same      *)
(* path, and the steps of the writers interleave.  Every system call may   *)
(* fail, an interrupt (KeyboardInterrupt) may arrive between any two       *)
(* steps, a process may be killed, and the power may fail.                 *)
(*                                                                         *)
(* The file system is the environment.  What reaches the disk: the content *)
(* of a file only when it is fsynced, else it may be lost in part; a       *)
(* renamed directory entry at some later moment, since write_json does not *)
(* sync the directory.                                                     *)
(***************************************************************************)
EXTENDS Naturals

CONSTANTS
    Writers,        \* the exports; a writer's name also names its document
    Bits,           \* permission bits a file can have, as the owner sets them
    PrivateBits,    \* 0o600, the default of write_json and of mkstemp
    HAS_FCHMOD,     \* hasattr(os, "fchmod")
    MAX_CHMODS      \* bound: how often some other process changes the mode

ASSUME ConstantsAssumption ==
    /\ PrivateBits \in Bits
    /\ HAS_FCHMOD \in BOOLEAN
    /\ MAX_CHMODS \in Nat
    /\ Writers \cap {"original", "absent", "symlink", "directory", "torn"} = {}

VARIABLES
    entry,          \* the destination as any process sees it
    durable,        \* the destination entry that has reached the disk
    parent,         \* the destination's directory
    target,         \* the file a symbolic link at the destination points to
    temps,          \* each writer's temporary file
    pc,             \* each writer's next step
    permissions,    \* local variable of each writer
    temporary,      \* the writers whose local variable names their file
    outcome,        \* how each writer ended
    unlink_failed,  \* history: the writers whose unlink was refused
    interrupted_at, \* history: the step before which an interrupt came last
    past,           \* history: all that the destination has held
    modes_seen,     \* history: the modes an export may inherit, by writer
    chmods          \* history: mode changes by another process, for the bound

fs == <<entry, durable, parent, target, temps>>
locals == <<pc, permissions, temporary, outcome>>
history == <<unlink_failed, interrupted_at, past, modes_seen, chmods>>
vars == <<fs, locals, history>>

\* All of the document or not; and, when all, whether it reached the disk.
Contents == {"torn", "whole", "synced"}

\* st_mode: permission bits, and whether special bits (setgid...) are set.
Modes == [bits : Bits, special : {"none", "set"}]
Private == [bits |-> PrivateBits, special |-> "none"]

\* A file: whose document it holds, how much of it, and its mode.
File == [kind : {"regular"}, doc : Writers \cup {"original"},
         content : Contents, mode : Modes]

NoFile == [kind |-> "absent"]
Link == [kind |-> "symlink"]
Directory == [kind |-> "directory"]
Entry == File \cup {NoFile, Link, Directory}

Original(mode) ==
    [kind |-> "regular", doc |-> "original", content |-> "synced", mode |-> mode]

\* What someone who looks at the destination finds.
Held(e) == IF e.kind # "regular" THEN e.kind
           ELSE IF e.content = "torn" THEN "torn" ELSE e.doc

Steps == {"serialize", "lstat", "mkdir", "create", "record", "write", "flush",
          "fchmod", "fsync", "replace", "forget"}

Running(w) == pc[w] \in Steps \cup {"cleanup"}

\* README: "preserve an existing regular file's POSIX read/write/execute
\* permission bits; special bits are cleared.  New exports remain private".
InheritedMode(e) ==
    IF e.kind = "regular" THEN [bits |-> e.mode.bits, special |-> "none"] ELSE Private

\* Every writer still running might inherit its mode from the entry e.
Offer(e) == [w \in Writers |-> IF Running(w) THEN modes_seen[w] \cup {InheritedMode(e)}
                                             ELSE modes_seen[w]]

Init ==
    /\ entry \in {Original(mode) : mode \in Modes} \cup {NoFile, Link, Directory}
    /\ durable = entry
    /\ parent \in (IF entry = NoFile THEN {"directory", "missing", "blocked"}
                                     ELSE {"directory"})
    /\ \E mode \in Modes : target = Original(mode)
    /\ temps = [w \in Writers |-> NoFile]
    /\ pc = [w \in Writers |-> "serialize"]
    /\ permissions = [w \in Writers |-> Private]
    /\ temporary = {}
    /\ outcome = [w \in Writers |-> "none"]
    /\ unlink_failed = {}
    /\ interrupted_at = [w \in Writers |-> "never"]
    /\ past = {Held(entry)}
    /\ modes_seen = [w \in Writers |-> {InheritedMode(entry)}]
    /\ chmods = 0

-----------------------------------------------------------------------------
(* The steps of write_json that succeed.                                   *)

\* Execution goes on after a step.
Goto(w, step) == pc' = [pc EXCEPT ![w] = step]

\* `serialized = stable_json(value)`: nothing is touched before it succeeds.
Serialize(w) ==
    /\ pc[w] = "serialize"
    /\ Goto(w, "lstat")
    /\ UNCHANGED <<fs, permissions, temporary, outcome, history>>

\* Mutant: stat() follows the link.
BugModeOfLinkTarget(e) ==
    CASE e.kind = "regular" -> [bits |-> e.mode.bits, special |-> "none"]
      [] e.kind = "symlink" -> [bits |-> target.mode.bits, special |-> "none"]
      [] e.kind \notin {"regular", "symlink"} -> Private

\* Mutant: special bits are not masked.
BugSpecialBitsKept(e) == IF e.kind = "regular" THEN e.mode ELSE Private

\* `permissions`: the bits (& 0o777) of a regular file that lstat() reports,
\* and 0o600 for anything else, a link included, or when nothing is there.
PermissionsFrom(e) ==
    IF e.kind = "regular" THEN [bits |-> e.mode.bits, special |-> "none"] ELSE Private

Lstat(w) ==
    /\ pc[w] = "lstat"
    /\ parent # "blocked"
    /\ permissions' = [permissions EXCEPT ![w] = PermissionsFrom(entry)]
    /\ Goto(w, "mkdir")
    /\ UNCHANGED <<fs, temporary, outcome, history>>

Mkdir(w) ==
    /\ pc[w] = "mkdir"
    /\ parent' = "directory"
    /\ Goto(w, "create")
    /\ UNCHANGED <<entry, durable, target, temps, permissions, temporary, outcome, history>>

\* NamedTemporaryFile: a new private file, under a name nobody else has.
Create(w) ==
    /\ pc[w] = "create"
    /\ temps' = [temps EXCEPT ![w] =
                    [kind |-> "regular", doc |-> w, content |-> "torn", mode |-> Private]]
    /\ Goto(w, "record")
    /\ UNCHANGED <<entry, durable, parent, target, permissions, temporary, outcome, history>>

\* `temporary = Path(output.name)`: from here on the cleanup knows the file.
Record(w) ==
    /\ pc[w] = "record"
    /\ temporary' = temporary \cup {w}
    /\ Goto(w, "write")
    /\ UNCHANGED <<fs, permissions, outcome, history>>

\* The buffer may reach the file in part, or not at all, before the flush.
Write(w) ==
    /\ pc[w] = "write"
    /\ Goto(w, "flush")
    /\ UNCHANGED <<fs, permissions, temporary, outcome, history>>

Flush(w) ==
    /\ pc[w] = "flush"
    /\ temps' = [temps EXCEPT ![w].content = "whole"]
    /\ Goto(w, IF HAS_FCHMOD THEN "fchmod" ELSE "fsync")
    /\ UNCHANGED <<entry, durable, parent, target, permissions, temporary, outcome, history>>

Fchmod(w) ==
    /\ pc[w] = "fchmod"
    /\ temps' = [temps EXCEPT ![w].mode = permissions[w]]
    /\ Goto(w, "fsync")
    /\ UNCHANGED <<entry, durable, parent, target, permissions, temporary, outcome, history>>

\* Mutant: the data is not forced to the disk before the rename.
BugNoFsync(w) ==
    /\ pc[w] = "fsync"
    /\ Goto(w, "replace")
    /\ UNCHANGED <<fs, permissions, temporary, outcome, history>>

Fsync(w) ==
    /\ pc[w] = "fsync"
    /\ temps' = [temps EXCEPT ![w].content = "synced"]
    /\ Goto(w, "replace")
    /\ UNCHANGED <<entry, durable, parent, target, permissions, temporary, outcome, history>>

\* Mutant: the document is copied to where a link points.
BugThroughTheLink(w) ==
    /\ pc[w] = "replace"
    /\ entry.kind # "directory"
    /\ IF entry.kind = "symlink"
       THEN target' = temps[w] /\ UNCHANGED <<entry, past, modes_seen>>
       ELSE /\ entry' = temps[w]
            /\ past' = past \cup {Held(entry')}
            /\ modes_seen' = Offer(entry')
            /\ UNCHANGED target
    /\ temps' = [temps EXCEPT ![w] = NoFile]
    /\ Goto(w, "forget")
    /\ UNCHANGED <<durable, parent, permissions, temporary, outcome,
                   unlink_failed, interrupted_at, chmods>>

\* Mutant: the old file is removed first, then the new one renamed.
BugRemoveThenRename(w) ==
    /\ pc[w] = "replace"
    /\ entry.kind # "directory"
    /\ IF entry.kind # "absent"
       THEN entry' = NoFile /\ UNCHANGED <<pc, temps>>
       ELSE /\ entry' = temps[w]
            /\ temps' = [temps EXCEPT ![w] = NoFile]
            /\ Goto(w, "forget")
    /\ past' = past \cup {Held(entry')}
    /\ modes_seen' = Offer(entry')
    /\ UNCHANGED <<durable, parent, target, permissions, temporary, outcome,
                   unlink_failed, interrupted_at, chmods>>

\* `os.replace`: a link itself is replaced, a directory is not.
Replace(w) ==
    /\ pc[w] = "replace"
    /\ entry.kind # "directory"
    /\ entry' = temps[w]
    /\ temps' = [temps EXCEPT ![w] = NoFile]
    /\ past' = past \cup {Held(entry')}
    /\ modes_seen' = Offer(entry')
    /\ Goto(w, "forget")
    /\ UNCHANGED <<durable, parent, target, permissions, temporary, outcome,
                   unlink_failed, interrupted_at, chmods>>

\* `temporary = None`, and write_json returns.
Forget(w) ==
    /\ pc[w] = "forget"
    /\ temporary' = temporary \ {w}
    /\ outcome' = [outcome EXCEPT ![w] = "ok"]
    /\ Goto(w, "ended")
    /\ UNCHANGED <<fs, permissions, history>>

Succeed(w) ==
    \/ Serialize(w) \/ Lstat(w) \/ Mkdir(w) \/ Create(w) \/ Record(w) \/ Write(w)
    \/ Flush(w) \/ Fchmod(w) \/ Fsync(w) \/ Replace(w) \/ Forget(w)

-----------------------------------------------------------------------------
(* Failures of a writer, and its cleanup.                                  *)

\* Mutant: more is done inside the try statement after the replacement.
BugFailingAfterReplace == Steps \ {"record"}

\* The steps that can end in one of the exceptions that write_json catches.
FailingSteps == Steps \ {"record", "forget"}

\* An OSError, or for stable_json a value that is not JSON.
StepFails(w) ==
    /\ pc[w] \in FailingSteps
    /\ outcome' = [outcome EXCEPT ![w] = "error"]
    /\ Goto(w, "cleanup")
    /\ UNCHANGED <<fs, permissions, temporary, history>>

\* Mutant: the cleanup is in the except clause, not in the finally clause.
BugCleanupAfterErrorsOnly(w) ==
    /\ pc[w] = "cleanup"
    /\ Goto(w, "ended")
    /\ IF w \in temporary /\ outcome[w] = "error"
       THEN \/ /\ temps' = [temps EXCEPT ![w] = NoFile]
               /\ UNCHANGED unlink_failed
            \/ /\ unlink_failed' = unlink_failed \cup {w}
               /\ UNCHANGED temps
       ELSE UNCHANGED <<temps, unlink_failed>>
    /\ UNCHANGED <<entry, durable, parent, target, permissions, temporary,
                   outcome, interrupted_at, past, modes_seen, chmods>>

\* Mutant: the unlink is tried until it succeeds.
BugUnlinkRetried(w) ==
    /\ pc[w] = "cleanup"
    /\ IF w \in temporary
       THEN \/ /\ temps' = [temps EXCEPT ![w] = NoFile]
               /\ Goto(w, "ended")
               /\ UNCHANGED unlink_failed
            \/ /\ unlink_failed' = (unlink_failed \ {w}) \cup ({w} \ unlink_failed)
               /\ UNCHANGED <<temps, pc>>
       ELSE Goto(w, "ended") /\ UNCHANGED <<temps, unlink_failed>>
    /\ UNCHANGED <<entry, durable, parent, target, permissions, temporary,
                   outcome, interrupted_at, past, modes_seen, chmods>>

\* The finally clause; a refused unlink is ignored.
Cleanup(w) ==
    /\ pc[w] = "cleanup"
    /\ Goto(w, "ended")
    /\ IF w \in temporary
       THEN \/ /\ temps' = [temps EXCEPT ![w] = NoFile]
               /\ UNCHANGED unlink_failed
            \/ /\ unlink_failed' = unlink_failed \cup {w}
               /\ UNCHANGED temps
       ELSE UNCHANGED <<temps, unlink_failed>>
    /\ UNCHANGED <<entry, durable, parent, target, permissions, temporary,
                   outcome, interrupted_at, past, modes_seen, chmods>>

\* KeyboardInterrupt is not caught: it runs the finally clause, and when it
\* comes in the finally clause the rest of that is skipped.
Interrupt(w) ==
    /\ Running(w)
    /\ Goto(w, IF pc[w] = "cleanup" THEN "ended" ELSE "cleanup")
    /\ outcome' = [outcome EXCEPT ![w] = "interrupted"]
    /\ interrupted_at' = [interrupted_at EXCEPT ![w] = pc[w]]
    /\ UNCHANGED <<fs, permissions, temporary, unlink_failed, past, modes_seen, chmods>>

Kill(w) ==
    /\ Running(w)
    /\ Goto(w, "killed")
    /\ outcome' = [outcome EXCEPT ![w] = "killed"]
    /\ UNCHANGED <<fs, permissions, temporary, history>>

-----------------------------------------------------------------------------
(* The file system, the machine and other processes.                       *)

\* The directory entry reaches the disk.
Persist ==
    /\ durable # entry
    /\ durable' = entry
    /\ UNCHANGED <<entry, parent, target, temps, locals, history>>

\* What is left of a file whose entry is on the disk.
AfterPowerLoss(e) ==
    IF e.kind = "regular" /\ e.content # "synced"
    THEN {[e EXCEPT !.content = content] : content \in Contents}
    ELSE {e}

PowerLoss ==
    /\ entry' \in AfterPowerLoss(durable)
    /\ durable' = entry'
    /\ pc' = [w \in Writers |-> IF Running(w) THEN "killed" ELSE pc[w]]
    /\ outcome' = [w \in Writers |-> IF Running(w) THEN "killed" ELSE outcome[w]]
    /\ UNCHANGED <<parent, target, temps, permissions, temporary, history>>

\* Some other process changes the mode of the destination.
Chmod(mode) ==
    /\ chmods < MAX_CHMODS
    /\ entry.kind = "regular"
    /\ entry' = [entry EXCEPT !.mode = mode]
    /\ modes_seen' = Offer(entry')
    /\ chmods' = chmods + 1
    /\ UNCHANGED <<durable, parent, target, temps, locals, unlink_failed,
                   interrupted_at, past>>

Step(w) == Succeed(w) \/ StepFails(w) \/ Cleanup(w)

AllEnded == (\A w \in Writers : ~Running(w)) /\ UNCHANGED vars

Next ==
    \/ \E w \in Writers : Step(w) \/ Interrupt(w) \/ Kill(w)
    \/ Persist
    \/ PowerLoss
    \/ \E mode \in Modes : Chmod(mode)
    \/ AllEnded

Spec == Init /\ [][Next]_vars

\* Every system call returns, and the interpreter goes on.
FairSpec == Spec /\ \A w \in Writers : WF_vars(Step(w))

-----------------------------------------------------------------------------
(* Properties.                                                             *)

\* Every variable has its type; a writer at a step after the creation of its
\* temporary file, and before its end, has the file it needs there.
TypeOK ==
    /\ entry \in Entry
    /\ durable \in Entry
    /\ parent \in {"directory", "missing", "blocked"}
    /\ target \in File
    /\ temps \in [Writers -> File \cup {NoFile}]
    /\ pc \in [Writers -> Steps \cup {"cleanup", "ended", "killed"}]
    /\ permissions \in [Writers -> Modes]
    /\ temporary \subseteq Writers
    /\ outcome \in [Writers -> {"none", "ok", "error", "interrupted", "killed"}]
    /\ unlink_failed \subseteq Writers
    /\ interrupted_at \in [Writers -> Steps \cup {"cleanup", "never"}]
    /\ modes_seen \in [Writers -> SUBSET Modes]
    /\ chmods \in 0..MAX_CHMODS
    /\ \A w \in Writers :
          pc[w] \in {"record", "write", "flush", "fchmod", "fsync", "replace"}
            => temps[w] \in File /\ temps[w].doc = w

\* Whoever reads the destination, at any moment and even after a power
\* failure, finds the whole of a document or what was there before: the file
\* is complete and on the disk before it gets the destination's name.
DestinationIsWhole == Held(entry) # "torn" /\ Held(durable) # "torn"

\* "The prior file survives write/replace errors": an export that reports
\* JSON_OUTPUT_ERROR never showed its document at the destination, and one
\* that reports success did.
OutcomeTellsTheTruth ==
    \A w \in Writers : /\ outcome[w] = "error" => w \notin past
                       /\ outcome[w] = "ok" => w \in past

\* "Destination symlinks are replaced without reading or changing their
\* targets": the file a link points to keeps its content and its mode.
LinkTargetIsUntouched == [][target' = target]_vars

\* Exports alone, however they interleave, fail or are interrupted, leave the
\* mode of the destination what the first of them found, special bits apart.
ModeIsPreserved ==
    (HAS_FCHMOD /\ chmods = 0 /\ entry.kind = "regular" /\ entry.doc \in Writers)
        => \A w \in Writers : modes_seen[w] = {entry.mode}

\* When another process changes the mode meanwhile, an export still brings
\* a mode the destination had during that export, without special bits.
ModeWasCurrent ==
    [][\A w \in Writers :
          HAS_FCHMOD /\ pc[w] = "replace" /\ pc'[w] = "forget"
            => entry'.mode \in modes_seen[w]]_vars

\* An export that ends leaves a temporary file behind only if the unlink was
\* refused, or an interrupt came before the name was known or in the cleanup.
LitterIsAccountedFor ==
    \A w \in Writers :
        pc[w] = "ended" /\ temps[w] # NoFile =>
            /\ outcome[w] # "ok"
            /\ w \in unlink_failed \/ interrupted_at[w] \in {"record", "cleanup"}

\* An export touches nothing but the destination: no other file is left behind
\* unaccounted for, and the file behind a link stays as it is.
NothingElseIsTouched == []LitterIsAccountedFor /\ LinkTargetIsUntouched

\* Every export ends, whatever fails.
EveryExportEnds == \A w \in Writers : <>(~Running(w))

Promise == INSTANCE AtomicExport WITH
    Originals <- {"original", "absent", "symlink", "directory"},
    held <- Held(entry),
    status <- [w \in Writers |-> IF w \in past THEN "published"
                                 ELSE IF Running(w) THEN "pending" ELSE "failed"]

\* Concurrent, failing, interrupted exports implement the atomic promise.
ImplementsPromise == Promise!Spec
=============================================================================
