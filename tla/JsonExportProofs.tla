-------------------------- MODULE JsonExportProofs --------------------------
(***************************************************************************)
(* For any number of exports, any modes and any schedule, failure, kill or *)
(* power loss: the destination of write_json is always whole, an outcome   *)
(* tells the truth about it, and write_json implements AtomicExport.       *)
(***************************************************************************)
EXTENDS JsonExport, TLAPS

\* A file gets the destination's name only after its content is on the disk.
OnDisk(e) == e.kind = "regular" => e.content = "synced"

Prepared ==
    \A w \in Writers : pc[w] = "replace" => temps[w].content = "synced"

Sound == OnDisk(entry) /\ OnDisk(durable) /\ Prepared

\* Whose document has been at the destination, by the writer's position.
Truth ==
    \A w \in Writers :
        /\ pc[w] \in Steps \ {"forget"} => w \notin past
        /\ pc[w] = "forget" => w \in past
        /\ pc[w] \in Steps => outcome[w] = "none"
        /\ outcome[w] = "ok" => w \in past
        /\ outcome[w] = "error" => w \notin past

Origins == {"original", "absent", "symlink", "directory"}

Past ==
    /\ past \subseteq Writers \cup Origins
    /\ Held(entry) \in past
    /\ Held(durable) \in past

IInv == TypeOK /\ Sound /\ Truth /\ Past

USE DEF Steps

\* The types of the modes, files and entries that write_json handles.
LEMMA FileFacts ==
    /\ Private \in Modes
    /\ \A mode \in Modes : Original(mode) \in File
    /\ \A e \in Entry : PermissionsFrom(e) \in Modes
    /\ \A e \in Entry : InheritedMode(e) \in Modes
    /\ \A e \in Entry : e.kind \in {"regular", "absent", "symlink", "directory"}
    /\ \A e \in Entry : e.kind = "regular" => e \in File
    /\ NoFile \in Entry /\ Link \in Entry /\ Directory \in Entry
    /\ File \subseteq Entry
<1>1. Private \in Modes
  BY ConstantsAssumption DEF Private, Modes
<1>2. \A mode \in Modes : Original(mode) \in File
  BY DEF Original, File, Contents
<1>3. \A e \in Entry : e.kind \in {"regular", "absent", "symlink", "directory"}
                        /\ (e.kind = "regular" => e \in File)
  BY DEF Entry, File, NoFile, Link, Directory
<1>4. \A e \in File : [bits |-> e.mode.bits, special |-> "none"] \in Modes
  BY DEF File, Modes
<1> QED
  BY <1>1, <1>2, <1>3, <1>4 DEF PermissionsFrom, InheritedMode, Entry

\* The history of inheritable modes keeps its type.
LEMMA OfferType ==
    ASSUME modes_seen \in [Writers -> SUBSET Modes], NEW e \in Entry
    PROVE  Offer(e) \in [Writers -> SUBSET Modes]
BY FileFacts DEF Offer

\* A file whose content or mode changes is still a file of the same document.
LEMMA FileUpdates ==
    /\ \A f \in File, c \in Contents : [f EXCEPT !.content = c] \in File
    /\ \A f \in File, mode \in Modes : [f EXCEPT !.mode = mode] \in File
    /\ \A f \in File : [f EXCEPT !.content = "whole"].doc = f.doc
    /\ \A f \in File : [f EXCEPT !.content = "synced"].doc = f.doc
    /\ \A f \in File, mode \in Modes : [f EXCEPT !.mode = mode].doc = f.doc
    /\ \A w \in Writers : [kind |-> "regular", doc |-> w, content |-> "torn",
                             mode |-> Private] \in File
    /\ \A e \in Entry : AfterPowerLoss(e) \subseteq Entry
<1>1. \A f \in File, c \in Contents : [f EXCEPT !.content = c] \in File
  BY DEF File
<1>2. \A f \in File, mode \in Modes : [f EXCEPT !.mode = mode] \in File
  BY DEF File
<1>3. /\ \A f \in File : [f EXCEPT !.content = "whole"].doc = f.doc
      /\ \A f \in File : [f EXCEPT !.content = "synced"].doc = f.doc
      /\ \A f \in File, mode \in Modes : [f EXCEPT !.mode = mode].doc = f.doc
  BY DEF File
<1>4. \A w \in Writers : [kind |-> "regular", doc |-> w, content |-> "torn",
                          mode |-> Private] \in File
  BY FileFacts DEF File, Contents
<1>5. \A e \in Entry : AfterPowerLoss(e) \subseteq Entry
  BY <1>1, FileFacts DEF AfterPowerLoss
<1> QED
  BY <1>1, <1>2, <1>3, <1>4, <1>5

\* The inductive invariant holds before any export starts.
LEMMA InitIInv == Init => IInv
<1> SUFFICES ASSUME Init PROVE IInv
  OBVIOUS
<1>1. entry \in Entry /\ durable = entry /\ target \in File
  BY FileFacts DEF Init
<1>2. OnDisk(entry)
  BY DEF Init, OnDisk, Original, NoFile, Link, Directory
<1>3. TypeOK
  <2>1. /\ temps \in [Writers -> File \cup {NoFile}]
        /\ pc \in [Writers -> Steps \cup {"cleanup", "ended", "killed"}]
        /\ permissions \in [Writers -> Modes]
        /\ outcome \in [Writers -> {"none", "ok", "error", "interrupted", "killed"}]
        /\ interrupted_at \in [Writers -> Steps \cup {"cleanup", "never"}]
        /\ modes_seen \in [Writers -> SUBSET Modes]
    BY <1>1, FileFacts DEF Init
  <2>2. parent \in {"directory", "missing", "blocked"}
    BY DEF Init
  <2>3. chmods \in 0..MAX_CHMODS
    BY ConstantsAssumption DEF Init
  <2> QED
    BY <1>1, <2>1, <2>2, <2>3 DEF Init, TypeOK
<1>4. Held(entry) \in Origins
  BY DEF Init, Held, Original, NoFile, Link, Directory, Origins
<1>5. Past
  BY <1>1, <1>4 DEF Init, Past
<1>6. Truth
  BY <1>4, ConstantsAssumption DEF Init, Truth, Origins
<1>7. Sound
  BY <1>1, <1>2 DEF Init, Sound, Prepared
<1> QED
  BY <1>3, <1>5, <1>6, <1>7 DEF IInv

\* Every step keeps the types.
LEMMA TypeStep == TypeOK /\ [Next]_vars => TypeOK'
<1> SUFFICES ASSUME TypeOK, [Next]_vars PROVE TypeOK'
  OBVIOUS
<1> USE DEF TypeOK, fs, locals, history
<1>1. ASSUME NEW w \in Writers, Step(w) \/ Interrupt(w) \/ Kill(w)
      PROVE  TypeOK'
  <2>1. CASE Serialize(w)
    BY <2>1, FileFacts DEF Serialize, Goto
  <2>2. CASE Lstat(w)
    BY <2>2, FileFacts DEF Lstat, Goto
  <2>3. CASE Mkdir(w)
    BY <2>3, FileFacts DEF Mkdir, Goto
  <2>4. CASE Create(w)
    <3>1. temps' \in [Writers -> File \cup {NoFile}]
      BY <2>4, FileUpdates DEF Create
    <3>2. temps'[w] \in File /\ temps'[w].doc = w
      BY <2>4, FileUpdates DEF Create
    <3> QED
      BY <2>4, <3>1, <3>2 DEF Create, Goto
  <2>5. CASE Record(w)
    BY <2>5, FileFacts DEF Record, Goto
  <2>6. CASE Write(w)
    BY <2>6, FileFacts DEF Write, Goto
  <2>7. CASE Flush(w)
    <3>1. temps[w] \in File /\ temps[w].doc = w
      BY <2>7 DEF Flush
    <3>2. temps'[w] \in File /\ temps'[w].doc = w
      BY <2>7, <3>1, FileUpdates DEF Flush, Contents
    <3>3. temps' \in [Writers -> File \cup {NoFile}]
      BY <2>7, <3>2 DEF Flush
    <3> QED
      BY <2>7, <3>2, <3>3 DEF Flush, Goto
  <2>8. CASE Fchmod(w)
    <3>1. temps[w] \in File /\ temps[w].doc = w
      BY <2>8 DEF Fchmod
    <3>2. temps'[w] \in File /\ temps'[w].doc = w
      BY <2>8, <3>1, FileUpdates DEF Fchmod, Contents
    <3>3. temps' \in [Writers -> File \cup {NoFile}]
      BY <2>8, <3>2 DEF Fchmod
    <3> QED
      BY <2>8, <3>2, <3>3 DEF Fchmod, Goto
  <2>9. CASE Fsync(w)
    <3>1. temps[w] \in File /\ temps[w].doc = w
      BY <2>9 DEF Fsync
    <3>2. temps'[w] \in File /\ temps'[w].doc = w
      BY <2>9, <3>1, FileUpdates DEF Fsync, Contents
    <3>3. temps' \in [Writers -> File \cup {NoFile}]
      BY <2>9, <3>2 DEF Fsync
    <3> QED
      BY <2>9, <3>2, <3>3 DEF Fsync, Goto
  <2>10. CASE Replace(w)
    <3>1. entry' \in File
      BY <2>10 DEF Replace
    <3>2. modes_seen' \in [Writers -> SUBSET Modes]
      BY <2>10, <3>1, FileFacts, OfferType DEF Replace
    <3> QED
      BY <2>10, <3>1, <3>2, FileFacts DEF Replace, Goto
  <2>11. CASE Forget(w)
    BY <2>11, FileFacts DEF Forget, Goto
  <2>12. CASE StepFails(w)
    BY <2>12, FileFacts DEF StepFails, Goto, FailingSteps
  <2>13. CASE Cleanup(w)
    BY <2>13, FileFacts DEF Cleanup, Goto
  <2>14. CASE Interrupt(w)
    BY <2>14, FileFacts DEF Interrupt, Goto, Running
  <2>15. CASE Kill(w)
    BY <2>15, FileFacts DEF Kill, Goto, Running
  <2> QED
    BY <1>1, <2>1, <2>2, <2>3, <2>4, <2>5, <2>6, <2>7, <2>8, <2>9, <2>10, <2>11, <2>12, <2>13, <2>14, <2>15 DEF Step, Succeed
<1>2. CASE Persist
  BY <1>2, FileFacts DEF Persist, locals, history
<1>3. CASE PowerLoss
  <2>1. entry' \in Entry
    BY <1>3, FileUpdates DEF PowerLoss
  <2> QED
    BY <1>3, <2>1 DEF PowerLoss, Running
<1>4. ASSUME NEW mode \in Modes, Chmod(mode)
      PROVE  TypeOK'
  <2>1. entry' \in File
    BY <1>4, FileFacts, FileUpdates DEF Chmod
  <2>2. modes_seen' \in [Writers -> SUBSET Modes]
    BY <1>4, <2>1, FileFacts, OfferType DEF Chmod
  <2>3. chmods' \in 0..MAX_CHMODS
    BY <1>4, ConstantsAssumption DEF Chmod
  <2> QED
    BY <1>4, <2>1, <2>2, <2>3, FileFacts DEF Chmod
<1>5. CASE UNCHANGED vars
  BY <1>5, FileFacts DEF vars, fs, locals, history
<1> QED
  BY <1>1, <1>2, <1>3, <1>4, <1>5 DEF Next, AllEnded

\* A document is complete and on the disk before it becomes the destination.
LEMMA SoundStep == TypeOK /\ Sound /\ [Next]_vars => Sound'
<1> SUFFICES ASSUME TypeOK, Sound, [Next]_vars PROVE Sound'
  OBVIOUS
<1> USE DEF TypeOK, Sound, Prepared, OnDisk, fs, locals, history
<1>1. ASSUME NEW w \in Writers, Step(w) \/ Interrupt(w) \/ Kill(w)
      PROVE  Sound'
  <2>1. CASE Serialize(w)
    BY <2>1 DEF Serialize, Goto
  <2>2. CASE Lstat(w)
    BY <2>2 DEF Lstat, Goto
  <2>3. CASE Mkdir(w)
    BY <2>3 DEF Mkdir, Goto
  <2>4. CASE Create(w)
    BY <2>4 DEF Create, Goto
  <2>5. CASE Record(w)
    BY <2>5 DEF Record, Goto
  <2>6. CASE Write(w)
    BY <2>6 DEF Write, Goto
  <2>7. CASE Flush(w)
    BY <2>7 DEF Flush, Goto
  <2>8. CASE Fchmod(w)
    BY <2>8 DEF Fchmod, Goto
  <2>9. CASE Fsync(w)
    BY <2>9 DEF Fsync, Goto
  <2>10. CASE Replace(w)
    BY <2>10 DEF Replace, Goto
  <2>11. CASE Forget(w)
    BY <2>11 DEF Forget, Goto
  <2>12. CASE StepFails(w)
    BY <2>12 DEF StepFails, Goto, FailingSteps
  <2>13. CASE Cleanup(w)
    BY <2>13 DEF Cleanup, Goto
  <2>14. CASE Interrupt(w)
    BY <2>14 DEF Interrupt, Goto, Running
  <2>15. CASE Kill(w)
    BY <2>15 DEF Kill, Goto, Running
  <2> QED
    BY <1>1, <2>1, <2>2, <2>3, <2>4, <2>5, <2>6, <2>7, <2>8, <2>9, <2>10, <2>11, <2>12, <2>13, <2>14, <2>15 DEF Step, Succeed
<1>2. CASE Persist
  BY <1>2 DEF Persist, locals, history
<1>3. CASE PowerLoss
  BY <1>3 DEF PowerLoss, AfterPowerLoss, Running
<1>4. ASSUME NEW mode \in Modes, Chmod(mode)
      PROVE  Sound'
  BY <1>4 DEF Chmod, locals
<1>5. CASE UNCHANGED vars
  BY <1>5 DEF vars, fs, locals, history
<1> QED
  BY <1>1, <1>2, <1>3, <1>4, <1>5 DEF Next, AllEnded

\* Only Replace adds to the past, and only the document of its own writer.
LEMMA TruthStep == IInv /\ [Next]_vars => Truth'
<1> SUFFICES ASSUME TypeOK, Sound, Truth, Past, [Next]_vars PROVE Truth'
  BY DEF IInv
<1> USE DEF TypeOK, Truth, fs, locals, history
<1>1. ASSUME NEW w \in Writers, Step(w) \/ Interrupt(w) \/ Kill(w)
      PROVE  Truth'
  <2>1. CASE Serialize(w)
    BY <2>1 DEF Serialize, Goto
  <2>2. CASE Lstat(w)
    BY <2>2 DEF Lstat, Goto
  <2>3. CASE Mkdir(w)
    BY <2>3 DEF Mkdir, Goto
  <2>4. CASE Create(w)
    BY <2>4 DEF Create, Goto
  <2>5. CASE Record(w)
    BY <2>5 DEF Record, Goto
  <2>6. CASE Write(w)
    BY <2>6 DEF Write, Goto
  <2>7. CASE Flush(w)
    BY <2>7 DEF Flush, Goto
  <2>8. CASE Fchmod(w)
    BY <2>8 DEF Fchmod, Goto
  <2>9. CASE Fsync(w)
    BY <2>9 DEF Fsync, Goto
  <2>10. CASE Replace(w)
    BY <2>10 DEF Replace, Goto, Sound, Prepared, Held, File
  <2>11. CASE Forget(w)
    BY <2>11 DEF Forget, Goto
  <2>12. CASE StepFails(w)
    BY <2>12 DEF StepFails, Goto, FailingSteps
  <2>13. CASE Cleanup(w)
    BY <2>13 DEF Cleanup, Goto
  <2>14. CASE Interrupt(w)
    BY <2>14 DEF Interrupt, Goto, Running
  <2>15. CASE Kill(w)
    BY <2>15 DEF Kill, Goto, Running
  <2> QED
    BY <1>1, <2>1, <2>2, <2>3, <2>4, <2>5, <2>6, <2>7, <2>8, <2>9, <2>10, <2>11, <2>12, <2>13, <2>14, <2>15 DEF Step, Succeed
<1>2. CASE Persist
  BY <1>2 DEF Persist, locals, history
<1>3. CASE PowerLoss
  BY <1>3 DEF PowerLoss, Running, locals, history
<1>4. ASSUME NEW mode \in Modes, Chmod(mode)
      PROVE  Truth'
  BY <1>4 DEF Chmod, locals
<1>5. CASE UNCHANGED vars
  BY <1>5 DEF vars, fs, locals, history
<1> QED
  BY <1>1, <1>2, <1>3, <1>4, <1>5 DEF Next, AllEnded

\* The past has all that the destination holds and may hold again.
LEMMA PastStep == IInv /\ [Next]_vars => Past'
<1> SUFFICES ASSUME TypeOK, Sound, Past, [Next]_vars PROVE Past'
  BY DEF IInv
<1> USE DEF TypeOK, Past, fs, locals, history
<1>1. ASSUME NEW w \in Writers, Step(w) \/ Interrupt(w) \/ Kill(w)
      PROVE  Past'
  <2>1. CASE Serialize(w)
    BY <2>1 DEF Serialize, Goto
  <2>2. CASE Lstat(w)
    BY <2>2 DEF Lstat, Goto
  <2>3. CASE Mkdir(w)
    BY <2>3 DEF Mkdir, Goto
  <2>4. CASE Create(w)
    BY <2>4 DEF Create, Goto
  <2>5. CASE Record(w)
    BY <2>5 DEF Record, Goto
  <2>6. CASE Write(w)
    BY <2>6 DEF Write, Goto
  <2>7. CASE Flush(w)
    BY <2>7 DEF Flush, Goto
  <2>8. CASE Fchmod(w)
    BY <2>8 DEF Fchmod, Goto
  <2>9. CASE Fsync(w)
    BY <2>9 DEF Fsync, Goto
  <2>10. CASE Replace(w)
    BY <2>10 DEF Replace, Goto, Sound, Prepared, Held, File
  <2>11. CASE Forget(w)
    BY <2>11 DEF Forget, Goto
  <2>12. CASE StepFails(w)
    BY <2>12 DEF StepFails, Goto, FailingSteps
  <2>13. CASE Cleanup(w)
    BY <2>13 DEF Cleanup, Goto
  <2>14. CASE Interrupt(w)
    BY <2>14 DEF Interrupt, Goto, Running
  <2>15. CASE Kill(w)
    BY <2>15 DEF Kill, Goto, Running
  <2> QED
    BY <1>1, <2>1, <2>2, <2>3, <2>4, <2>5, <2>6, <2>7, <2>8, <2>9, <2>10, <2>11, <2>12, <2>13, <2>14, <2>15 DEF Step, Succeed
<1>2. CASE Persist
  BY <1>2 DEF Persist, locals, history
<1>3. CASE PowerLoss
  BY <1>3 DEF PowerLoss, AfterPowerLoss, Sound, OnDisk, Held
<1>4. ASSUME NEW mode \in Modes, Chmod(mode)
      PROVE  Past'
  BY <1>4 DEF Chmod, Held, Entry, File
<1>5. CASE UNCHANGED vars
  BY <1>5 DEF vars, fs, locals, history
<1> QED
  BY <1>1, <1>2, <1>3, <1>4, <1>5 DEF Next, AllEnded

\* The inductive invariant holds throughout.
LEMMA Invariance == Spec => []IInv
<1>1. IInv /\ [Next]_vars => IInv'
  BY TypeStep, SoundStep, TruthStep, PastStep DEF IInv
<1> QED
  BY <1>1, InitIInv, PTL DEF Spec

\* Every variable of an export keeps its type, and a writer between the
\* creation of its temporary file and its end has the file it needs.
THEOREM TypeCorrect == Spec => []TypeOK
<1>1. IInv => TypeOK
  BY DEF IInv
<1> QED
  BY <1>1, Invariance, PTL

\* Whoever reads the destination of write_json, before or after a power
\* failure, finds no torn document.
THEOREM NeverTorn == Spec => []DestinationIsWhole
<1>1. IInv => DestinationIsWhole
  BY FileFacts, ConstantsAssumption
     DEF IInv, TypeOK, Sound, OnDisk, DestinationIsWhole, Held, File
<1> QED
  BY <1>1, Invariance, PTL

\* An export that reports an error never showed its document at the
\* destination, and one that returned did.
THEOREM TruthfulOutcome == Spec => []OutcomeTellsTheTruth
<1>1. IInv => OutcomeTellsTheTruth
  BY DEF IInv, Truth, OutcomeTellsTheTruth
<1> QED
  BY <1>1, Invariance, PTL

\* The file that a symbolic link at the destination points to keeps its
\* content and its mode: no step of any writer touches it.
THEOREM TargetUntouched == Spec => LinkTargetIsUntouched
<1>1. [Next]_vars => [target' = target]_vars
  <2>1. ASSUME NEW w \in Writers, Step(w) \/ Interrupt(w) \/ Kill(w)
        PROVE  UNCHANGED target
    BY <2>1 DEF Step, Succeed, Serialize, Lstat, Mkdir, Create, Record, Write, Flush,
                Fchmod, Fsync, Replace, Forget, StepFails, Cleanup, Interrupt, Kill, fs
  <2> QED
    BY <2>1 DEF Next, Persist, PowerLoss, Chmod, AllEnded, vars, fs
<1> QED
  BY <1>1, PTL DEF Spec, LinkTargetIsUntouched

-----------------------------------------------------------------------------
(* The mode of the destination, and the temporary files.                   *)

\* The steps of write_json between lstat() and the end of the try statement,
\* and those after fchmod().
Inheriting == {"mkdir", "create", "record", "write", "flush", "fchmod", "fsync", "replace"}
ModeSet == {"fsync", "replace"}

\* Without a chmod by another process there is one mode, that of the entry at
\* the start: all that any writer saw, holds or has published.
Steady ==
    HAS_FCHMOD /\ chmods = 0 =>
        \E mode \in Modes :
            /\ \A w \in Writers :
                  /\ modes_seen[w] = {mode}
                  /\ pc[w] \in Inheriting => permissions[w] = mode
                  /\ pc[w] \in ModeSet => temps[w].mode = mode
            /\ \A e \in {entry, durable} :
                  /\ InheritedMode(e) = mode
                  /\ e.kind = "regular" /\ e.doc \in Writers => e.mode = mode

\* With one, what a writer will publish is still a mode that it might inherit.
Current ==
    HAS_FCHMOD =>
        \A w \in Writers :
            /\ Running(w) => InheritedMode(entry) \in modes_seen[w]
            /\ pc[w] \in Inheriting => permissions[w] \in modes_seen[w]
            /\ pc[w] \in ModeSet => temps[w].mode \in modes_seen[w]

\* A file that exists is known to the cleanup, but for one step.
Accounted ==
    \A w \in Writers :
        /\ pc[w] \in {"serialize", "lstat", "mkdir", "create", "forget"} => temps[w] = NoFile
        /\ pc[w] \in {"write", "flush", "fchmod", "fsync", "replace"} => w \in temporary
        /\ pc[w] = "cleanup" /\ temps[w] # NoFile =>
              w \in temporary \/ interrupted_at[w] = "record"
        /\ outcome[w] = "ok" => pc[w] = "ended" /\ temps[w] = NoFile

\* A masked mode has nothing left to mask, and files have one.
LEMMA ModeFacts ==
    /\ \A e \in Entry : InheritedMode(e).special = "none"
    /\ \A e \in Entry, mode \in Modes :
          e.kind = "regular" /\ e.mode = mode /\ mode.special = "none" => InheritedMode(e) = mode
    /\ \A e \in Entry : PermissionsFrom(e) = InheritedMode(e)
<1>1. \A mode \in Modes : mode = [bits |-> mode.bits, special |-> mode.special]
  BY DEF Modes
<1> QED
  BY <1>1 DEF InheritedMode, PermissionsFrom, Private

\* No step but a chmod by another process changes which mode there is.
LEMMA SteadyStep == IInv /\ Steady /\ [Next]_vars => Steady'
<1> SUFFICES ASSUME TypeOK, Sound, Steady, [Next]_vars,
                    HAS_FCHMOD, chmods' = 0
             PROVE  Steady'
  BY DEF IInv, Steady
<1> USE DEF TypeOK, fs, locals, history, Inheriting, ModeSet
<1>1. chmods = 0
  BY DEF Next, Step, Succeed, Serialize, Lstat, Mkdir, Create, Record, Write, Flush,
         Fchmod, Fsync, Replace, Forget, StepFails, Cleanup, Interrupt, Kill, Persist,
         PowerLoss, Chmod, AllEnded, vars, ConstantsAssumption
<1>2. PICK mode \in Modes :
            /\ \A w \in Writers :
                  /\ modes_seen[w] = {mode}
                  /\ pc[w] \in Inheriting => permissions[w] = mode
                  /\ pc[w] \in ModeSet => temps[w].mode = mode
            /\ \A e \in {entry, durable} :
                  /\ InheritedMode(e) = mode
                  /\ e.kind = "regular" /\ e.doc \in Writers => e.mode = mode
  BY <1>1 DEF Steady
<1> DEFINE Writer(w) == /\ modes_seen'[w] = {mode}
                        /\ pc'[w] \in Inheriting => permissions'[w] = mode
                        /\ pc'[w] \in ModeSet => temps'[w].mode = mode
           Shown(e) == /\ InheritedMode(e) = mode
                       /\ e.kind = "regular" /\ e.doc \in Writers => e.mode = mode
<1>3. mode.special = "none"
  BY <1>2, ModeFacts
<1>4. SUFFICES (\A w \in Writers : Writer(w)) /\ Shown(entry') /\ Shown(durable')
  BY <1>2 DEF Steady, InheritedMode
<1>5. ASSUME NEW w \in Writers, Step(w) \/ Interrupt(w) \/ Kill(w), ~Replace(w)
      PROVE  (\A v \in Writers : Writer(v)) /\ Shown(entry') /\ Shown(durable')
  <2>1. UNCHANGED <<entry, durable, modes_seen>>
    BY <1>5 DEF Step, Succeed, Serialize, Lstat, Mkdir, Create, Record, Write, Flush,
                Fchmod, Fsync, Forget, StepFails, Cleanup, Interrupt, Kill
  <2>2. \A v \in Writers \ {w} : /\ pc'[v] = pc[v]
                                  /\ permissions'[v] = permissions[v]
                                  /\ temps'[v] = temps[v]
    BY <1>5 DEF Step, Succeed, Serialize, Lstat, Mkdir, Create, Record, Write, Flush,
                Fchmod, Fsync, Forget, StepFails, Cleanup, Interrupt, Kill, Goto
  <2>3. Writer(w)
    <3>1. CASE Lstat(w)
      BY <3>1, <2>1, <1>2, ModeFacts DEF Lstat, Goto
    <3>2. CASE Fchmod(w)
      <4>1. temps'[w].mode = permissions[w]
        BY <3>2 DEF Fchmod, File
      <4> QED
        BY <3>2, <4>1, <2>1, <1>2 DEF Fchmod, Goto
    <3>3. CASE Fsync(w)
      <4>1. temps'[w].mode = temps[w].mode
        BY <3>3 DEF Fsync, File
      <4> QED
        BY <3>3, <4>1, <2>1, <1>2 DEF Fsync, Goto
    <3>4. CASE Flush(w)
      BY <3>4, <2>1, <1>2 DEF Flush, Goto
    <3>5. CASE Serialize(w) \/ Mkdir(w) \/ Create(w) \/ Record(w) \/ Write(w) \/ Forget(w)
      BY <3>5, <2>1, <1>2 DEF Serialize, Mkdir, Create, Record, Write, Forget, Goto
    <3>6. CASE StepFails(w) \/ Cleanup(w) \/ Interrupt(w) \/ Kill(w)
      BY <3>6, <2>1, <1>2 DEF StepFails, Cleanup, Interrupt, Kill, Goto
    <3> QED
      BY <1>5, <3>1, <3>2, <3>3, <3>4, <3>5, <3>6 DEF Step, Succeed
  <2> QED
    BY <1>2, <2>1, <2>2, <2>3
<1>6. ASSUME NEW w \in Writers, Replace(w)
      PROVE  (\A v \in Writers : Writer(v)) /\ Shown(entry') /\ Shown(durable')
  <2>1. entry' \in File /\ entry'.mode = mode
    BY <1>6, <1>2 DEF Replace
  <2>2. InheritedMode(entry') = mode
    BY <2>1, <1>3, FileFacts, ModeFacts DEF File
  <2>3. \A v \in Writers : modes_seen'[v] = {mode}
    BY <1>6, <2>2, <1>2 DEF Replace, Offer
  <2>4. \A v \in Writers : pc'[v] \in Inheriting =>
            pc'[v] = pc[v] /\ permissions'[v] = permissions[v] /\ temps'[v] = temps[v]
    BY <1>6 DEF Replace, Goto
  <2> QED
    BY <1>6, <2>1, <2>2, <2>3, <2>4, <1>2 DEF Replace
<1>7. CASE Persist
  BY <1>7, <1>2 DEF Persist
<1>8. CASE PowerLoss
  <2>1. entry' = durable /\ durable' = durable
    BY <1>8 DEF PowerLoss, AfterPowerLoss, Sound, OnDisk
  <2> QED
    BY <1>8, <2>1, <1>2 DEF PowerLoss
<1>9. ASSUME NEW new_mode \in Modes, Chmod(new_mode) PROVE FALSE
  BY <1>9, <1>1 DEF Chmod
<1>10. CASE UNCHANGED vars
  BY <1>10, <1>2 DEF vars
<1> QED
  BY <1>5, <1>6, <1>7, <1>8, <1>9, <1>10 DEF Next, AllEnded

\* What a writer may inherit is offered to it before it can be published.
LEMMA CurrentStep == IInv /\ Current /\ [Next]_vars => Current'
<1> SUFFICES ASSUME TypeOK, Sound, Current, [Next]_vars, HAS_FCHMOD
             PROVE  Current'
  BY DEF IInv, Current
<1> USE DEF TypeOK, fs, locals, history, Inheriting, ModeSet
<1> DEFINE Writer(w) ==
        /\ Running(w)' => InheritedMode(entry') \in modes_seen'[w]
        /\ pc'[w] \in Inheriting => permissions'[w] \in modes_seen'[w]
        /\ pc'[w] \in ModeSet => temps'[w].mode \in modes_seen'[w]
<1>1. SUFFICES \A v \in Writers : Writer(v)
  BY DEF Current, InheritedMode
<1>2. \A w \in Writers :
        /\ Running(w) => InheritedMode(entry) \in modes_seen[w]
        /\ pc[w] \in Inheriting => permissions[w] \in modes_seen[w]
        /\ pc[w] \in ModeSet => temps[w].mode \in modes_seen[w]
  BY DEF Current
<1>3. ASSUME NEW w \in Writers, Step(w) \/ Interrupt(w) \/ Kill(w), ~Replace(w)
      PROVE  \A v \in Writers : Writer(v)
  <2>1. UNCHANGED <<entry, modes_seen>>
    BY <1>3 DEF Step, Succeed, Serialize, Lstat, Mkdir, Create, Record, Write, Flush,
                Fchmod, Fsync, Forget, StepFails, Cleanup, Interrupt, Kill
  <2>2. \A v \in Writers \ {w} : /\ pc'[v] = pc[v]
                                  /\ permissions'[v] = permissions[v]
                                  /\ temps'[v] = temps[v]
    BY <1>3 DEF Step, Succeed, Serialize, Lstat, Mkdir, Create, Record, Write, Flush,
                Fchmod, Fsync, Forget, StepFails, Cleanup, Interrupt, Kill, Goto
  <2>3. Running(w)
    BY <1>3 DEF Step, Succeed, Serialize, Lstat, Mkdir, Create, Record, Write, Flush,
                Fchmod, Fsync, Forget, StepFails, FailingSteps, Cleanup, Interrupt, Kill,
                Running
  <2>4. InheritedMode(entry') \in modes_seen'[w]
    BY <2>1, <2>3, <1>2
  <2>5. Writer(w)
    <3>1. CASE Lstat(w)
      BY <3>1, <2>1, <2>4, <1>2, ModeFacts DEF Lstat, Goto
    <3>2. CASE Fchmod(w)
      <4>1. temps'[w].mode = permissions[w]
        BY <3>2 DEF Fchmod, File
      <4> QED
        BY <3>2, <4>1, <2>1, <2>4, <1>2 DEF Fchmod, Goto
    <3>3. CASE Fsync(w)
      <4>1. temps'[w].mode = temps[w].mode
        BY <3>3 DEF Fsync, File
      <4> QED
        BY <3>3, <4>1, <2>1, <2>4, <1>2 DEF Fsync, Goto
    <3>4. CASE Flush(w)
      BY <3>4, <2>1, <2>4, <1>2 DEF Flush, Goto
    <3>5. CASE Serialize(w) \/ Mkdir(w) \/ Create(w) \/ Record(w) \/ Write(w) \/ Forget(w)
      BY <3>5, <2>1, <2>4, <1>2 DEF Serialize, Mkdir, Create, Record, Write, Forget, Goto
    <3>6. CASE StepFails(w) \/ Cleanup(w) \/ Interrupt(w) \/ Kill(w)
      BY <3>6, <2>1, <2>4, <1>2 DEF StepFails, Cleanup, Interrupt, Kill, Goto
    <3> QED
      BY <1>3, <3>1, <3>2, <3>3, <3>4, <3>5, <3>6 DEF Step, Succeed
  <2> QED
    BY <1>2, <2>1, <2>2, <2>5 DEF Running
<1>4. ASSUME NEW w \in Writers, Replace(w)
      PROVE  \A v \in Writers : Writer(v)
  <2>1. \A v \in Writers : modes_seen[v] \subseteq modes_seen'[v]
    BY <1>4 DEF Replace, Offer
  <2>2. \A v \in Writers : Running(v)' => Running(v)
    BY <1>4 DEF Replace, Goto, Running
  <2>3. \A v \in Writers : Running(v)' => InheritedMode(entry') \in modes_seen'[v]
    BY <1>4, <2>2 DEF Replace, Offer
  <2>4. \A v \in Writers : pc'[v] \in Inheriting =>
            pc'[v] = pc[v] /\ permissions'[v] = permissions[v] /\ temps'[v] = temps[v]
    BY <1>4 DEF Replace, Goto
  <2> QED
    BY <2>1, <2>3, <2>4, <1>2
<1>5. CASE Persist
  BY <1>5, <1>2 DEF Persist, Running
<1>6. CASE PowerLoss
  <2>1. \A v \in Writers : ~Running(v)' /\ pc'[v] \notin Inheriting \cup ModeSet
    BY <1>6 DEF PowerLoss, Running
  <2> QED
    BY <2>1
<1>7. ASSUME NEW mode \in Modes, Chmod(mode)
      PROVE  \A v \in Writers : Writer(v)
  <2>1. \A v \in Writers : /\ modes_seen[v] \subseteq modes_seen'[v]
                           /\ Running(v) => InheritedMode(entry') \in modes_seen'[v]
    BY <1>7 DEF Chmod, Offer
  <2> QED
    BY <1>7, <2>1, <1>2 DEF Chmod, Running
<1>8. CASE UNCHANGED vars
  BY <1>8, <1>2 DEF vars, Running
<1> QED
  BY <1>3, <1>4, <1>5, <1>6, <1>7, <1>8 DEF Next, AllEnded

\* A temporary file stays known to the cleanup until it is renamed.
LEMMA AccountedStep == IInv /\ Accounted /\ [Next]_vars => Accounted'
<1> SUFFICES ASSUME TypeOK, Truth, Accounted, [Next]_vars PROVE Accounted'
  BY DEF IInv
<1> USE DEF TypeOK, Accounted, fs, locals, history
<1>1. ASSUME NEW w \in Writers, Succeed(w)
      PROVE  Accounted'
  <2>1. CASE Serialize(w) \/ Lstat(w) \/ Mkdir(w) \/ Write(w)
    BY <2>1 DEF Serialize, Lstat, Mkdir, Write, Goto
  <2>2. CASE Create(w) \/ Record(w)
    BY <2>2 DEF Create, Record, Goto, Truth
  <2>3. CASE Flush(w) \/ Fchmod(w) \/ Fsync(w)
    BY <2>3 DEF Flush, Fchmod, Fsync, Goto, Truth
  <2>4. CASE Replace(w)
    BY <2>4 DEF Replace, Goto, Truth
  <2>5. CASE Forget(w)
    BY <2>5 DEF Forget, Goto
  <2> QED
    BY <1>1, <2>1, <2>2, <2>3, <2>4, <2>5 DEF Succeed
<1>2. ASSUME NEW w \in Writers, StepFails(w) \/ Cleanup(w) \/ Interrupt(w) \/ Kill(w)
      PROVE  Accounted'
  <2>1. CASE StepFails(w)
    BY <2>1 DEF StepFails, FailingSteps, Goto
  <2>2. CASE Cleanup(w)
    BY <2>2 DEF Cleanup, Goto
  <2>3. CASE Interrupt(w)
    BY <2>3 DEF Interrupt, Goto, Running
  <2>4. CASE Kill(w)
    BY <2>4 DEF Kill, Goto, Running
  <2> QED
    BY <1>2, <2>1, <2>2, <2>3, <2>4
<1>3. CASE Persist
  BY <1>3 DEF Persist
<1>4. CASE PowerLoss
  BY <1>4 DEF PowerLoss, Running
<1>5. ASSUME NEW mode \in Modes, Chmod(mode) PROVE Accounted'
  BY <1>5 DEF Chmod
<1>6. CASE UNCHANGED vars
  BY <1>6 DEF vars
<1> QED
  BY <1>1, <1>2, <1>3, <1>4, <1>5, <1>6 DEF Next, AllEnded, Step

\* What is left of a file, and why, when its writer ends.
LEMMA LitterStep ==
    IInv /\ Accounted /\ LitterIsAccountedFor /\ [Next]_vars => LitterIsAccountedFor'
<1> SUFFICES ASSUME TypeOK, Accounted, LitterIsAccountedFor, [Next]_vars
             PROVE  LitterIsAccountedFor'
  BY DEF IInv
<1> USE DEF TypeOK, Accounted, LitterIsAccountedFor, fs, locals, history
<1>1. ASSUME NEW w \in Writers, Succeed(w)
      PROVE  LitterIsAccountedFor'
  BY <1>1 DEF Succeed, Serialize, Lstat, Mkdir, Create, Record, Write, Flush, Fchmod,
              Fsync, Replace, Forget, Goto
<1>2. ASSUME NEW w \in Writers, StepFails(w) \/ Cleanup(w) \/ Interrupt(w) \/ Kill(w)
      PROVE  LitterIsAccountedFor'
  <2>1. CASE StepFails(w) \/ Kill(w)
    BY <2>1 DEF StepFails, Kill, Goto, Running
  <2>2. CASE Cleanup(w)
    BY <2>2 DEF Cleanup, Goto
  <2>3. CASE Interrupt(w)
    BY <2>3 DEF Interrupt, Goto, Running
  <2> QED
    BY <1>2, <2>1, <2>2, <2>3
<1>3. CASE Persist
  BY <1>3 DEF Persist
<1>4. CASE PowerLoss
  BY <1>4 DEF PowerLoss, Running
<1>5. ASSUME NEW mode \in Modes, Chmod(mode) PROVE LitterIsAccountedFor'
  BY <1>5 DEF Chmod
<1>6. CASE UNCHANGED vars
  BY <1>6 DEF vars
<1> QED
  BY <1>1, <1>2, <1>3, <1>4, <1>5, <1>6 DEF Next, AllEnded, Step

\* At the start nothing is inherited yet, and there are no temporary files.
LEMMA InitModes == Init => Steady /\ Current /\ Accounted /\ LitterIsAccountedFor
<1> SUFFICES ASSUME Init PROVE Steady /\ Current /\ Accounted /\ LitterIsAccountedFor
  OBVIOUS
<1>1. /\ entry \in Entry /\ durable = entry
      /\ entry.kind = "regular" => entry.doc \notin Writers
  BY FileFacts, ConstantsAssumption DEF Init, Original, NoFile, Link, Directory
<1>2. InheritedMode(entry) \in Modes
  BY <1>1, FileFacts
<1>3. \A w \in Writers : pc[w] = "serialize" /\ modes_seen[w] = {InheritedMode(entry)}
  BY DEF Init
<1>4. Steady /\ Current
  BY <1>1, <1>2, <1>3 DEF Steady, Current, Inheriting, ModeSet
<1>5. Accounted /\ LitterIsAccountedFor
  BY DEF Init, Accounted, LitterIsAccountedFor
<1> QED
  BY <1>4, <1>5

\* Without a chmod by another process, concurrent exports of write_json that
\* fail, are interrupted or killed leave the mode of the destination as the
\* first of them found it, special bits apart.
THEOREM ModesArePreserved == Spec => []ModeIsPreserved
<1>1. IInv /\ Steady => ModeIsPreserved
  BY DEF Steady, ModeIsPreserved
<1> QED
  BY <1>1, InitModes, SteadyStep, Invariance, PTL DEF Spec

\* With one, every export of write_json publishes a mode that the destination
\* had, special bits apart, while that export was running.
THEOREM ModesAreCurrent == Spec => ModeWasCurrent
<1> DEFINE Published == \A w \in Writers :
                HAS_FCHMOD /\ pc[w] = "replace" /\ pc'[w] = "forget"
                  => entry'.mode \in modes_seen[w]
<1>1. IInv /\ Current /\ [Next]_vars => [Published]_vars
  <2> SUFFICES ASSUME TypeOK, Current, Next, NEW w \in Writers,
                      HAS_FCHMOD, pc[w] = "replace", pc'[w] = "forget"
               PROVE  entry'.mode \in modes_seen[w]
    BY DEF IInv
  <2> USE DEF TypeOK, locals
  <2>1. ASSUME NEW v \in Writers, Step(v) \/ Interrupt(v) \/ Kill(v)
        PROVE  Replace(w)
    BY <2>1 DEF Step, Succeed, Serialize, Lstat, Mkdir, Create, Record, Write, Flush,
                Fchmod, Fsync, Replace, Forget, StepFails, Cleanup, Interrupt, Kill, Goto
  <2>2. Replace(w)
    BY <2>1 DEF Next, Persist, PowerLoss, Chmod, AllEnded, vars
  <2> QED
    BY <2>2 DEF Replace, Current, ModeSet
<1> QED
  BY <1>1, InitModes, CurrentStep, Invariance, PTL DEF Spec, ModeWasCurrent

\* An export of write_json touches nothing but the destination: a temporary
\* file stays behind only if the unlink was refused, or an interrupt came before
\* its name was known or in the cleanup; and a link's target stays as it is.
THEOREM NothingElseTouched == Spec => NothingElseIsTouched
<1>1. Spec => []LitterIsAccountedFor
  BY InitModes, AccountedStep, LitterStep, Invariance, PTL DEF Spec
<1> QED
  BY <1>1, TargetUntouched, PTL DEF NothingElseIsTouched

-----------------------------------------------------------------------------
(* The refinement of AtomicExport.                                         *)

\* The state function that the refinement substitutes for status.
Standing == [w \in Writers |-> IF w \in past THEN "published"
                               ELSE IF Running(w) THEN "pending" ELSE "failed"]

\* A step of w that adds nothing to the past and leaves the destination alone
\* fails an export or changes nothing that AtomicExport speaks of.
LEMMA QuietStep ==
    ASSUME NEW w \in Writers, UNCHANGED <<entry, past>>, TypeOK,
           \A v \in Writers \ {w} : pc'[v] = pc[v],
           Running(w)' => Running(w),
           Running(w) \/ UNCHANGED pc
    PROVE  [Promise!Next]_(Promise!vars)
<1>1. \A v \in Writers \ {w} : Standing'[v] = Standing[v]
  BY DEF Standing, Running
<1>2. Held(entry)' = Held(entry)
  BY DEF Held
<1>3. CASE w \in past \/ (Running(w)' <=> Running(w))
  <2>1. Standing'[w] = Standing[w]
    BY <1>3 DEF Standing
  <2>2. Standing' = Standing
    BY <1>1, <2>1 DEF Standing
  <2> QED
    BY <1>2, <2>2 DEF Promise!vars, Standing
<1>4. CASE w \notin past /\ Running(w) /\ ~Running(w)'
  <2>1. Standing[w] = "pending" /\ Standing'[w] = "failed"
    BY <1>4 DEF Standing
  <2>2. Standing' = [Standing EXCEPT ![w] = "failed"]
    BY <1>1, <2>1 DEF Standing
  <2>3. Promise!Fail(w)
    BY <1>2, <2>1, <2>2 DEF Promise!Fail, Standing
  <2> QED
    BY <2>3 DEF Promise!Next
<1> QED
  BY <1>3, <1>4

\* The rename is the instant at which an export takes effect.
LEMMA ReplaceStep ==
    ASSUME IInv, NEW w \in Writers, Replace(w)
    PROVE  Promise!Publish(w)
<1> USE DEF IInv, TypeOK, Replace, Goto
<1>1. w \notin past /\ Running(w) /\ Running(w)'
  BY DEF Truth, Running
<1>2. Held(entry)' = w /\ past' = past \cup {w}
  BY DEF Sound, Prepared, Held, File
<1>3. \A v \in Writers \ {w} : Running(v)' <=> Running(v)
  BY DEF Running
<1>4. \A v \in Writers \ {w} : v \in past' <=> v \in past
  BY <1>2
<1>5. Standing[w] = "pending" /\ Standing'[w] = "published"
  BY <1>1, <1>2 DEF Standing
<1>6. \A v \in Writers \ {w} : Standing'[v] = Standing[v]
  BY <1>3, <1>4 DEF Standing
<1>7. Standing' = [Standing EXCEPT ![w] = "published"]
  BY <1>5, <1>6 DEF Standing
<1> QED
  BY <1>2, <1>5, <1>7 DEF Promise!Publish, Standing

\* A power failure ends what is running and may bring back an earlier entry.
LEMMA PowerLossStep ==
    ASSUME IInv, PowerLoss
    PROVE  Promise!PowerLoss
<1>1. entry' = durable
  BY DEF IInv, Sound, OnDisk, PowerLoss, AfterPowerLoss
<1>2. Held(entry)' \in past /\ past' = past
  BY <1>1 DEF IInv, Past, PowerLoss, history, Held
<1>3. \A w \in Writers : ~Running(w)'
  BY DEF IInv, TypeOK, PowerLoss, Running
<1>4. Standing' = [w \in Writers |-> IF Standing[w] = "pending" THEN "failed"
                                                               ELSE Standing[w]]
  BY <1>2, <1>3 DEF Standing
<1> QED
  BY <1>2, <1>4 DEF Promise!PowerLoss, Standing

\* Concurrent exports that fail, are interrupted, killed or cut off by a power
\* loss implement AtomicExport: each one takes effect at one instant or never.
THEOREM ExportIsAtomic == Spec => ImplementsPromise
<1>1. Init => Promise!Init
  <2> SUFFICES ASSUME Init PROVE Promise!Init
    OBVIOUS
  <2>1. Held(entry) \in Origins
    BY DEF Init, Held, Original, NoFile, Link, Directory, Origins
  <2>2. \A w \in Writers : w \notin past /\ Running(w)
    BY <2>1, ConstantsAssumption DEF Init, Running, Origins
  <2> QED
    BY <2>1, <2>2 DEF Init, Promise!Init, Origins
<1>2. IInv /\ [Next]_vars => [Promise!Next]_(Promise!vars)
  <2> SUFFICES ASSUME IInv, [Next]_vars PROVE [Promise!Next]_(Promise!vars)
    OBVIOUS
  <2>1. ASSUME NEW w \in Writers, Replace(w)
        PROVE  [Promise!Next]_(Promise!vars)
    BY <2>1, ReplaceStep DEF Promise!Next
  <2>2. ASSUME NEW w \in Writers, Step(w) \/ Interrupt(w) \/ Kill(w), ~Replace(w)
        PROVE  [Promise!Next]_(Promise!vars)
    <3>1. UNCHANGED <<entry, past>>
      BY <2>2 DEF Step, Succeed, Serialize, Lstat, Mkdir, Create, Record, Write, Flush,
                  Fchmod, Fsync, Forget, StepFails, Cleanup, Interrupt, Kill, fs, history
    <3>2. pc \in [Writers -> Steps \cup {"cleanup", "ended", "killed"}]
      BY DEF IInv, TypeOK
    <3>3. \A v \in Writers \ {w} : pc'[v] = pc[v]
      BY <2>2, <3>2 DEF Step, Succeed, Serialize, Lstat, Mkdir, Create, Record, Write,
                  Flush, Fchmod, Fsync, Forget, StepFails, Cleanup, Interrupt, Kill, Goto
    <3>4. Running(w)
      BY <2>2, <3>2 DEF Step, Succeed, Serialize, Lstat, Mkdir, Create, Record, Write,
                  Flush, Fchmod, Fsync, Forget, StepFails, FailingSteps, Cleanup,
                  Interrupt, Kill, Running
    <3> QED
      BY <3>1, <3>3, <3>4, QuietStep DEF IInv
  <2>3. CASE Persist \/ AllEnded \/ UNCHANGED vars
    <3>1. UNCHANGED <<entry, past, pc>>
      BY <2>3 DEF Persist, AllEnded, vars, fs, locals, history
    <3> QED
      BY <3>1 DEF Promise!vars, Held, Running
  <2>4. CASE PowerLoss
    BY <2>4, PowerLossStep DEF Promise!Next
  <2>5. ASSUME NEW mode \in Modes, Chmod(mode)
        PROVE  [Promise!Next]_(Promise!vars)
    <3>1. UNCHANGED <<past, pc>>
      BY <2>5 DEF Chmod, locals
    <3>2. Held(entry)' = Held(entry)
      BY <2>5, FileFacts DEF IInv, TypeOK, Chmod, Held, File
    <3> QED
      BY <3>1, <3>2 DEF Promise!vars, Running
  <2> QED
    BY <2>1, <2>2, <2>3, <2>4, <2>5 DEF Next
<1> QED
  BY <1>1, <1>2, Invariance, PTL DEF Spec, ImplementsPromise, Promise!Spec
=============================================================================
