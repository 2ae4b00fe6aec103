----------------------------- MODULE ProjectFolder -----------------------------
(*****************************************************************************)
(* A project folder and the process that opens and saves it:                  *)
(* readProjectFolder, writeProjectFolder, writeRepositoryFolder and           *)
(* commitWithRollback of packages/engine/src/project-fs/projectIO.ts, with    *)
(* lastSeen, the snapshots that tell what somebody else changed.              *)
(*                                                                           *)
(* One action per await that touches the disk or the snapshots.  The checks   *)
(* of a save read file by file and are one action here: a change that lands   *)
(* between two of them could as well land before or after them all.  A        *)
(* content is a number, and every save and every other program writes a fresh *)
(* one.  Size and mtime are taken to tell two contents apart.  The temporary  *)
(* files, which no reader looks at, are left out.                             *)
(*****************************************************************************)
EXTENDS Naturals, SequencesExt

CONSTANTS
    Folders,  \* folders, each with the project that is saved to it
    Manifest,
    MaxSaves, MaxEdits, MaxFaults, MaxCrashes

(* A folder is a record of                                                    *)
(*   order          the destinations of a save, in the order they are committed *)
(*   runs           those that are runs: compared by content, without snapshots *)
(*   retired        those taken away by the save that makes it a repository   *)
(*   before         path -> content at first; 0 where there is no file        *)
(*   wasRepository  it is a repository (version 2) at first                   *)
(*   oldFiles       the models that the project of the first manifest needs   *)
(*   newFiles       those that the project that is saved needs                *)

NoContent == 0
RunContent == 1  \* a run is written once and never changes
FirstFresh == 10

\* The manifest goes after every process file and before what is retired.
ManifestInPlace(f) ==
    \A i, j \in DOMAIN f.order : f.order[i] = Manifest =>
        IF i < j THEN f.order[j] \in f.retired ELSE f.order[j] \notin f.retired

FolderAssumption ==
    \A f \in Folders : LET P == ToSet(f.order) IN
        /\ f.order \in Seq(P) /\ \A i, j \in DOMAIN f.order : f.order[i] = f.order[j] => i = j
        /\ ManifestInPlace(f)
        /\ f.runs \subseteq P /\ f.retired \subseteq P \ f.runs
        /\ Manifest \in P \ (f.runs \cup f.retired)
        /\ f.before \in [P -> 0 .. FirstFresh - 1]
        /\ f.wasRepository \in BOOLEAN
        /\ f.wasRepository <=> f.retired = {}
        /\ f.oldFiles \subseteq P /\ f.newFiles \subseteq P \ f.retired
        /\ ~f.wasRepository => f.oldFiles \subseteq f.retired

VARIABLES
    folder,   \* the folder that is opened
    disk,     \* path -> content
    prev,     \* path -> content this save set aside in .prev-*
    lastSeen, \* path -> the content its snapshot stands for; NoContent if there is none
    phase,
    writes,   \* the destinations of this save, committed in their order
    next,     \* the index a loop is at
    moved,    \* journal: the steps with movedToPrev
    placed,   \* journal: the steps with tmpMoved
    new,      \* what this save writes
    pending,  \* what the rollback could not restore
    start,    \* the disk when the checks of this save passed
    touched,  \* the paths that others have written since
    fresh, saves, edits, faults, crashes

save == <<writes, moved, placed, new, pending, start>>
counts == <<fresh, saves, edits, faults, crashes>>
vars == <<folder, disk, prev, lastSeen, phase, next, touched, save, counts>>

Order == folder.order
Paths == ToSet(Order)
Runs == folder.runs
Retired == folder.retired
Before == folder.before
WasRepository == folder.wasRepository

Idle == phase \in {"open", "saved", "refused", "failed", "recovery"}
Committing == phase \in {"look", "aside", "place", "unplace", "restore"}

Tracked == SelectSeq(Order, LAMBDA p : p \notin Runs)
RepositoryOn(d) == d[Manifest] # NoContent /\ (WasRepository \/ d[Manifest] # Before[Manifest])
IsRepository == RepositoryOn(disk)
Content(p) == IF p \in Runs THEN RunContent ELSE new
FaultyDest ==  \* the manifest goes first
    IF next = 1 THEN Manifest ELSE SelectSeq(Order, LAMBDA p : p # Manifest)[next - 1]
Dest == Order[next]

Init ==
    /\ folder \in Folders
    /\ disk = Before
    /\ prev = [p \in Paths |-> NoContent]
    /\ lastSeen = [p \in Paths |-> NoContent]
    /\ phase = "dead"
    /\ next = 1
    /\ writes = {} /\ moved = {} /\ placed = {} /\ new = NoContent /\ pending = {}
    /\ start = Before /\ touched = {}
    /\ fresh = FirstFresh
    /\ saves = 0 /\ edits = 0 /\ faults = 0 /\ crashes = 0

-----------------------------------------------------------------------------
(* Opening *)

\* A folder without manifest is a version 1 project with its model at the root
Needed(d) == IF RepositoryOn(d) /\ ~WasRepository THEN folder.newFiles ELSE folder.oldFiles
ReadableOn(d) ==
    /\ \A p \in Needed(d) : d[p] # NoContent
    /\ WasRepository => RepositoryOn(d)
Readable == ReadableOn(disk)

Open ==
    /\ phase \in {"dead", "torn"}
    /\ phase' = IF Readable THEN "reading" ELSE "unreadable"
    /\ next' = 1
    /\ UNCHANGED <<folder, disk, prev, lastSeen, touched, save, counts>>

\* What is read, in that order
Reading ==
    LET old == SelectSeq(Tracked, LAMBDA p : p \in Retired)
    IN  IF IsRepository
        THEN <<Manifest>> \o SelectSeq(Tracked, LAMBDA p : p \notin Retired \cup {Manifest})
        ELSE <<Head(old), Manifest>> \o Tail(old)

\* readFile of the next file, if it is there
Read ==
    /\ phase = "reading"
    /\ IF next > Len(Reading)
       THEN phase' = "open" /\ UNCHANGED next
       ELSE IF disk[Reading[next]] = NoContent
       THEN next' = next + 1 /\ UNCHANGED phase
       ELSE phase' = "snapshot" /\ UNCHANGED next
    /\ UNCHANGED <<folder, disk, prev, lastSeen, touched, save, counts>>

\* rememberSnapshot of it
Snapshot ==
    /\ phase = "snapshot"
    /\ lastSeen' = [lastSeen EXCEPT ![Reading[next]] = disk[Reading[next]]]
    /\ next' = next + 1
    /\ phase' = "reading"
    /\ UNCHANGED <<folder, disk, prev, touched, save, counts>>

-----------------------------------------------------------------------------
(* Saving *)

\* assertNoExternalChanges
Unchanged == \A p \in ToSet(Tracked) : lastSeen[p] # NoContent => disk[p] = lastSeen[p]
\* no E-RUN-DUPLICADO
RunsAgree == \A p \in Runs : disk[p] \in {NoContent, RunContent}
\* no E-CARPETA-OCUPADA: the folder of a process that is not listed yet holds none
Vacant == IsRepository \/ \A p \in Paths \ (Runs \cup Retired \cup {Manifest}) : disk[p] = NoContent

ToWrite == {p \in Paths : /\ p \in Runs => disk[p] = NoContent
                          /\ p \in Retired => ~IsRepository /\ disk[p] # NoContent}

Begin ==
    /\ Idle
    /\ saves < MaxSaves
    /\ saves' = saves + 1

Refuse ==
    /\ Begin
    /\ ~RunsAgree \/ ~Unchanged \/ ~Vacant
    /\ phase' = "refused"
    /\ UNCHANGED <<folder, disk, prev, lastSeen, next, touched, save, fresh, edits, faults, crashes>>

\* Phase 1 fails: the temporary files are removed and nothing else was touched
TempFails ==
    /\ Begin
    /\ RunsAgree /\ Vacant
    /\ faults < MaxFaults
    /\ faults' = faults + 1
    /\ phase' = "failed"
    /\ writes' = {} /\ moved' = {} /\ placed' = {} /\ new' = NoContent /\ pending' = {}
    /\ start' = disk /\ touched' = {}
    /\ UNCHANGED <<folder, disk, prev, lastSeen, next, fresh, edits, crashes>>

\* The checks pass and the temporary files are written; overwrite skips one check
Save ==
    /\ Begin
    /\ RunsAgree /\ Vacant
    /\ \E overwrite \in BOOLEAN : overwrite \/ Unchanged
    /\ phase' = "look"
    /\ next' = 1
    /\ writes' = ToWrite /\ moved' = {} /\ placed' = {} /\ new' = fresh /\ pending' = {}
    /\ prev' = [p \in Paths |-> NoContent]
    /\ start' = disk /\ touched' = {}
    /\ fresh' = fresh + 1
    /\ UNCHANGED <<folder, disk, lastSeen, edits, faults, crashes>>

\* pathExists: whether there is something to set aside; what is not written is passed over
Look ==
    /\ phase = "look"
    /\ next <= Len(Order)
    /\ IF Dest \in writes
       THEN phase' = (IF disk[Dest] # NoContent THEN "aside" ELSE "place") /\ UNCHANGED next
       ELSE next' = next + 1 /\ UNCHANGED phase
    /\ UNCHANGED <<folder, disk, prev, lastSeen, touched, save, counts>>

\* rename(dest, prevPath); for what is retired that is all
Aside ==
    /\ phase = "aside"
    /\ prev' = [prev EXCEPT ![Dest] = disk[Dest]]
    /\ disk' = [disk EXCEPT ![Dest] = NoContent]
    /\ moved' = moved \cup {Dest}
    /\ IF Dest \in Retired
       THEN phase' = "look" /\ next' = next + 1
       ELSE phase' = "place" /\ UNCHANGED next
    /\ UNCHANGED <<folder, lastSeen, touched, writes, placed, new, pending, start, counts>>

\* rename(tmp, dest)
Place ==
    /\ phase = "place"
    /\ disk' = [disk EXCEPT ![Dest] = Content(Dest)]
    /\ placed' = placed \cup {Dest}
    /\ phase' = "look"
    /\ next' = next + 1
    /\ UNCHANGED <<folder, prev, lastSeen, touched, writes, moved, new, pending, start, counts>>

FaultyFail ==  \* the step that failed is taken to have done nothing
    /\ phase \in {"aside", "place"}
    /\ faults < MaxFaults
    /\ faults' = faults + 1
    /\ next' = next - 1
    /\ phase' = "unplace"
    /\ UNCHANGED <<folder, disk, prev, lastSeen, touched, save, fresh, saves, edits, crashes>>

\* A rename fails, and the journal is undone from the step that failed
Fail ==
    /\ phase \in {"aside", "place"}
    /\ faults < MaxFaults
    /\ faults' = faults + 1
    /\ phase' = "unplace"
    /\ UNCHANGED <<folder, disk, prev, lastSeen, next, touched, save, fresh, saves, edits, crashes>>

\* rollbackCommit is through; lila-recovery.json when something could not be undone
RolledBack ==
    /\ phase = "unplace"
    /\ next = 0
    /\ phase' = IF pending = {} THEN "failed" ELSE "recovery"
    /\ UNCHANGED <<folder, disk, prev, lastSeen, next, touched, save, counts>>

\* undoCommitStep: unlink of what was placed
Unplace ==
    /\ phase = "unplace"
    /\ next > 0
    /\ disk' = IF Dest \in placed THEN [disk EXCEPT ![Dest] = NoContent] ELSE disk
    /\ phase' = "restore"
    /\ UNCHANGED <<folder, prev, lastSeen, next, touched, save, counts>>

\* undoCommitStep: rename(prevPath, dest) of what was set aside
Restore ==
    /\ phase = "restore"
    /\ IF Dest \in moved
       THEN /\ disk' = [disk EXCEPT ![Dest] = prev[Dest]]
            /\ prev' = [prev EXCEPT ![Dest] = NoContent]
       ELSE UNCHANGED <<disk, prev>>
    /\ next' = next - 1
    /\ phase' = "unplace"
    /\ UNCHANGED <<folder, lastSeen, touched, save, counts>>

FaultyUndoFails ==  \* that of the unlink is swallowed
    /\ \/ phase = "unplace" /\ next > 0 /\ Dest \in placed
       \/ phase = "restore" /\ Dest \in moved
    /\ faults < MaxFaults
    /\ faults' = faults + 1
    /\ pending' = IF phase = "restore" THEN pending \cup {Dest} ELSE pending
    /\ next' = next - 1
    /\ phase' = "unplace"
    /\ UNCHANGED <<folder, disk, prev, lastSeen, touched, writes, moved, placed, new, start,
                   fresh, saves, edits, crashes>>

\* Either fails: the step stays undone, or half undone, and the next is gone on with
UndoFails ==
    /\ \/ phase = "unplace" /\ next > 0 /\ Dest \in placed
       \/ phase = "restore" /\ Dest \in moved
    /\ faults < MaxFaults
    /\ faults' = faults + 1
    /\ pending' = pending \cup {Dest}
    /\ next' = next - 1
    /\ phase' = "unplace"
    /\ UNCHANGED <<folder, disk, prev, lastSeen, touched, writes, moved, placed, new, start,
                   fresh, saves, edits, crashes>>

\* Success: the .prev-* are removed
Clean ==
    /\ phase = "look"
    /\ next > Len(Order)
    /\ prev' = [p \in Paths |-> NoContent]
    /\ phase' = "remember"
    /\ next' = 1
    /\ UNCHANGED <<folder, disk, lastSeen, touched, save, counts>>

\* rememberSnapshot of the next tracked destination
Remember ==
    /\ phase = "remember"
    /\ IF next > Len(Tracked)
       THEN phase' = "saved" /\ UNCHANGED <<lastSeen, next>>
       ELSE /\ lastSeen' = IF Tracked[next] \in writes \cup Retired
                           THEN [lastSeen EXCEPT ![Tracked[next]] = disk[Tracked[next]]]
                           ELSE lastSeen
            /\ next' = next + 1
            /\ UNCHANGED phase
    /\ UNCHANGED <<folder, disk, prev, touched, save, counts>>

-----------------------------------------------------------------------------
(* The rest of the world *)

\* Another program writes a file (not a manifest of a version of its own choice)
Edit ==
    /\ edits < MaxEdits
    /\ phase \notin {"dead", "torn", "unreadable"}
    /\ \E p \in IF WasRepository THEN Paths ELSE Paths \ {Manifest} :
          /\ disk' = [disk EXCEPT ![p] = fresh]
          /\ touched' = touched \cup {p}
    /\ edits' = edits + 1
    /\ fresh' = fresh + 1
    /\ UNCHANGED <<folder, prev, lastSeen, phase, next, save, saves, faults, crashes>>

\* The process dies, and lastSeen with it; torn: before the commit was complete
Crash ==
    /\ crashes < MaxCrashes
    /\ phase \notin {"dead", "torn", "unreadable"}
    /\ crashes' = crashes + 1
    /\ phase' = IF Committing THEN "torn" ELSE "dead"
    /\ lastSeen' = [p \in Paths |-> NoContent]
    /\ UNCHANGED <<folder, disk, prev, next, touched, save, fresh, saves, edits, faults>>

Next ==
    \/ Open \/ Read \/ Snapshot
    \/ Refuse \/ TempFails \/ Save \/ Look \/ Aside \/ Place \/ Clean \/ Remember
    \/ Fail \/ Unplace \/ Restore \/ UndoFails \/ RolledBack
    \/ Edit \/ Crash

Spec == Init /\ [][Next]_vars

-----------------------------------------------------------------------------

TypeOK ==
    /\ disk \in [Paths -> 0 .. fresh - 1] /\ prev \in [Paths -> 0 .. fresh - 1]
    /\ lastSeen \in [Paths -> 0 .. fresh - 1]
    /\ next \in 0 .. Len(Order) + 1
    /\ moved \subseteq writes /\ placed \subseteq writes \ Retired
    /\ pending \subseteq moved \cup placed

\* A save that reports success has written everything, and one that reports a plain
\* failure has left every file as it was ("the earlier destinations intact").
AllOrNothing ==
    /\ phase = "failed" => \A p \in Paths \ touched : disk[p] = start[p]
    /\ phase = "saved" => \A p \in writes \ touched :
                             disk[p] = IF p \in Retired THEN NoContent ELSE Content(p)

\* Until a save is complete, what a file held is at its place or in its .prev-*,
\* whichever rename fails, whichever undo fails, and wherever the process dies.
OldContentSurvives ==
    Committing \/ phase \in {"torn", "failed", "recovery"} =>
        \A p \in writes \ touched : start[p] # NoContent => start[p] \in {disk[p], prev[p]}

\* lila-recovery.json names every file that is not as it was.
PendingTellsAll ==
    phase = "recovery" => \A p \in Paths \ touched : disk[p] # start[p] => p \in pending

\* What a save that failed or died has moved can be put back, and it is told what to.
RecoveryIsPossible == OldContentSurvives /\ PendingTellsAll

\* "A crash leaves the old manifest pointing at files that still exist": when the
\* process dies in the middle of a save, the folder can be opened.
CrashLeavesProject == phase = "torn" /\ pending = {} => Readable

\* It can when the save was the one that makes a version 1 folder a repository, and the
\* folder could be opened before it: the manifest is replaced once every process file is
\* there, and before any file is retired.
FirstSaveIsCrashSafe ==
    writes \cap Retired # {} /\ ReadableOn(start) => CrashLeavesProject
=============================================================================
