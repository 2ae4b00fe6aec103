---------------------------- MODULE ProjectReload ----------------------------
(*****************************************************************************)
(* The open project and what other programs do to its files: the watcher of   *)
(* apps/desktop/src/projectWatcher.ts, the snapshots of project-fs/projectIO, *)
(* the own-write check of apps/desktop/src/main.ts and the reload, the notice *)
(* and the save of apps/web/src/App.tsx.                                      *)
(*                                                                            *)
(* A version of a file is the number of writes it has had: what mtime and     *)
(* size tell apart, and the content that came with it.                        *)
(*****************************************************************************)
EXTENDS Integers, FiniteSets

CONSTANTS
    NFiles,     \* the tracked files, in the order they are read and written
    MaxForeign, \* bound on the writes of other programs
    MaxEdits,   \* bound on the edits
    MaxBegun    \* bound on the saves, dialogs and other operations begun

ReloadAssumption ==
    /\ NFiles \in Nat \ {0}
    /\ MaxForeign \in Nat /\ MaxEdits \in Nat /\ MaxBegun \in Nat

Files == 1 .. NFiles

VARIABLES
    disk,     \* the version of each file on disk
    lastSeen, \* the snapshot this process has of each file
    got,      \* the version of each file the operation in progress read or wrote
    shown,    \* the version of each file the document on screen comes from
    events,   \* file-system notifications under way; several of a file are one
    changed,  \* files the watcher was told of since its last check
    timer,    \* is the debounce timer armed?
    settling, \* the checks under way: the files each has still to look at
    pending,  \* lila:reload messages under way and 500 ms timers that try again
    notice,   \* cambioExterno: is "The file changed outside Lila" on screen?
    refused,  \* does the error on screen offer Reload?
    op,       \* what holds the file lock (ioLock), and where it is
    at,       \* the file op has come to
    before,   \* edits when op took its token or its snapshot
    edits,    \* edits made so far
    cleanAt,  \* the edits the last save or reload left clean
    begun,    \* saves, dialogs and other operations begun so far
    foreign,  \* writes of other programs so far
    \* history
    theirs,   \* the last version of each file another program wrote
    told,     \* the last version of each file the user was told of, or shown
    slip,     \* how a snapshot came to vouch for what is not on screen
    kept      \* what was on disk of each file when "Keep mine" was chosen

onDisk == <<disk, theirs, foreign>>
watcher == <<events, changed, timer, settling>>
screen == <<shown, notice, refused, cleanAt>>
work == <<got, op, at, before, begun>>
history == <<told, slip, kept>>
vars == <<onDisk, lastSeen, watcher, pending, screen, edits, work, history>>

Ops == {"free", "other", "read", "remember", "activate", "check", "rename", "snapshot"}
Slips == {"none", "unread", "given up", "raced"}

dirty == edits # cleanAt
writing == op \in {"check", "rename", "snapshot"}  \* projectWrite has not settled
Zero == [f \in Files |-> 0]

Init ==
    /\ disk = Zero /\ lastSeen = Zero /\ got = Zero /\ shown = Zero
    /\ events = {} /\ changed = {} /\ timer = FALSE /\ settling = {} /\ pending = 0
    /\ notice = FALSE /\ refused = FALSE
    /\ op = "free" /\ at = 1 /\ before = 0
    /\ edits = 0 /\ cleanAt = 0 /\ begun = 0 /\ foreign = 0
    /\ theirs = Zero /\ told = Zero /\ kept = Zero
    /\ slip = [f \in Files |-> "none"]

-----------------------------------------------------------------------------
(* Other programs and the watcher.                                            *)

\* the CLI, an agent or an editor writes a file of the project
ForeignWrite(f) ==
    /\ foreign < MaxForeign
    /\ foreign' = foreign + 1
    /\ disk' = [disk EXCEPT ![f] = @ + 1]
    /\ theirs' = [theirs EXCEPT ![f] = disk[f] + 1]
    /\ events' = events \cup {f}
    /\ slip' = IF op = "rename" /\ at <= f THEN [slip EXCEPT ![f] = "raced"] ELSE slip
    /\ UNCHANGED <<lastSeen, changed, timer, settling, pending, screen, edits, work, told, kept>>

\* a notification arrives: the debounce timer starts again
Notified(f) ==
    /\ f \in events
    /\ events' = events \ {f}
    /\ changed' = changed \cup {f}
    /\ timer' = TRUE
    /\ UNCHANGED <<onDisk, lastSeen, settling, pending, screen, edits, work, history>>

\* settle: the files gathered so far are looked at, while new ones may gather
Settle ==
    /\ timer
    /\ timer' = FALSE
    /\ settling' = settling \cup {changed}
    /\ changed' = {}
    /\ UNCHANGED <<onDisk, lastSeen, events, pending, screen, edits, work, history>>

\* isOwn waits for the write in progress
MayCheck == ~writing

\* one file of a check: the first that is not this process's own ends it with a message
CheckFile(files, f) ==
    /\ files \in settling /\ f \in files
    /\ MayCheck
    /\ LET own == disk[f] = lastSeen[f]
           rest == IF own THEN files \ {f} ELSE {}
       IN /\ settling' = (settling \ {files}) \cup ({rest} \ {{}})
          /\ pending' = IF own THEN pending ELSE pending + 1
    /\ UNCHANGED <<onDisk, lastSeen, events, changed, timer, screen, edits, work, history>>

-----------------------------------------------------------------------------
(* The renderer: the change, the notice and the reload.                       *)

\* recargar, once nothing else is going on
StartReload ==
    /\ op = "free"
    /\ op' = "read" /\ at' = 1
    /\ before' = edits
    /\ notice' = FALSE /\ refused' = FALSE
    /\ UNCHANGED <<got, begun, shown, cleanAt>>

FaultyChangedOutside ==  \* a change that comes while another operation runs is let go
    /\ pending > 0
    /\ pending' = pending - 1
    /\ \/ /\ dirty
          /\ notice' = TRUE
          /\ told' = disk
          /\ UNCHANGED <<shown, refused, cleanAt, work>>
       \/ /\ ~dirty /\ op # "free"
          /\ notice' = FALSE
          /\ UNCHANGED <<shown, refused, cleanAt, work, told>>
       \/ ~dirty /\ StartReload /\ UNCHANGED told
    /\ UNCHANGED <<onDisk, lastSeen, watcher, edits, slip, kept>>

\* alCambiarFuera, called by a message or by the timer that tries again
ChangedOutside ==
    /\ pending > 0
    /\ \/ /\ dirty
          /\ notice' = TRUE
          /\ told' = disk
          /\ pending' = pending - 1
          /\ UNCHANGED <<shown, refused, cleanAt, work>>
       \/ /\ ~dirty /\ op # "free"
          /\ notice' = FALSE
          /\ UNCHANGED <<shown, refused, cleanAt, work, told, pending>>
       \/ /\ ~dirty
          /\ StartReload
          /\ pending' = pending - 1
          /\ UNCHANGED told
    /\ UNCHANGED <<onDisk, lastSeen, watcher, edits, slip, kept>>

\* the button of the notice, or of the error of a refused save
PressReload ==
    /\ notice \/ refused
    /\ StartReload
    /\ UNCHANGED <<onDisk, lastSeen, watcher, pending, edits, history>>

\* the other button of the notice
KeepMine ==
    /\ notice
    /\ notice' = FALSE
    /\ kept' = [f \in Files |-> IF disk[f] = shown[f] THEN 0 ELSE disk[f]]
    /\ UNCHANGED <<onDisk, lastSeen, watcher, pending, shown, refused, cleanAt, edits,
                   work, told, slip>>

ReadFile ==
    /\ op = "read"
    /\ got' = [got EXCEPT ![at] = disk[at]]
    /\ op' = "remember"
    /\ UNCHANGED <<onDisk, lastSeen, watcher, pending, screen, edits, at, before, begun, history>>

\* rememberSnapshot: a stat of its own, after the file was read or renamed
Snapshot ==
    /\ lastSeen' = [lastSeen EXCEPT ![at] = disk[at]]
    /\ slip' = [slip EXCEPT ![at] = IF disk[at] = got[at] THEN "none" ELSE "unread"]

RememberFile ==
    /\ op = "remember"
    /\ Snapshot
    /\ op' = IF at = NFiles THEN "activate" ELSE "read"
    /\ at' = IF at = NFiles THEN at ELSE at + 1
    /\ UNCHANGED <<onDisk, watcher, pending, screen, edits, got, before, begun, told, kept>>

\* activate: what was read replaces the document, unless it was edited meanwhile
MayActivate == edits = before

Activate ==
    /\ op = "activate" /\ MayActivate
    /\ op' = "free"
    /\ shown' = got
    /\ cleanAt' = edits
    /\ notice' = FALSE
    /\ told' = [f \in Files |-> IF told[f] > got[f] THEN told[f] ELSE got[f]]
    /\ kept' = Zero
    /\ UNCHANGED <<onDisk, lastSeen, watcher, pending, refused, edits, got, at, before, begun, slip>>

\* the reload ends with an error on screen: the file cannot be read, what is in it
\* does not parse, the canvas refuses it, or it was edited meanwhile
GiveUp ==
    /\ op \in {"read", "activate"}
    /\ op' = "free"
    /\ told' = disk
    /\ slip' = [f \in Files |-> IF slip[f] = "none" /\ lastSeen[f] # shown[f]
                                THEN "given up" ELSE slip[f]]
    /\ UNCHANGED <<onDisk, lastSeen, watcher, pending, screen, edits, got, at, before, begun, kept>>

-----------------------------------------------------------------------------
(* The user: edits, dialogs and other operations, and saves.                  *)

Edit ==
    /\ edits < MaxEdits
    /\ edits' = edits + 1
    /\ UNCHANGED <<onDisk, lastSeen, watcher, pending, screen, work, history>>

\* an export, a dialog, a switch of process: a reload has to wait
StartOther ==
    /\ op = "free" /\ begun < MaxBegun
    /\ op' = "other"
    /\ begun' = begun + 1
    /\ UNCHANGED <<onDisk, lastSeen, watcher, pending, screen, edits, got, at, before, history>>

EndOther ==
    /\ op = "other"
    /\ op' = "free"
    /\ UNCHANGED <<onDisk, lastSeen, watcher, pending, screen, edits, got, at, before, begun, history>>

StartSave ==
    /\ op = "free" /\ begun < MaxBegun
    /\ op' = "check"
    /\ before' = edits
    /\ begun' = begun + 1
    /\ refused' = FALSE
    /\ UNCHANGED <<onDisk, lastSeen, watcher, pending, shown, notice, cleanAt, edits, got, at, history>>

FaultyUnchanged == disk[1] = lastSeen[1]  \* the manifest alone is looked at
\* assertPathsUnchanged
Unchanged == disk = lastSeen

CheckSave ==
    /\ op = "check"
    /\ IF Unchanged
       THEN /\ op' = "rename" /\ at' = 1
            /\ UNCHANGED <<refused, told>>
       ELSE /\ op' = "free" /\ refused' = TRUE /\ told' = disk
            /\ UNCHANGED at
    /\ UNCHANGED <<onDisk, lastSeen, watcher, pending, shown, notice, cleanAt, edits, got,
                   before, begun, slip, kept>>

RenameFile ==
    /\ op = "rename"
    /\ disk' = [disk EXCEPT ![at] = @ + 1]
    /\ got' = [got EXCEPT ![at] = disk[at] + 1]
    /\ events' = events \cup {at}
    /\ op' = IF at = NFiles THEN "snapshot" ELSE op
    /\ at' = IF at = NFiles THEN 1 ELSE at + 1
    /\ UNCHANGED <<theirs, foreign, lastSeen, changed, timer, settling, pending, screen, edits,
                   before, begun, history>>

\* the last snapshot ends the save: what was exported is clean
SnapshotFile ==
    /\ op = "snapshot"
    /\ Snapshot
    /\ IF at = NFiles
       THEN op' = "free" /\ shown' = got /\ cleanAt' = before /\ UNCHANGED at
       ELSE at' = at + 1 /\ UNCHANGED <<op, shown, cleanAt>>
    /\ UNCHANGED <<onDisk, watcher, pending, notice, refused, edits, got, before, begun, told, kept>>

-----------------------------------------------------------------------------

Next ==
    \/ \E f \in Files : ForeignWrite(f) \/ Notified(f)
    \/ Settle
    \/ \E files \in settling : \E f \in files : CheckFile(files, f)
    \/ ChangedOutside \/ PressReload \/ KeepMine
    \/ ReadFile \/ RememberFile \/ Activate \/ GiveUp
    \/ Edit \/ StartOther \/ EndOther
    \/ StartSave \/ CheckSave \/ RenameFile \/ SnapshotFile

\* timers fire, messages and notifications arrive, reads and writes end, and
\* the user answers dialogs; edits, saves and buttons are up to the user
Fairness ==
    /\ \A f \in Files : WF_vars(Notified(f))
    /\ WF_vars(Settle)
    /\ WF_vars(\E files \in settling : \E f \in files : CheckFile(files, f))
    /\ WF_vars(ChangedOutside)
    /\ WF_vars(ReadFile) /\ WF_vars(RememberFile) /\ WF_vars(Activate \/ GiveUp)
    /\ WF_vars(EndOther)
    /\ WF_vars(CheckSave) /\ WF_vars(RenameFile) /\ WF_vars(SnapshotFile)

Spec == Init /\ [][Next]_vars
FairSpec == Spec /\ Fairness

-----------------------------------------------------------------------------

TypeOK ==
    /\ {disk, lastSeen, got, shown, theirs, told, kept} \subseteq [Files -> Nat]
    /\ events \subseteq Files /\ changed \subseteq Files /\ timer \in BOOLEAN
    /\ settling \subseteq SUBSET Files /\ pending \in Nat
    /\ notice \in BOOLEAN /\ refused \in BOOLEAN
    /\ op \in Ops /\ at \in Files /\ before \in Nat
    /\ edits \in Nat /\ cleanAt \in Nat /\ begun \in Nat /\ foreign \in Nat
    /\ slip \in [Files -> Slips]

Renamed(f) == op = "rename" /\ at = f /\ disk'[f] # disk[f] /\ got'[f] # got[f]

\* A save never renames its file over a version the document on screen does not
\* come from, but in three cases: the version came after this save's check, it
\* came between the read (or the rename) of the file and its snapshot, or a
\* reload read it and gave up.  (writeProjectFolder, assertPathsUnchanged)
NothingUnseenIsOverwritten ==
    [][\A f \in Files : Renamed(f) /\ disk[f] # shown[f] => slip[f] # "none"]_vars

\* "Keep mine" never costs the other program its work: what was on disk when it
\* was chosen, and is still there, is not overwritten until the project has
\* been reloaded.  (docs/AGENT_GUIDE.md, "After Keep mine, saving is refused")
KeepMineIsSafe ==
    [][\A f \in Files : Renamed(f) => kept[f] = 0 \/ kept[f] # disk[f]]_vars

\* What is on disk of f is the work of another program, and nobody was told.
Untold(f) == theirs[f] > told[f] /\ theirs[f] = disk[f]
\* ... and this process takes it for what it has read or written
Vouched(f) == slip[f] = "unread" /\ lastSeen[f] = disk[f]

\* Every write of another program reaches the user in the end: as a new document,
\* a notice or an error; unless it is overwritten, or its version was taken for
\* one that had been read.  (watchProject, alCambiarFuera, recargar)
EveryChangeIsTold == []<>(\A f \in Files : Untold(f) => Vouched(f))

\* The program's own saves are never reported: a message is only sent while a
\* file on disk is another program's.  (isOwn waits for projectWrite)
OwnSavesAreNotReported ==
    [][pending' > pending => \E f \in Files : theirs[f] > 0 /\ theirs[f] = disk[f]]_vars

\* What others write is told in the end, and nothing else is.
OthersWritesAreTold == EveryChangeIsTold /\ OwnSavesAreNotReported
=============================================================================
