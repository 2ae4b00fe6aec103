----------------------------- MODULE ProjectFiles -----------------------------
(*****************************************************************************)
(* The files Lila keeps: the lock of a .lila file, its writers, a project      *)
(* folder, the reload of an open project and the file of the session.  They   *)
(* share no state here, so a behaviour is of one of the five while the others *)
(* stand still.  ProjectFilesProofs proves the theorems about the lock, the   *)
(* reload and the session, and carries those of the parts over to this        *)
(* specification.                                                             *)
(*****************************************************************************)
EXTENDS LilaLock

CONSTANTS
    Agents, Desktops, Nobody, ATTEMPTS, MaxLilaSaves, MaxLilaCrashes,  \* of LilaFile
    Folders, Manifest, MaxFolderSaves, MaxFolderEdits, MaxFaults, MaxFolderCrashes,
    NFiles, MaxForeign, MaxReloadEdits, MaxBegun,                      \* of ProjectReload
    MaxChanges, MaxLaunches                                            \* of SessionFile

VARIABLE atWork

VARIABLES disk, holder, at, known, base, attempt, runOn
lilaVars == <<disk, holder, at, known, base, attempt, runOn>>

Lila == INSTANCE LilaFileProofs WITH
            MaxSaves <- MaxLilaSaves, MaxCrashes <- MaxLilaCrashes, pc <- at

VARIABLES folder, folderDisk, prev, lastSeen, phase, next, touched, writes, moved, placed, new,
          pending, start, fresh, saves, edits, faults, crashes
folderVars == <<folder, folderDisk, prev, lastSeen, phase, next, touched, writes, moved, placed,
                new, pending, start, fresh, saves, edits, faults, crashes>>

Folder == INSTANCE ProjectFolderProofs WITH
              disk <- folderDisk, MaxSaves <- MaxFolderSaves, MaxEdits <- MaxFolderEdits,
              MaxCrashes <- MaxFolderCrashes

VARIABLES rDisk, rLastSeen, got, shown, events, changed, timer, settling, rPending, notice,
          refused, op, rAt, before, rEdits, cleanAt, begun, foreign, theirs, told, slip, kept
reloadVars == <<rDisk, rLastSeen, got, shown, events, changed, timer, settling, rPending, notice,
                refused, op, rAt, before, rEdits, cleanAt, begun, foreign, theirs, told, slip, kept>>

Reload == INSTANCE ProjectReload WITH
              MaxEdits <- MaxReloadEdits, disk <- rDisk,
              lastSeen <- rLastSeen, pending <- rPending, at <- rAt, edits <- rEdits

VARIABLES file, temps, state, made, queue, inFlight, tail, sSeen, boundsTimer, sPhase, launches,
          failed
sessionVars == <<file, temps, state, made, queue, inFlight, tail, sSeen, boundsTimer, sPhase,
                 launches, failed>>

Session == INSTANCE SessionFile WITH seen <- sSeen, phase <- sPhase

ASSUME FilesAssumption ==
    /\ Lila!WritersAssumption /\ Folder!FolderAssumption
    /\ Reload!ReloadAssumption /\ Session!SessionFileAssumption

allVars == <<atWork, vars, lilaVars, folderVars, reloadVars, sessionVars>>

FilesInit ==
    /\ atWork \in {"lock", "lila", "folder", "reload", "session"}
    /\ Init /\ Lila!Init /\ Folder!Init /\ Reload!Init /\ Session!Init
    /\ atWork # "lock" => lock = NoFile

FilesNext ==
    \/ /\ atWork = "lock" /\ Next
       /\ UNCHANGED <<atWork, lilaVars, folderVars, reloadVars, sessionVars>>
    \/ /\ atWork = "lila" /\ Lila!Next
       /\ UNCHANGED <<atWork, vars, folderVars, reloadVars, sessionVars>>
    \/ /\ atWork = "folder" /\ Folder!Next
       /\ UNCHANGED <<atWork, vars, lilaVars, reloadVars, sessionVars>>
    \/ /\ atWork = "reload" /\ Reload!Next
       /\ UNCHANGED <<atWork, vars, lilaVars, folderVars, sessionVars>>
    \/ /\ atWork = "session" /\ Session!Next
       /\ UNCHANGED <<atWork, vars, lilaVars, folderVars, reloadVars>>

FilesFairness ==
    \/ atWork = "lock" /\ Fairness
    \/ atWork = "lila" /\ Lila!Fairness
    \/ atWork = "reload" /\ Reload!Fairness
    \/ atWork = "session" /\ Session!Fairness
    \/ atWork = "folder"

FilesSpec == FilesInit /\ [][FilesNext]_allVars /\ FilesFairness

\* Every call of withLilaLock comes back, and so does every saveLilaRun.
CallsReturn == atWork = "lock" => EveryCallReturns
SavesReturn == atWork = "lila" => Lila!EverySaveReturns

RunsMatchTheModel == Lila!RunsMatchTheModel
AgentsTakeNothingBack == Lila!AgentsTakeNothingBack
AllOrNothing == Folder!AllOrNothing
RecoveryIsPossible == Folder!RecoveryIsPossible
FirstSaveIsCrashSafe == Folder!FirstSaveIsCrashSafe
NothingUnseenIsOverwritten == Reload!NothingUnseenIsOverwritten
OthersWritesAreTold == Reload!OthersWritesAreTold
NothingStaleOnDisk == Session!NothingStaleOnDisk
QuitIsOrderly == Session!QuitIsOrderly
=============================================================================
