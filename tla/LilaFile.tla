------------------------------- MODULE LilaFile -------------------------------
(*****************************************************************************)
(* Who writes a .lila file, and on what knowledge (project-fs/lilaFile.ts,    *)
(* input.ts and save-run.ts): desktop windows, which read, remember what the  *)
(* file looks like and save over it, and agents (the CLI and MCP servers),    *)
(* which open it, store a run and try again when somebody else was faster.    *)
(*                                                                            *)
(* The lock is the mutex that LilaLock implements.  One action per await.     *)
(* The identity of a file (mtime, size, inode) is the number of the write     *)
(* that produced it; its content is the set of changes it carries and the     *)
(* revision of its model.                                                     *)
(*****************************************************************************)
EXTENDS Integers, FiniteSets

CONSTANTS
    Agents,     \* runs to be stored with saveLilaRun
    Desktops,   \* windows that have the file open
    Nobody,     \* nobody holds the lock
    ATTEMPTS,   \* tries of saveLilaRun
    MaxSaves,   \* bound on the saves of a desktop
    MaxCrashes  \* bound on processes that die

Parties == Agents \cup Desktops

WritersAssumption ==
    /\ Agents \cap Desktops = {}
    /\ Nobody \notin Parties
    /\ ATTEMPTS \in Nat \ {0}
    /\ MaxSaves \in Nat
    /\ MaxCrashes \in Nat

VARIABLES
    disk,     \* the file: [id, changes, rev]
    holder,   \* who holds the lock
    pc,       \* where each writer is
    known,    \* the identity each writer compares the file with
    base,     \* the content each writer has in memory
    attempt,  \* the current try of an agent; the saves done by a desktop
    runOn     \* the model revision the run of an agent was taken on

vars == <<disk, holder, pc, known, base, attempt, runOn>>

Lock == INSTANCE FileMutex WITH Writers <- Parties, holder <- holder

Content == [changes : SUBSET (Parties \X Nat), rev : Nat]
ContentOf(d) == [changes |-> d.changes, rev |-> d.rev]
Goto(w, label) == pc' = [pc EXCEPT ![w] = label]

Init ==
    /\ disk = [id |-> 1, changes |-> {}, rev |-> 0]
    /\ holder = Nobody
    /\ pc = [w \in Parties |-> IF w \in Agents THEN "stat" ELSE "read"]
    /\ known = [w \in Parties |-> 0]
    /\ base = [w \in Parties |-> [changes |-> {}, rev |-> 0]]
    /\ attempt = [w \in Parties |-> 0]
    /\ runOn = [a \in Agents |-> 0]

-----------------------------------------------------------------------------
(* Agents *)

\* readLila: the identity first ...
AgentStat(a) ==
    /\ pc[a] = "stat"
    /\ known' = [known EXCEPT ![a] = disk.id]
    /\ Goto(a, "read")
    /\ UNCHANGED <<disk, holder, base, attempt, runOn>>

FaultyAgentRead(a) ==  \* the run goes into whatever model is there by now
    /\ pc[a] = "read"
    /\ base' = [base EXCEPT ![a] = ContentOf(disk)]
    /\ attempt' = [attempt EXCEPT ![a] = @ + 1]
    /\ runOn' = [runOn EXCEPT ![a] = IF attempt[a] = 0 THEN disk.rev ELSE @]
    /\ Goto(a, "lock")
    /\ UNCHANGED <<disk, holder, known>>

\* ... then the bytes.  The run is simulated on what the first open read; a later
\* try gives up (lilaRunStale) when the model is no longer that one.
AgentRead(a) ==
    /\ pc[a] = "read"
    /\ base' = [base EXCEPT ![a] = ContentOf(disk)]
    /\ attempt' = [attempt EXCEPT ![a] = @ + 1]
    /\ runOn' = [runOn EXCEPT ![a] = IF attempt[a] = 0 THEN disk.rev ELSE @]
    /\ Goto(a, IF attempt[a] > 0 /\ disk.rev # runOn[a] THEN "stale" ELSE "lock")
    /\ UNCHANGED <<disk, holder, known>>

FaultyTryAgain(a) == Goto(a, "lock")  \* without opening the file again
\* E-CAMBIO-EXTERNO and E-ARCHIVO-OCUPADO: open again, ATTEMPTS times in all
TryAgain(a) == Goto(a, IF attempt[a] >= ATTEMPTS THEN "failed" ELSE "stat")

AgentBusy(a) ==
    /\ pc[a] = "lock"
    /\ holder # Nobody
    /\ TryAgain(a)
    /\ UNCHANGED <<disk, holder, known, base, attempt, runOn>>

AgentLock(a) ==
    /\ pc[a] = "lock"
    /\ Lock!Acquire(a)
    /\ Goto(a, "check")
    /\ UNCHANGED <<disk, known, base, attempt, runOn>>

FaultyAgentCheck(a) ==  \* no comparison under the lock
    /\ pc[a] = "check"
    /\ Goto(a, "write")
    /\ UNCHANGED <<disk, holder, known, base, attempt, runOn>>

\* beforeWrite compares the file with the one that was opened
AgentCheck(a) ==
    /\ pc[a] = "check"
    /\ IF disk.id = known[a]
       THEN Goto(a, "write") /\ UNCHANGED holder
       ELSE Lock!Release(a) /\ TryAgain(a)
    /\ UNCHANGED <<disk, known, base, attempt, runOn>>

\* the temporary file is complete; rename puts it in place
AgentWrite(a) ==
    /\ pc[a] = "write"
    /\ disk' = [id |-> disk.id + 1, changes |-> base[a].changes \cup {<<a, 1>>},
                rev |-> base[a].rev]
    /\ Goto(a, "unlock")
    /\ UNCHANGED <<holder, known, base, attempt, runOn>>

AgentUnlock(a) ==
    /\ pc[a] = "unlock"
    /\ Lock!Release(a)
    /\ Goto(a, "saved")
    /\ UNCHANGED <<disk, known, base, attempt, runOn>>

-----------------------------------------------------------------------------
(* Desktop windows *)

\* readLilaFile: the bytes first ...
DesktopRead(d) ==
    /\ pc[d] = "read"
    /\ base' = [base EXCEPT ![d] = ContentOf(disk)]
    /\ Goto(d, "remember")
    /\ UNCHANGED <<disk, holder, known, attempt, runOn>>

\* ... then rememberSnapshot
DesktopRemember(d) ==
    /\ pc[d] = "remember"
    /\ known' = [known EXCEPT ![d] = disk.id]
    /\ Goto(d, "editing")
    /\ UNCHANGED <<disk, holder, base, attempt, runOn>>

\* The user edits the model and saves
DesktopSave(d) ==
    /\ pc[d] = "editing"
    /\ attempt[d] < MaxSaves
    /\ attempt' = [attempt EXCEPT ![d] = @ + 1]
    /\ base' = [base EXCEPT ![d].changes = @ \cup {<<d, attempt[d] + 1>>},
                            ![d].rev = @ + 1]
    /\ Goto(d, "lock")
    /\ UNCHANGED <<disk, holder, known, runOn>>

\* E-ARCHIVO-OCUPADO: the edit stays in memory
DesktopBusy(d) ==
    /\ pc[d] = "lock"
    /\ holder # Nobody
    /\ Goto(d, "editing")
    /\ UNCHANGED <<disk, holder, known, base, attempt, runOn>>

DesktopLock(d) ==
    /\ pc[d] = "lock"
    /\ Lock!Acquire(d)
    /\ Goto(d, "check")
    /\ UNCHANGED <<disk, known, base, attempt, runOn>>

\* assertPathsUnchanged: refused with E-CAMBIO-EXTERNO, and the user reloads
DesktopCheck(d) ==
    /\ pc[d] = "check"
    /\ IF disk.id = known[d]
       THEN Goto(d, "write") /\ UNCHANGED holder
       ELSE Lock!Release(d) /\ Goto(d, "read")
    /\ UNCHANGED <<disk, known, base, attempt, runOn>>

DesktopWrite(d) ==
    /\ pc[d] = "write"
    /\ disk' = [id |-> disk.id + 1, changes |-> base[d].changes, rev |-> base[d].rev]
    /\ Goto(d, "unlock")
    /\ UNCHANGED <<holder, known, base, attempt, runOn>>

\* rememberSnapshot of its own write, still under the lock, which is then let go
DesktopUnlock(d) ==
    /\ pc[d] = "unlock"
    /\ known' = [known EXCEPT ![d] = disk.id]
    /\ Lock!Release(d)
    /\ Goto(d, "editing")
    /\ UNCHANGED <<disk, base, attempt, runOn>>

\* A process dies; the others take its lock over in time (LilaLock)
Crash(w) ==
    /\ pc[w] \notin {"saved", "failed", "stale", "crashed"}
    /\ Cardinality({v \in Parties : pc[v] = "crashed"}) < MaxCrashes
    /\ holder' = IF holder = w THEN Nobody ELSE holder
    /\ Goto(w, "crashed")
    /\ UNCHANGED <<disk, known, base, attempt, runOn>>

AgentStep(a) ==
    \/ AgentStat(a) \/ AgentRead(a) \/ AgentBusy(a) \/ AgentLock(a)
    \/ AgentCheck(a) \/ AgentWrite(a) \/ AgentUnlock(a)
DesktopStep(d) ==
    \/ DesktopRead(d) \/ DesktopRemember(d) \/ DesktopSave(d)
    \/ DesktopBusy(d) \/ DesktopLock(d) \/ DesktopCheck(d)
    \/ DesktopWrite(d) \/ DesktopUnlock(d)

Next ==
    \/ \E a \in Agents : AgentStep(a)
    \/ \E d \in Desktops : DesktopStep(d)
    \/ \E w \in Parties : Crash(w)

Spec == Init /\ [][Next]_vars

-----------------------------------------------------------------------------

TypeOK ==
    /\ disk \in [id : Nat, changes : SUBSET (Parties \X Nat), rev : Nat]
    /\ holder \in Parties \cup {Nobody}
    /\ known \in [Parties -> Nat]
    /\ base \in [Parties -> Content]
    /\ \A a \in Agents : attempt[a] \in 0 .. ATTEMPTS
    /\ \A d \in Desktops : attempt[d] \in 0 .. MaxSaves
    /\ runOn \in [Agents -> Nat]

\* No writer ever takes back what another one has stored: "of two concurrent
\* callers that opened the same version, the second one is refused instead of
\* silently overwriting the first" (input.ts:285-287), and a desktop save "is
\* refused if it changed on disk since this process last read or wrote it"
\* (lilaFile.ts:113-114).
NothingStoredIsLost == [][disk.changes \subseteq disk'.changes]_disk

Stores(a) == pc[a] = "write" /\ pc'[a] = "unlock"

\* A run is only ever stored in a file whose model is the one it was taken on.
RunsMatchTheModel ==
    [][\A a \in Agents : Stores(a) => disk.rev = runOn[a] /\ disk'.rev = runOn[a]]_vars

\* An agent keeps whatever it finds in the file, the edits of a desktop and the
\* runs of other agents alike: its try is void unless it opened the latest version.
AgentsTakeNothingBack ==
    [][(\E a \in Agents : Stores(a)) => disk.changes \subseteq disk'.changes]_vars

Fairness ==
    /\ \A a \in Agents : WF_vars(AgentStep(a))
    /\ \A d \in Desktops : WF_vars(DesktopBusy(d) \/ DesktopLock(d) \/ DesktopCheck(d)
                                   \/ DesktopWrite(d) \/ DesktopUnlock(d))

FairSpec == Spec /\ Fairness

\* saveLilaRun comes back, whatever the others do.
EverySaveReturns ==
    <>\A a \in Agents : pc[a] \in {"saved", "failed", "stale", "crashed"}
=============================================================================
