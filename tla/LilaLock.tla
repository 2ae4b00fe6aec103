------------------------------- MODULE LilaLock -------------------------------
(*****************************************************************************)
(* withLilaLock of packages/engine/src/project-fs/lilaFile.ts: the lock file  *)
(* next to a .lila, taken by writers in any process with an exclusive create, *)
(* taken over when it looks like the leftover of a crash.                     *)
(*                                                                            *)
(* One action per await: between two of them any other writer may act, the    *)
(* process may die, and each may be refused by the file system.  A lock file  *)
(* is named for the writer that created it, and that name is also its token;  *)
(* Leftover is the lock of an earlier crash.                                  *)
(*****************************************************************************)
EXTENDS Integers, FiniteSets

CONSTANTS
    Writers,      \* calls of withLilaLock, whatever process they run in
    Leftover,     \* the lock file of a process that crashed before
    NoFile,       \* there is no file at that path
    NoToken,      \* the token of a lock created and not written yet
    StartsStale,  \* may there be a leftover to begin with?
    MaxCrashes    \* bound on the crashes of writers

ASSUME LockAssumption ==
    /\ Leftover \notin Writers
    /\ NoFile \notin Writers \cup {Leftover}
    /\ NoToken \notin Writers \cup {Leftover, NoFile}
    /\ StartsStale \in BOOLEAN
    /\ MaxCrashes \in Nat

Files == Writers \cup {Leftover}

VARIABLES
    pc,     \* where each writer is in withLilaLock
    lock,   \* the file at `${file}.lock`
    aside,  \* the file each writer renamed to `${lock}.stale-${token}`
    filled, \* lock files whose token has been written
    old,    \* lock files not touched for LOCK_STALE_MS
    seen,   \* the token each writer read before it looked at the age
    lapses  \* history: what went wrong with a lock that no exception tells of

vars == <<pc, lock, aside, filled, old, seen, lapses>>

PCs == {"open", "fill", "peek", "stat", "move", "compare", "putBack", "discard",
        "wait", "work", "release", "unlink", "done", "busy", "failed", "crashed"}

\* Where a writer is from the creation of its lock to its removal
Holding == {"fill", "work", "release", "unlink"}
\* A call that is over: with the result of work(), refused as busy, ended by an error
\* of the file system, or gone with its process
Over == {"done", "busy", "failed", "crashed"}

\* A lock was left at its path; a living writer did not touch its lock for LOCK_STALE_MS;
\* a lock moved aside by mistake could not be linked back.
Lapses == {"left", "late", "lost"}

TokenOf(f) == IF f \in filled THEN f ELSE NoToken
Goto(w, label) == pc' = [pc EXCEPT ![w] = label]

Init ==
    /\ pc = [w \in Writers |-> "open"]
    /\ lock \in {NoFile} \cup (IF StartsStale THEN {Leftover} ELSE {})
    /\ aside = [w \in Writers |-> NoFile]
    /\ filled = {lock} \ {NoFile}
    /\ old = filled
    /\ seen = [w \in Writers |-> NoToken]
    /\ lapses = {}

FaultyCreate(w) ==  \* opened with 'w', not 'wx'
    /\ pc[w] = "open"
    /\ lock' = w
    /\ Goto(w, "fill")
    /\ UNCHANGED <<aside, filled, old, seen, lapses>>

\* open(lock, 'wx')
Create(w) ==
    /\ pc[w] = "open"
    /\ IF lock = NoFile
       THEN lock' = w /\ Goto(w, "fill")
       ELSE UNCHANGED lock /\ Goto(w, "peek")
    /\ UNCHANGED <<aside, filled, old, seen, lapses>>

\* the token goes into the open handle, wherever the file has been moved to
Fill(w) ==
    /\ pc[w] = "fill"
    /\ filled' = filled \cup {w}
    /\ Goto(w, "work")
    /\ UNCHANGED <<lock, aside, old, seen, lapses>>

\* lockToken: null when there is no lock to look at
Peek(w) ==
    /\ pc[w] = "peek"
    /\ IF lock = NoFile
       THEN UNCHANGED seen /\ Goto(w, "wait")
       ELSE seen' = [seen EXCEPT ![w] = TokenOf(lock)] /\ Goto(w, "stat")
    /\ UNCHANGED <<lock, aside, filled, old, lapses>>

FaultyStat(w) ==  \* a lock released meanwhile is looked for again, not taken
    /\ pc[w] = "stat"
    /\ Goto(w, CASE lock = NoFile -> "stat"
                 [] lock \in old  -> "move"
                 [] OTHER         -> "wait")
    /\ UNCHANGED <<lock, aside, filled, old, seen, lapses>>

\* the age of whatever lock is there now
Stat(w) ==
    /\ pc[w] = "stat"
    /\ Goto(w, CASE lock = NoFile -> "open"
                 [] lock \in old  -> "move"
                 [] OTHER         -> "wait")
    /\ UNCHANGED <<lock, aside, filled, old, seen, lapses>>

\* rename(lock, stale)
Move(w) ==
    /\ pc[w] = "move"
    /\ IF lock = NoFile
       THEN UNCHANGED <<lock, aside>> /\ Goto(w, "open")
       ELSE /\ aside' = [aside EXCEPT ![w] = lock]
            /\ lock' = NoFile
            /\ Goto(w, "compare")
    /\ UNCHANGED <<filled, old, seen, lapses>>

Compare(w) ==
    /\ pc[w] = "compare"
    /\ Goto(w, IF TokenOf(aside[w]) # seen[w] THEN "putBack" ELSE "discard")
    /\ UNCHANGED <<lock, aside, filled, old, seen, lapses>>

\* link(stale, lock), in vain if somebody has created another one
PutBack(w) ==
    /\ pc[w] = "putBack"
    /\ lock' = IF lock = NoFile THEN aside[w] ELSE lock
    /\ Goto(w, "discard")
    /\ UNCHANGED <<aside, filled, old, seen, lapses>>

\* unlink(stale)
Discard(w) ==
    /\ pc[w] = "discard"
    /\ aside' = [aside EXCEPT ![w] = NoFile]
    /\ Goto(w, "open")
    /\ UNCHANGED <<lock, filled, old, seen, lapses>>

Retry(w) ==
    /\ pc[w] = "wait"
    /\ Goto(w, "open")
    /\ UNCHANGED <<lock, aside, filled, old, seen, lapses>>

\* E-ARCHIVO-OCUPADO once LOCK_WAIT_MS have gone by
GiveUp(w) ==
    /\ pc[w] = "wait"
    /\ Goto(w, "busy")
    /\ UNCHANGED <<lock, aside, filled, old, seen, lapses>>

FaultyFinish(w) ==  \* no finally: the lock is left behind
    /\ pc[w] = "work"
    /\ Goto(w, "done")
    /\ UNCHANGED <<lock, aside, filled, old, seen, lapses>>

\* work() ends, with a result or an exception
Finish(w) ==
    /\ pc[w] = "work"
    /\ Goto(w, "release")
    /\ UNCHANGED <<lock, aside, filled, old, seen, lapses>>

\* the finally block looks before it removes
CheckOwn(w) ==
    /\ pc[w] = "release"
    /\ Goto(w, IF lock # NoFile /\ TokenOf(lock) = w THEN "unlink" ELSE "done")
    /\ UNCHANGED <<lock, aside, filled, old, seen, lapses>>

\* unlink(lock): whatever is at that path by now
Unlink(w) ==
    /\ pc[w] = "unlink"
    /\ lock' = NoFile
    /\ Goto(w, "done")
    /\ UNCHANGED <<aside, filled, old, seen, lapses>>

FaultyAge(f) ==  \* nobody touches the lock during a long write
    /\ f = lock
    /\ f \in Files \ old
    /\ old' = old \cup {f}
    /\ UNCHANGED <<pc, lock, aside, filled, seen, lapses>>

\* A lock grows old once its writer has gone: a living holder touches it every
\* LOCK_REFRESH_MS, and it is never moved aside for as long as LOCK_STALE_MS.
Age(f) ==
    /\ f = lock
    /\ f \in Files \ old
    /\ pc[f] \in Over
    /\ old' = old \cup {f}
    /\ UNCHANGED <<pc, lock, aside, filled, seen, lapses>>

\* ... unless utimes fails, the timer comes late (the machine sleeps), or one of the
\* awaits before and after work(), which no heartbeat covers, takes as long.
AgeAlive(f) ==
    /\ f = lock
    /\ f \in Files \ old
    /\ pc[f] \in Holding
    /\ old' = old \cup {f}
    /\ lapses' = lapses \cup {"late"}
    /\ UNCHANGED <<pc, lock, aside, filled, seen>>

\* An error other than EEXIST of open, or other than ENOENT of a read, of stat or of
\* rename, ends the call; a file that was moved aside stays there.
Refused(w) ==
    /\ pc[w] \in {"open", "peek", "stat", "move", "compare"}
    /\ Goto(w, "failed")
    /\ UNCHANGED <<lock, aside, filled, old, seen, lapses>>

\* writeFile(token) or close() fails: the error leaves withLilaLock before the try whose
\* finally block removes the lock, which stays, without its token or with it.
FillFails(w) ==
    /\ pc[w] = "fill"
    /\ filled' \in {filled, filled \cup {w}}
    /\ lapses' = lapses \cup {"left"}
    /\ Goto(w, "failed")
    /\ UNCHANGED <<lock, aside, old, seen>>

\* link fails although nobody has created a lock, as where there are no hard links
LinkFails(w) ==
    /\ pc[w] = "putBack"
    /\ lock = NoFile
    /\ lapses' = lapses \cup {"lost"}
    /\ Goto(w, "discard")
    /\ UNCHANGED <<lock, aside, filled, old, seen>>

\* unlink(stale) fails: the next take-over of this call renames over that file
DiscardFails(w) ==
    /\ pc[w] = "discard"
    /\ Goto(w, "open")
    /\ UNCHANGED <<lock, aside, filled, old, seen, lapses>>

\* lockToken(lock) or unlink(lock) of the finally block fails, and nobody is told
ReleaseFails(w) ==
    /\ pc[w] \in {"release", "unlink"}
    /\ lapses' = lapses \cup {"left"}
    /\ Goto(w, "done")
    /\ UNCHANGED <<lock, aside, filled, old, seen>>

Crash(w) ==
    /\ pc[w] \notin Over
    /\ Cardinality({v \in Writers : pc[v] = "crashed"}) < MaxCrashes
    /\ Goto(w, "crashed")
    /\ UNCHANGED <<lock, aside, filled, old, seen, lapses>>

Step(w) ==
    \/ Create(w) \/ Fill(w) \/ Peek(w) \/ Stat(w) \/ Move(w) \/ Compare(w)
    \/ PutBack(w) \/ Discard(w) \/ Retry(w) \/ GiveUp(w)
    \/ Finish(w) \/ CheckOwn(w) \/ Unlink(w)

Fault(w) ==
    Refused(w) \/ FillFails(w) \/ LinkFails(w) \/ DiscardFails(w) \/ ReleaseFails(w) \/ Crash(w)

Next ==
    \/ \E w \in Writers : Step(w) \/ Fault(w)
    \/ \E f \in Files : Age(f) \/ AgeAlive(f)

Spec == Init /\ [][Next]_vars

-----------------------------------------------------------------------------

TypeOK ==
    /\ pc \in [Writers -> PCs]
    /\ lock \in Files \cup {NoFile}
    /\ aside \in [Writers -> Files \cup {NoFile}]
    /\ filled \subseteq Files
    /\ old \subseteq Files
    /\ seen \in [Writers -> Files \cup {NoToken}]
    /\ lapses \subseteq Lapses

\* "Two writers of the same .lila never interleave their check-then-write,
\* whatever process they run in" (lilaFile.ts:152).
MutualExclusion ==
    \A v, w \in Writers : pc[v] = "work" /\ pc[w] = "work" => v = w

\* The least that comment promises: writers do not interleave where every heartbeat comes
\* in time and the file system does not fail them.
WritersNeverInterleave == lapses = {} => MutualExclusion

\* No lock file has been left to itself: no process died, none was left at its path by a
\* call that went wrong, and whoever holds one has touched it in time.
NothingLeftOver ==
    /\ Leftover \notin filled
    /\ \A w \in Writers : pc[w] # "crashed"
    /\ lapses \cap {"left", "late"} = {}

\* "A writer only ever removes a lock whose token it has just read, never one
\* somebody else took in between" (lilaFile.ts:159): a lock that is there for a
\* living holder stays there until that holder removes it, unless there has been a
\* lock to take over.
LivingLockStays ==
    [][NothingLeftOver => \A w \in Writers : pc[w] = "work" /\ lock = w => lock' = w]_vars

\* Nobody is told that another program is saving the file, or goes on waiting, for the
\* sake of a lock whose call is over.  The locks that outlive their calls are those of a
\* crash, of a token that could not be written and of a release that failed (and those a
\* take-over of one of these puts back); no other error of the file system leaves one.
NoOrphanLock ==
    NothingLeftOver => \A w \in Writers : pc[w] \in Over => lock # w

\* The lock implements the mutex: it is held from the moment its token is written to the
\* end of the work.  What is held while a living lock is late, or lost in the take-over,
\* is given up.
Trusted == lapses \cap {"late", "lost"} = {}
Mutex == INSTANCE FileMutex WITH
    Nobody <- NoFile,
    holder <- IF Trusted /\ \E w \in Writers : pc[w] = "work"
              THEN CHOOSE w \in Writers : pc[w] = "work" ELSE NoFile
ImplementsMutex == Mutex!Spec

\* Every call goes on unless its process dies, work() ends, and a lock nobody
\* touches grows old.
Fairness ==
    /\ \A w \in Writers : WF_vars(Step(w)) /\ SF_vars(GiveUp(w))
    /\ \A f \in Files : WF_vars(Age(f))

FairSpec == Spec /\ Fairness

\* Every call comes back: it worked, it was told that the file is busy, or what failed.
EveryCallReturns == <>\A w \in Writers : pc[w] \in Over
=============================================================================
