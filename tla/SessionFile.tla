------------------------------ MODULE SessionFile ------------------------------
(*****************************************************************************)
(* estado.json, what the desktop application remembers from one session to    *)
(* the next: its reader, its writer and its queue                             *)
(* (apps/desktop/src/sessionState.ts), the changes that write it and the quit *)
(* that waits for it (apps/desktop/src/main.ts), over several sessions that   *)
(* may die at any moment.                                                     *)
(*                                                                            *)
(* A state is the number of the change that made it.  A temporary file is     *)
(* named by the state that is written in it.                                  *)
(*****************************************************************************)
EXTENDS Naturals, Sequences

CONSTANTS
    MaxChanges, \* bound on the changes of the state, over all sessions
    MaxLaunches \* bound on the sessions

SessionFileAssumption == MaxChanges \in Nat /\ MaxLaunches \in Nat

VARIABLES
    file,     \* the state estado.json holds; 0 is no file
    temps,    \* the states whose temporary file is on disk
    state,    \* sessionState, in memory
    made,     \* changes made so far
    queue,    \* the writes that have not begun, oldest first
    inFlight, \* the writes that have begun and have not settled
    tail,     \* the last write queued
    seen,     \* the write idle() waits for
    boundsTimer, \* is the timer of a moved window armed?
    phase,    \* "down", "up", or "quitting" from will-quit on
    launches, \* sessions so far
    \* history
    failed    \* the last write that settled with an error

disk == <<file, temps>>
writer == <<queue, inFlight, tail>>
vars == <<disk, state, made, writer, seen, boundsTimer, phase, launches, failed>>

Init ==
    /\ file = 0 /\ temps = {}
    /\ state = 0 /\ made = 0
    /\ queue = <<>> /\ inFlight = {} /\ tail = 0 /\ seen = 0
    /\ boundsTimer = FALSE
    /\ phase = "down" /\ launches = 0
    /\ failed = 0

\* sweepOrphanTemps: what dead sessions left
Swept == {}

\* readSessionState, before this session has a write of its own
Launch ==
    /\ phase = "down" /\ launches < MaxLaunches
    /\ phase' = "up"
    /\ launches' = launches + 1
    /\ temps' = Swept
    /\ state' = file
    /\ UNCHANGED <<file, made, writer, seen, boundsTimer, failed>>

\* a new state, and its write at the end of the queue
Persist ==
    /\ made < MaxChanges
    /\ made' = made + 1
    /\ state' = made + 1
    /\ queue' = Append(queue, made + 1)
    /\ tail' = made + 1

\* a setting, or the project just opened or saved; a save that ends after the
\* window has closed still records its project
Change ==
    /\ phase # "down"
    /\ Persist
    /\ UNCHANGED <<disk, inFlight, seen, boundsTimer, phase, launches, failed>>

\* the window moves or is resized
MoveWindow ==
    /\ phase = "up"
    /\ boundsTimer' = TRUE
    /\ UNCHANGED <<disk, state, made, writer, seen, phase, launches, failed>>

SaveBounds ==
    /\ phase = "up" /\ boundsTimer
    /\ boundsTimer' = FALSE
    /\ Persist
    /\ UNCHANGED <<disk, inFlight, seen, phase, launches, failed>>

\* the window closes: its bounds are queued, and will-quit waits for the queue
CloseWindow ==
    /\ phase = "up"
    /\ boundsTimer' = FALSE
    /\ Persist
    /\ phase' = "quitting"
    /\ seen' = made + 1
    /\ UNCHANGED <<disk, inFlight, launches, failed>>

FaultyMayBegin == TRUE  \* writes are not put in a queue
\* a write begins once the one before it has settled
MayBegin == inFlight = {}

BeginWrite ==
    /\ phase # "down" /\ queue # <<>>
    /\ MayBegin
    /\ inFlight' = inFlight \cup {Head(queue)}
    /\ temps' = temps \cup {Head(queue)}
    /\ queue' = Tail(queue)
    /\ UNCHANGED <<file, state, made, tail, seen, boundsTimer, phase, launches, failed>>

\* the rename; a write that never settles is one that never takes this step
WriteLands(s) ==
    /\ phase # "down" /\ s \in inFlight
    /\ inFlight' = inFlight \ {s}
    /\ temps' = temps \ {s}
    /\ file' = s
    /\ UNCHANGED <<state, made, queue, tail, seen, boundsTimer, phase, launches, failed>>

\* an error before the rename; the temporary file is deleted
WriteFails(s) ==
    /\ phase # "down" /\ s \in inFlight
    /\ inFlight' = inFlight \ {s}
    /\ temps' = temps \ {s}
    /\ failed' = s
    /\ UNCHANGED <<file, state, made, queue, tail, seen, boundsTimer, phase, launches>>

\* the promise of a write is settled once nothing up to it is left
Settled(s) == \A t \in inFlight \cup {queue[i] : i \in DOMAIN queue} : t > s

FaultyDrained == TRUE  \* what is queued while it waits is not looked at
\* idle(): the write waited for has settled
Drained == seen = tail

\* ... and another was queued meanwhile
WaitOn ==
    /\ phase = "quitting" /\ Settled(seen) /\ ~Drained
    /\ seen' = tail
    /\ UNCHANGED <<disk, state, made, writer, boundsTimer, phase, launches, failed>>

Die ==
    /\ phase' = "down"
    /\ queue' = <<>> /\ inFlight' = {} /\ seen' = 0 /\ tail' = 0
    /\ boundsTimer' = FALSE
    /\ UNCHANGED <<disk, state, made, launches, failed>>

\* ... or none was: the application quits
QuitDrained == phase = "quitting" /\ Settled(seen) /\ Drained /\ Die

\* 3 seconds pass
QuitLimit == phase = "quitting" /\ Die

\* the process is killed or the power goes
Crash == phase # "down" /\ Die

Next ==
    \/ Launch \/ Change \/ MoveWindow \/ SaveBounds \/ CloseWindow
    \/ BeginWrite \/ \E s \in inFlight : WriteLands(s) \/ WriteFails(s)
    \/ WaitOn \/ QuitDrained \/ QuitLimit \/ Crash

\* timers fire and promises are answered; a write may never settle
Fairness == WF_vars(WaitOn) /\ WF_vars(QuitDrained) /\ WF_vars(QuitLimit)

Spec == Init /\ [][Next]_vars
FairSpec == Spec /\ Fairness

-----------------------------------------------------------------------------

TypeOK ==
    /\ file \in Nat /\ state \in Nat /\ made \in Nat /\ failed \in Nat
    /\ temps \subseteq Nat /\ inFlight \subseteq Nat /\ queue \in Seq(Nat)
    /\ tail \in Nat /\ seen \in Nat /\ boundsTimer \in BOOLEAN
    /\ phase \in {"down", "up", "quitting"} /\ launches \in Nat

\* The file on disk never goes back to an older state, whatever fails, stalls
\* or dies: a write that was overtaken does not land after the newer one.
\* (createSessionStateWriter)
FileNeverGoesBack == [][file' >= file]_vars

\* The only temporary files next to it are those of writes in flight: what a
\* dead session left is gone once another has begun.  (sweepOrphanTemps)
NoOrphans == phase # "down" => temps = inFlight

\* Nothing stale comes to be on disk.
NothingStaleOnDisk == FileNeverGoesBack /\ []NoOrphans

\* A quit that waited for the queue leaves the last state on disk, also the one
\* changed while it waited, unless that very write failed.  (idle, will-quit)
Quits == phase = "quitting" /\ phase' = "down"
QuitLosesNothing ==
    [][Quits /\ Settled(seen) /\ Drained => file = state \/ failed = state]_vars

\* A quit ends, even when a write never settles.  (will-quit)
QuitEnds == []<>(phase # "quitting")

QuitIsOrderly == QuitLosesNothing /\ QuitEnds
=============================================================================
