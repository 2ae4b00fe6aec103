---------------------------- MODULE SimulationRuns ----------------------------
(*****************************************************************************)
(* Running scenarios in the web application (apps/web/src/App.tsx): Run and   *)
(* Cancel, the edits that make what is running stale, the reparse a Run waits *)
(* for, the sides of a comparison that are simulated by themselves, and the   *)
(* worker each simulation runs in (apps/web/src/simulationClient.ts).         *)
(*                                                                            *)
(* What is on the canvas is known by the project and the revision of its      *)
(* model; a scenario by the project, its name and its revision.               *)
(*****************************************************************************)
EXTENDS Naturals, FiniteSets

CONSTANTS
    Bases,         \* the scenarios a project opens with, none of which extends another
    First,         \* the one it opens on, its base scenario (baseId)
    Copies,        \* the names of the duplicates that may be made
    None,
    Calls,         \* the calls of simular that may be under way at once
    OpenRevisions, \* the revisions an opened project may come with
    MaxEvents      \* bound on what the user does, and on the seedings

Names == Bases \cup Copies

RunsAssumption ==
    /\ First \in Bases /\ Bases \cap Copies = {} /\ IsFiniteSet(Copies) /\ None \notin Names /\ None \notin Calls
    /\ Calls \subseteq Nat
    /\ OpenRevisions \subseteq Nat /\ MaxEvents \in Nat

VARIABLES
    \* the project
    project,   \* which project is open
    revision,  \* the revision of its model (revisionRef)
    scenarios, \* the names of its scenarios
    srev,      \* the revision of each (scenarioRevisions)
    active,    \* escenarioId
    runs,      \* the runs it holds
    opening,   \* is another project being put on the canvas?
    parent,    \* the scenario each duplicate extends
    origin,    \* the one it was made from, while it has not run
    \* the reparse
    parseDue,  \* is a parse of the present revision scheduled or under way?
    irDue,     \* has setIr been called, and its effect not run?
    settling,  \* reparseando
    runWaits,  \* ejecutarPendiente
    \* the simulations
    call,      \* the calls of simular under way
    flying,    \* enVuelo: the call whose run is wanted
    side,      \* ladoEnVuelo: the side of the comparison it is for
    sim,       \* what the screen says: "idle", "running" or "error"
    \* the comparison
    compare,   \* its two scenarios, or None
    paused,    \* the side that was cancelled
    failed,    \* the side that failed
    attempts,  \* the sides tried, each with the revisions it was tried at
    effectDue, \* has a dependency of the comparison's effect changed since it ran?
    \* bounds and history
    events,    \* what the user has done so far
    overtaken  \* was a run begun while the project that then replaced it was being opened?

document == <<project, revision, scenarios, srev, active, opening, parent, origin>>
parsing == <<parseDue, irDue, settling, runWaits>>
flight == <<call, flying, side, sim>>
comparing == <<compare, paused, failed, attempts>>
vars == <<document, runs, parsing, flight, comparing, effectDue, events, overtaken>>

Idle == [at |-> "none"]
Canvas == <<project, revision>>
Key(s) == <<s, revision, srev[s]>>

\* isCurrentRun
Current(run) == run.revision = revision /\ run.srev = srev[run.scenario]
HasRun(s) == \E run \in runs : run.scenario = s /\ Current(run)

\* a scenario and those that extend it, directly or through another
Family(s) ==
    LET reach[n \in 0 .. Cardinality(Copies)] ==
            IF n = 0 THEN {s}
            ELSE reach[n - 1] \cup {t \in Copies : parent[t] \in reach[n - 1]}
    IN reach[Cardinality(Copies)]

\* faltaComparar: the first side without a current run
Missing ==
    CASE compare = None -> None
      [] compare # None /\ ~HasRun(compare.ref) -> compare.ref
      [] compare # None /\ HasRun(compare.ref) /\ ~HasRun(compare.other) -> compare.other
      [] OTHER -> None
FaultyDeps == <<Missing, settling, revision, srev>>  \* not what Cancel and Retry change
Deps == <<Missing, paused, settling, sim, revision, srev>>

Init ==
    /\ project = 0 /\ revision = 0
    /\ scenarios = Bases /\ srev = [s \in Names |-> 0] /\ active = First
    /\ runs = {} /\ opening = FALSE
    /\ parent = [s \in Copies |-> None] /\ origin = [s \in Copies |-> None]
    /\ parseDue = FALSE /\ irDue = FALSE /\ settling = FALSE /\ runWaits = FALSE
    /\ call = [i \in Calls |-> Idle] /\ flying = None /\ side = None /\ sim = "idle"
    /\ compare = None /\ paused = None /\ failed = None /\ attempts = {}
    /\ effectDue = FALSE
    /\ events = 0 /\ overtaken = FALSE

-----------------------------------------------------------------------------
(* cancelarCorrida and simular.                                               *)

Without(s) == {key \in attempts : key[1] # s}

\* the signal of the call in flight is aborted: its worker is terminated, and what
\* it was to simulate no longer matters
Aborting == [i \in Calls |-> IF i = flying THEN [call[i] EXCEPT !.aborted = TRUE,
                                 !.revision = 0, !.srev = 0, !.project = 0, !.early = FALSE, !.xml = <<0, 0>>]
                             ELSE call[i]]

CancelRun ==
    /\ flying' = None /\ side' = None /\ sim' = "idle"
    /\ call' = Aborting
    /\ IF side # None /\ flying # None
       THEN paused' = side /\ attempts' = Without(side)
       ELSE UNCHANGED <<paused, attempts>>

\* simular goes on at once when no reparse is due: what was running is cancelled
StartRun(s, isSide) ==
    /\ \E i \in Calls :
        /\ call[i] = Idle /\ \A j \in Calls : call[j] = Idle => i <= j
        /\ call' = [Aborting EXCEPT ![i] =
               [at |-> "prepare", scenario |-> s, isSide |-> isSide, aborted |-> FALSE,
                revision |-> revision, srev |-> srev[s], project |-> project, early |-> opening, xml |-> <<0, 0>>]]
        /\ flying' = i
    /\ side' = IF isSide THEN s ELSE None
    /\ sim' = "running"
    /\ paused' = IF isSide THEN None ELSE IF side # None /\ flying # None THEN side ELSE paused
    /\ failed' = IF isSide THEN None ELSE failed
    /\ attempts' = (IF side # None /\ flying # None THEN Without(side) ELSE attempts)
                       \cup (IF isSide THEN {Key(s)} ELSE {})

\* Run; an unsettled edit makes it wait
PressRun ==
    /\ IF settling
       THEN runWaits' = TRUE /\ UNCHANGED <<flight, paused, failed, attempts>>
       ELSE StartRun(active, FALSE) /\ UNCHANGED runWaits
    /\ UNCHANGED <<document, runs, parseDue, irDue, settling, compare, overtaken>>

PressCancel ==
    /\ sim = "running"
    /\ CancelRun
    /\ UNCHANGED <<document, runs, parsing, compare, failed, overtaken>>

\* the effect of a Run that waited
WaitingRun ==
    /\ runWaits /\ ~settling
    /\ runWaits' = FALSE
    /\ StartRun(active, FALSE)
    /\ UNCHANGED <<document, runs, parseDue, irDue, settling, compare,
                   events, overtaken>>

\* the result of a call is still wanted
Wanted(i) == ~call[i].aborted /\ flying = i

\* the finally of simular; ok: it stored its run, or a side has failed
End(i, ok) ==
    /\ call' = [call EXCEPT ![i] = Idle]
    /\ IF flying = i THEN flying' = None /\ side' = None ELSE UNCHANGED <<flying, side>>
    /\ IF call[i].isSide /\ (call[i].aborted \/ ~ok)
       THEN paused' = call[i].scenario /\ attempts' = Without(call[i].scenario)
       ELSE UNCHANGED <<paused, attempts>>

\* the canvas has been exported and parsed with the scenario: the simulation
\* starts in a worker of its own
Prepared(i) ==
    /\ call[i].at = "prepare"
    /\ IF Wanted(i)
       THEN /\ call' = [call EXCEPT ![i].at = "worker", ![i].xml = Canvas]
            /\ UNCHANGED <<flying, side, paused, attempts>>
       ELSE End(i, FALSE)
    /\ UNCHANGED <<document, runs, parsing, sim, compare, failed, events, overtaken>>

\* an aborted signal terminates the worker
Terminated(i) ==
    /\ call[i].at = "worker" /\ call[i].aborted
    /\ End(i, FALSE)
    /\ UNCHANGED <<document, runs, parsing, sim, compare, failed, events, overtaken>>

\* the worker sends its result, and what it ran on is still there: the run is stored
Stored(i) ==
    /\ call[i].at = "worker" /\ Wanted(i) /\ call[i].revision = revision
    /\ runs' = runs \cup {[scenario |-> call[i].scenario, revision |-> call[i].revision,
                           srev |-> call[i].srev, project |-> call[i].project, xml |-> call[i].xml]}
    /\ irDue' = TRUE
    /\ sim' = "idle"
    /\ End(i, TRUE)
    /\ IF ~call[i].isSide /\ call[i].scenario \in Copies /\ origin[call[i].scenario] \in scenarios
       THEN /\ origin' = [origin EXCEPT ![call[i].scenario] = None]
            /\ compare' = IF compare # None THEN compare
                          ELSE [ref |-> origin[call[i].scenario], other |-> call[i].scenario]
       ELSE UNCHANGED <<origin, compare>>
    /\ UNCHANGED <<project, revision, scenarios, srev, active, opening, parent, parseDue, settling,
                   runWaits, failed, events, overtaken>>

\* ... or another revision is: the result is dropped
Outdated(i) ==
    /\ call[i].at = "worker" /\ Wanted(i) /\ call[i].revision # revision
    /\ End(i, FALSE)
    /\ UNCHANGED <<document, runs, parsing, sim, compare, failed, events, overtaken>>

\* the scenario or the model cannot be simulated
RunFails(i) ==
    /\ call[i].at \in {"prepare", "worker"} /\ Wanted(i)
    /\ sim' = IF call[i].isSide THEN "idle" ELSE "error"
    /\ failed' = IF call[i].isSide THEN call[i].scenario ELSE failed
    /\ End(i, call[i].isSide)
    /\ UNCHANGED <<document, runs, parsing, compare, events, overtaken>>

-----------------------------------------------------------------------------
(* The comparison.                                                            *)

\* its effect runs when one of its dependencies has changed: a side without a
\* current run is simulated, once for each revision
CompareEffect ==
    /\ effectDue
    /\ IF Missing \notin {None, paused} /\ ~settling /\ sim # "running" /\ Key(Missing) \notin attempts
       THEN StartRun(Missing, TRUE)
       ELSE UNCHANGED <<flight, paused, failed, attempts>>
    /\ UNCHANGED <<document, runs, parsing, compare, events, overtaken>>
    /\ effectDue' = (Deps' # Deps)

\* the reference when s is compared with the active scenario: the one the other
\* descends from, else the base scenario, else the active one
Reference(s) ==
    IF active \in Family(s) \/ (s = First /\ s \notin Family(active)) THEN s ELSE active

\* compararCon, from Results or from the card of a side
CompareWith(s) ==
    /\ s \in scenarios
    /\ failed' = None /\ paused' = None /\ attempts' = {}
    /\ IF compare = None
       THEN /\ s # active
            /\ compare' = [ref |-> Reference(s),
                           other |-> IF Reference(s) = s THEN active ELSE s]
       ELSE s \notin {compare.ref, compare.other} /\ compare' = [compare EXCEPT !.other = s]
    /\ UNCHANGED <<document, runs, parsing, flight, overtaken>>

Retry ==
    /\ compare # None /\ paused = Missing /\ paused # None /\ sim # "running"
    /\ paused' = None
    /\ UNCHANGED <<document, runs, parsing, flight, compare, failed, attempts,
                   overtaken>>

CloseComparison ==
    /\ compare # None
    /\ compare' = None
    /\ UNCHANGED <<document, runs, parsing, flight, paused, failed, attempts,
                   overtaken>>

-----------------------------------------------------------------------------
(* Edits, the reparse, and other projects.                                    *)

\* commandStack.changed
EditModel ==
    /\ ~opening
    /\ revision' = revision + 1
    /\ settling' = TRUE /\ parseDue' = TRUE
    /\ CancelRun
    /\ UNCHANGED <<project, scenarios, srev, active, opening, parent, origin, runs, irDue, runWaits,
                   compare, failed, overtaken>>

\* cambiarEscenario: the scenario and those that extend it
ChangeScenario(s) ==
    /\ srev' = [t \in Names |-> IF t \in Family(s) THEN srev[t] + 1 ELSE srev[t]]
    /\ CancelRun

\* an element new on the canvas gets its seed in every base scenario, or in those
\* that have none
SeedScenarios ==
    \E seeded \in (SUBSET Bases) \ {{}} :
        /\ srev' = [t \in Names |-> IF \E s \in seeded : t \in Family(s) THEN srev[t] + 1
                                   ELSE srev[t]]
        /\ CancelRun

EditScenario(s) ==
    /\ s \in scenarios
    /\ ChangeScenario(s)
    /\ UNCHANGED <<project, revision, scenarios, active, opening, parent, origin, runs, parsing,
                   compare, failed, overtaken>>

\* elegirEscenario
ChooseScenario(s) ==
    /\ s \in scenarios \ {active}
    /\ active' = s
    /\ CancelRun
    /\ UNCHANGED <<project, revision, scenarios, srev, opening, parent, origin, runs, parsing,
                   compare, failed, overtaken>>

\* duplicarActivo
Duplicate(s) ==
    /\ s \in Copies \ scenarios
    /\ scenarios' = scenarios \cup {s}
    /\ srev' = [srev EXCEPT ![s] = @ + 1]
    /\ active' = s
    /\ parent' = [parent EXCEPT ![s] = active] /\ origin' = [origin EXCEPT ![s] = active]
    /\ CancelRun
    /\ UNCHANGED <<project, revision, opening, runs, parsing, compare, failed,
                   overtaken>>

\* the deferred parse of the present revision sets the IR
Parsed ==
    /\ parseDue
    /\ parseDue' = FALSE /\ irDue' = TRUE
    /\ UNCHANGED <<document, runs, settling, runWaits, flight, comparing, events, overtaken>>

FaultyIrLands ==  \* the edit that seeds has not settled
    /\ irDue
    /\ irDue' = FALSE
    /\ \/ /\ revision > 0 /\ events < MaxEvents
          /\ events' = events + 1
          /\ SeedScenarios
          /\ UNCHANGED settling
       \/ settling' = FALSE /\ UNCHANGED <<events, srev, flight, paused, attempts>>
    /\ UNCHANGED <<project, revision, scenarios, active, opening, parent, origin, runs, parseDue, runWaits,
                   compare, failed, overtaken>>

\* the effect of a new IR: new elements are seeded in the base scenarios
IrLands ==
    /\ irDue
    /\ irDue' = FALSE /\ settling' = FALSE
    /\ \/ /\ revision > 0 /\ events < MaxEvents
          /\ events' = events + 1
          /\ SeedScenarios
       \/ UNCHANGED <<events, srev, flight, paused, attempts>>
    /\ UNCHANGED <<project, revision, scenarios, active, opening, parent, origin, runs, parseDue, runWaits,
                   compare, failed, overtaken>>

FaultyStartOpen ==  \* the run in flight goes on
    /\ ~opening
    /\ opening' = TRUE
    /\ UNCHANGED <<project, revision, scenarios, srev, active, parent, origin, runs, parsing,
                   flight, comparing, overtaken>>

\* activate: the run in flight is cancelled, then the canvas is opened
StartOpen ==
    /\ ~opening
    /\ opening' = TRUE
    /\ CancelRun
    /\ UNCHANGED <<project, revision, scenarios, srev, active, parent, origin, runs, parsing,
                   compare, failed, overtaken>>

EndOpen(r) ==
    /\ opening /\ opening' = FALSE
    /\ project' = project + 1 /\ revision' = r
    /\ scenarios' = Bases /\ srev' = [s \in Names |-> 0] /\ active' = First
    /\ parent' = [s \in Copies |-> None] /\ origin' = [s \in Copies |-> None]
    /\ runs' = {} /\ compare' = None /\ failed' = None
    /\ irDue' = TRUE /\ parseDue' = TRUE
    /\ overtaken' = (overtaken \/ (flying # None /\ call[flying].early))
    /\ UNCHANGED <<settling, runWaits, flight, paused, attempts, events>>

\* ... unless the canvas answers that it cannot be opened: what was open stays
OpenRefused ==
    /\ opening /\ opening' = FALSE
    /\ UNCHANGED <<project, revision, scenarios, srev, active, parent, origin, runs, parsing,
                   flight, comparing, events, overtaken>>

-----------------------------------------------------------------------------

\* React renders: a dependency of the comparison's effect may have changed
Rendered == effectDue' = (effectDue \/ Deps' # Deps)

CallStep(i) ==
    /\ Prepared(i) \/ Terminated(i) \/ Stored(i) \/ Outdated(i) \/ RunFails(i)
    /\ Rendered
Parse == (Parsed \/ IrLands) /\ Rendered
Opened == ((\E r \in OpenRevisions : EndOpen(r)) \/ OpenRefused) /\ Rendered

\* React runs the effects of a render before it handles the next event
Quiet == ~effectDue /\ ~(runWaits /\ ~settling)

User ==
    /\ Quiet /\ events < MaxEvents
    /\ events' = events + 1
    /\ \/ PressRun \/ PressCancel \/ Retry \/ CloseComparison
       \/ \E s \in scenarios : CompareWith(s) \/ EditScenario(s) \/ ChooseScenario(s)
       \/ EditModel \/ \E s \in Copies : Duplicate(s)
       \/ StartOpen
    /\ Rendered

Next ==
    \/ User
    \/ WaitingRun /\ Rendered
    \/ CompareEffect
    \/ \E i \in Calls : CallStep(i)
    \/ Parse \/ Opened

\* parses, exports, workers and effects end; the buttons are up to the user
Fairness ==
    /\ WF_vars(WaitingRun /\ Rendered) /\ WF_vars(CompareEffect)
    /\ WF_vars(Parse) /\ WF_vars(Opened)
    /\ \A i \in Calls : WF_vars(CallStep(i))

Spec == Init /\ [][Next]_vars
FairSpec == Spec /\ Fairness

-----------------------------------------------------------------------------

TypeOK ==
    /\ scenarios \subseteq Names /\ active \in scenarios
    /\ flying \in Calls \cup {None} /\ side \in Names \cup {None}
    /\ sim \in {"idle", "running", "error"}
    /\ {paused, failed} \subseteq Names \cup {None}
    /\ {opening, parseDue, irDue, settling, runWaits, overtaken} \subseteq BOOLEAN

\* A run that counts as current was simulated on what is on the canvas, with the
\* scenario as it is: an edit, another scenario or another project never leaves
\* the result of the one before, unless it began while the canvas was being
\* opened.  (simular, isCurrentRun)
CurrentRunsAreTrue ==
    \A run \in runs : Current(run) /\ ~overtaken =>
        run.xml = Canvas /\ run.project = project

\* The screen says that a run is under way exactly while one is that can still
\* store its result, and no worker is left running for a run nobody waits for.
\* (cancelarCorrida, runInWorker)
RunningIsTrue ==
    ~overtaken => /\ sim = "running" <=> flying # None
                  /\ \A i \in Calls : call[i].at = "worker" => call[i].aborted \/ flying = i

\* What is shown of the runs is true.
ScreenIsTrue == CurrentRunsAreTrue /\ RunningIsTrue

\* Once the user leaves it alone nothing goes on for ever: an edit settles, the
\* Run that waited for it is started, and every run ends, the runs of the sides
\* of the comparison included.  (ejecutarPendiente, simular)
RunsGoOn == []<>(~settling /\ ~runWaits /\ flying = None)

\* A side of the comparison that has no run and has not been tried as it is now
\* is tried, once what keeps it waiting is over, or has its button to be tried
\* again; no change that the effect would have to notice is missed.
\* (the effect of faltaComparar)
Untried == Missing \notin {None, paused} /\ Key(Missing) \notin attempts
EverySideIsTried == []<>(~Untried)

\* A side of the comparison is not left on "Simulating..." forever: it gets a
\* run, an error or the button that tries again, or the comparison is closed.
\* (simular, "must not leave Simulating on screen forever")
Waiting == Missing # None /\ failed = None /\ paused # Missing
ComparisonNeverHangs == Waiting ~> ~Waiting
=============================================================================
