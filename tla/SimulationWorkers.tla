-------------------------- MODULE SimulationWorkers --------------------------
(*****************************************************************************)
(* Simulations in workers: those of the tools of the MCP server and those of  *)
(* the web application.  They share no state: a behaviour is of one of the    *)
(* two while the other stands still.                                          *)
(*****************************************************************************)
EXTENDS SimulationTool

CONSTANTS Bases, First, Copies, None, WebCalls, OpenRevisions, MaxEvents  \* of SimulationRuns

VARIABLE atWork

VARIABLES project, revision, scenarios, srev, active, runs, opening, parent, origin, parseDue, irDue,
          settling, runWaits, call, flying, side, sim, compare, paused, failed, attempts,
          effectDue, events, overtaken
webVars == <<project, revision, scenarios, srev, active, runs, opening, parent, origin, parseDue, irDue,
             settling, runWaits, call, flying, side, sim, compare, paused, failed, attempts,
             effectDue, events, overtaken>>

Web == INSTANCE SimulationRuns WITH Calls <- WebCalls

ASSUME WebAssumption == Web!RunsAssumption

-----------------------------------------------------------------------------

BothInit == atWork \in {"web", "tool"} /\ Init /\ Web!Init

BothNext ==
    \/ atWork = "tool" /\ Next /\ UNCHANGED <<atWork, webVars>>
    \/ atWork = "web" /\ Web!Next /\ UNCHANGED <<atWork, vars>>

BothFairness == (atWork = "tool" /\ Fairness) \/ (atWork = "web" /\ Web!Fairness)

BothSpec == BothInit /\ [][BothNext]_<<atWork, vars, webVars>> /\ BothFairness

ScreenIsTrue == Web!ScreenIsTrue
RunsGoOn == Web!RunsGoOn
EverySideIsTried == Web!EverySideIsTried
=============================================================================
