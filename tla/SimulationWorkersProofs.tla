------------------------ MODULE SimulationWorkersProofs ------------------------
(* Theorems about the simulations in workers: those of the tools of the MCP server *)
(* (SimulationTool), for any calls, any number of simulations in each and any      *)
(* number of descriptors; and those of the web application (SimulationRuns), for   *)
(* any scenarios, any number of calls under way and of acts of the user.           *)
EXTENDS SimulationWorkers, TLAPS

-----------------------------------------------------------------------------
(* The tools of the MCP server.                                               *)

\* What is kept of a call only ever comes from a worker that has written its last row
\* into the file the call staged, through a descriptor nobody else has got since:
\*  - a worker that still works has sent nothing, and its call waits for it; none
\*    has begun before the call has;
\*  - at most one message waits, and none once the call has gone on;
\*  - a call with a log holds its descriptor until it has ended;
\*  - its file has been in no other hands, and holds all the rows from the moment the
\*    result is sent to the moment it is published.
Working(c) ==
    /\ worker[c] = "busy" => stage[c] = "simulating" /\ inbox[c] = "none"
    /\ stage[c] = "idle" => left[c] = Simulations[c]
OneMessage(c) ==
    /\ stage[c] = "simulating" \/ cancelling[c] \/ inbox[c] = "none"
    /\ stage[c] # "simulating" => ~cancelling[c] \/ Ended(c)
Holding(c) ==
    /\ c \in WithLog /\ stage[c] \in {"simulating", "simulated", "saving"} =>
           descriptor[c] \in Descriptors /\ holder[descriptor[c]] = c
    /\ c \notin WithLog \/ stage[c] = "idle" \/ Ended(c) =>
           temp[c] = "absent" /\ \A d \in Descriptors : holder[d] # c
WholeLog(c) ==
    /\ temp[c] # "mixed"
    /\ c \in WithLog /\ \/ stage[c] \in {"simulated", "saving"}
                        \/ stage[c] = "simulating" /\ inbox[c] = "result"
           => temp[c] = "complete"
    /\ stage[c] = "saving" => saved[c] = {"saveTo"} /\ c \in Runs
    /\ published[c] # "absent" =>
           published[c] = "complete" /\ stage[c] = "answered" /\ saved[c] = {"saveTo", "run"}

Inv == TypeOK /\ \A c \in Calls : Working(c) /\ OneMessage(c) /\ Holding(c) /\ WholeLog(c)

\* The initial state satisfies the invariant.
LEMMA Starts == ASSUME Init PROVE Inv
  BY ToolAssumption DEF Init, Inv, TypeOK, Working, OneMessage, Holding, WholeLog, Ended,
         Stages, Contents, Descriptors

\* Every step of a call keeps the state of the right types ...
LEMMA Typed ==
    ASSUME Inv, [Next]_vars
    PROVE  TypeOK'
  <1> USE DEF TypeOK, Stages, Contents, Descriptors, files, handler
  <1>1. ASSUME NEW c \in Calls, Begin(c) PROVE TypeOK'
    <2>1. left[c] \in Nat \ {0} /\ left' = [left EXCEPT ![c] = @ - 1]
      BY <1>1, ToolAssumption DEF Inv, Working, Begin, StartWorker
    <2>2. left' \in [Calls -> Nat]
      BY <2>1 DEF Inv
    <2>3. /\ holder' \in [Descriptors -> Calls \cup {Free}]
          /\ descriptor' \in [Calls -> Descriptors \cup {0}]
          /\ temp' \in [Calls -> Contents]
      <3>1. CASE c \in WithLog
        <4>1. PICK d \in Descriptors : /\ holder' = [holder EXCEPT ![d] = c]
                                       /\ descriptor' = [descriptor EXCEPT ![c] = d]
                                       /\ temp' = [temp EXCEPT ![c] = "partial"]
          BY <1>1, <3>1 DEF Begin
        <4>. QED BY <4>1 DEF Inv
      <3>2. CASE c \notin WithLog
        BY <1>1, <3>2 DEF Inv, Begin
      <3>. QED BY <3>1, <3>2
    <2>. QED BY <1>1, <2>2, <2>3 DEF Inv, Begin, StartWorker
  <1>2. ASSUME NEW c \in Calls, StageFails(c) PROVE TypeOK'
    BY <1>2 DEF Inv, StageFails
  <1>3. ASSUME NEW c \in Calls, HeardResult(c) PROVE TypeOK'
    BY <1>3 DEF Inv, HeardResult, Heard
  <1>4. ASSUME NEW c \in Calls, HeardError(c) PROVE TypeOK'
    BY <1>4 DEF Inv, HeardError, Heard, Fail, Abort
  <1>5. ASSUME NEW c \in Calls, NextSimulation(c) PROVE TypeOK'
    BY <1>5 DEF Inv, NextSimulation, StartWorker
  <1>6. ASSUME NEW c \in Calls, StopSimulated(c) PROVE TypeOK'
    BY <1>6 DEF Inv, StopSimulated, Fail, Abort
  <1>7. ASSUME NEW c \in Calls, SaveTo(c) PROVE TypeOK'
    BY <1>7 DEF Inv, SaveTo
  <1>8. ASSUME NEW c \in Calls, SaveRunAndCommit(c) PROVE TypeOK'
    BY <1>8 DEF Inv, SaveRunAndCommit, Abort
  <1>9. ASSUME NEW c \in Calls, SavingFails(c) PROVE TypeOK'
    BY <1>9 DEF Inv, SavingFails, Fail, Abort
  <1>9a. ASSUME NEW c \in Calls, CommitFails(c) PROVE TypeOK'
    BY <1>9a DEF Inv, CommitFails, Fail, Abort
  <1>10. ASSUME NEW c \in Calls, Terminate(c) PROVE TypeOK'
    BY <1>10 DEF Inv, Terminate
  <1>11. ASSUME NEW c \in Calls, RejectCancelled(c) PROVE TypeOK'
    BY <1>11 DEF Inv, RejectCancelled, Fail, Abort, MayReject
  <1>12. ASSUME NEW c \in Calls, WorkerWrites(c) PROVE TypeOK'
    BY <1>12 DEF Inv, WorkerWrites, Written
  <1>13. ASSUME NEW c \in Calls, WorkerEnds(c) PROVE TypeOK'
    BY <1>13 DEF Inv, WorkerEnds, Written
  <1>14. ASSUME NEW c \in Calls, WorkerThrows(c) PROVE TypeOK'
    BY <1>14 DEF Inv, WorkerThrows
  <1>15. ASSUME NEW c \in Calls, WorkerDies(c) PROVE TypeOK'
    BY <1>15 DEF Inv, WorkerDies
  <1>16. ASSUME NEW c \in Calls, Cancel(c) PROVE TypeOK'
    BY <1>16 DEF Inv, Cancel, Ended
  <1>17. CASE UNCHANGED vars
    BY <1>17 DEF Inv, vars
  <1>. QED BY <1>1, <1>2, <1>3, <1>4, <1>5, <1>6, <1>7, <1>8, <1>9, <1>9a, <1>10, <1>11, <1>12, <1>13, <1>14, <1>15, <1>16, <1>17 DEF Next, HandlerStep, WorkerStep

\* ... and leaves what it has of its own, and what the others have, as it should be.
LEMMA Kept ==
    ASSUME Inv, TypeOK', [Next]_vars, NEW k \in Calls
    PROVE  (Working(k) /\ OneMessage(k) /\ Holding(k) /\ WholeLog(k))'
  <1> USE DEF TypeOK, Stages, Contents, Descriptors, files, handler
  <1> USE DEF Inv, Working, OneMessage, Holding, WholeLog, Ended
  <1>1. ASSUME NEW c \in Calls, Begin(c)
        PROVE  (Working(k) /\ OneMessage(k) /\ Holding(k) /\ WholeLog(k))'
    BY <1>1, ToolAssumption DEF Runs, Begin, StartWorker
  <1>2. ASSUME NEW c \in Calls, StageFails(c)
        PROVE  (Working(k) /\ OneMessage(k) /\ Holding(k) /\ WholeLog(k))'
    BY <1>2, ToolAssumption DEF Runs, StageFails
  <1>3. ASSUME NEW c \in Calls, HeardResult(c)
        PROVE  (Working(k) /\ OneMessage(k) /\ Holding(k) /\ WholeLog(k))'
    BY <1>3, ToolAssumption DEF Runs, HeardResult, Heard
  <1>4. ASSUME NEW c \in Calls, HeardError(c)
        PROVE  (Working(k) /\ OneMessage(k) /\ Holding(k) /\ WholeLog(k))'
    BY <1>4, ToolAssumption DEF Runs, HeardError, Heard, Fail, Abort
  <1>5. ASSUME NEW c \in Calls, NextSimulation(c)
        PROVE  (Working(k) /\ OneMessage(k) /\ Holding(k) /\ WholeLog(k))'
    BY <1>5, ToolAssumption DEF Runs, NextSimulation, StartWorker
  <1>6. ASSUME NEW c \in Calls, StopSimulated(c)
        PROVE  (Working(k) /\ OneMessage(k) /\ Holding(k) /\ WholeLog(k))'
    BY <1>6, ToolAssumption DEF Runs, StopSimulated, Fail, Abort
  <1>7. ASSUME NEW c \in Calls, SaveTo(c)
        PROVE  (Working(k) /\ OneMessage(k) /\ Holding(k) /\ WholeLog(k))'
    BY <1>7, ToolAssumption DEF Runs, SaveTo
  <1>8. ASSUME NEW c \in Calls, SaveRunAndCommit(c)
        PROVE  (Working(k) /\ OneMessage(k) /\ Holding(k) /\ WholeLog(k))'
    BY <1>8, ToolAssumption DEF Runs, SaveRunAndCommit, Abort
  <1>9. ASSUME NEW c \in Calls, SavingFails(c)
        PROVE  (Working(k) /\ OneMessage(k) /\ Holding(k) /\ WholeLog(k))'
    BY <1>9, ToolAssumption DEF Runs, SavingFails, Fail, Abort
  <1>9a. ASSUME NEW c \in Calls, CommitFails(c)
        PROVE  (Working(k) /\ OneMessage(k) /\ Holding(k) /\ WholeLog(k))'
    BY <1>9a, ToolAssumption DEF Runs, CommitFails, Fail, Abort
  <1>10. ASSUME NEW c \in Calls, Terminate(c)
        PROVE  (Working(k) /\ OneMessage(k) /\ Holding(k) /\ WholeLog(k))'
    BY <1>10, ToolAssumption DEF Runs, Terminate
  <1>11. ASSUME NEW c \in Calls, RejectCancelled(c)
        PROVE  (Working(k) /\ OneMessage(k) /\ Holding(k) /\ WholeLog(k))'
    BY <1>11, ToolAssumption DEF Runs, RejectCancelled, Fail, Abort, MayReject
  <1>12. ASSUME NEW c \in Calls, WorkerWrites(c)
        PROVE  (Working(k) /\ OneMessage(k) /\ Holding(k) /\ WholeLog(k))'
    BY <1>12, ToolAssumption DEF Runs, WorkerWrites, Written
  <1>13. ASSUME NEW c \in Calls, WorkerEnds(c)
        PROVE  (Working(k) /\ OneMessage(k) /\ Holding(k) /\ WholeLog(k))'
    BY <1>13, ToolAssumption DEF Runs, WorkerEnds, Written
  <1>14. ASSUME NEW c \in Calls, WorkerThrows(c)
        PROVE  (Working(k) /\ OneMessage(k) /\ Holding(k) /\ WholeLog(k))'
    BY <1>14, ToolAssumption DEF Runs, WorkerThrows
  <1>15. ASSUME NEW c \in Calls, WorkerDies(c)
        PROVE  (Working(k) /\ OneMessage(k) /\ Holding(k) /\ WholeLog(k))'
    BY <1>15, ToolAssumption DEF Runs, WorkerDies
  <1>16. ASSUME NEW c \in Calls, Cancel(c)
        PROVE  (Working(k) /\ OneMessage(k) /\ Holding(k) /\ WholeLog(k))'
    BY <1>16, ToolAssumption DEF Runs, Cancel, Ended
  <1>17. CASE UNCHANGED vars
    BY <1>17 DEF vars
  <1>. QED BY <1>1, <1>2, <1>3, <1>4, <1>5, <1>6, <1>7, <1>8, <1>9, <1>9a, <1>10, <1>11, <1>12, <1>13, <1>14, <1>15, <1>16, <1>17 DEF Next, HandlerStep, WorkerStep

\* The invariant holds in every reachable state.
LEMMA AlwaysInv == Spec => []Inv
  <1>1. Inv /\ [Next]_vars => Inv'
    BY Typed, Kept DEF Inv
  <1>. QED BY Starts, <1>1, PTL DEF Spec

\* A worker that may still write to its descriptor writes to the file of its own call,
\* whatever calls end, are cancelled and begin beside it (simulateInWorker waits for
\* terminate before the handler closes the descriptor).
THEOREM DescriptorsAreNotTakenOver ==
    Spec => []WorkersOwnTheirDescriptor
  <1>1. Inv => WorkersOwnTheirDescriptor
    BY ToolAssumption DEF Inv, WorkersOwnTheirDescriptor, Working, Holding
  <1>. QED BY AlwaysInv, <1>1, PTL

\* A log that was published is whole, belongs to a call that has saved all the rest, and
\* no call that is over leaves a temporary file or an open descriptor behind
\* (runSimulation stages the log first and publishes it last).
THEOREM LogsAreWhole == Spec => []LogIsLast
  <1>1. Inv => LogIsLast
    <2> SUFFICES ASSUME Inv, NEW c \in Calls
                 PROVE  /\ published[c] # "absent" =>
                               published[c] = "complete" /\ stage[c] = "answered"
                               /\ saved[c] = {"saveTo", "run"}
                        /\ Ended(c) => temp[c] = "absent" /\ \A d \in Descriptors : holder[d] # c
      BY DEF LogIsLast
    <2>1. Holding(c) /\ WholeLog(c)
      BY DEF Inv
    <2>. QED BY <2>1 DEF Holding, WholeLog
  <1>. QED BY AlwaysInv, <1>1, PTL

\* Only what a client let come to its end is saved: a step of a call whose client has
\* cancelled it in time writes nothing (throwIfAborted, before anything is saved).
LEMMA NothingOfTheCancelled ==
    ASSUME Inv, Inv', [Next]_vars
    PROVE  \A c \in Calls :
               stage[c] \in {"simulating", "simulated"} /\ Aborted(c) => saved'[c] = saved[c]
  <1> SUFFICES ASSUME NEW k \in Calls, stage[k] \in {"simulating", "simulated"}, Aborted(k)
               PROVE  saved'[k] = saved[k]
    OBVIOUS
  <1>1. ASSUME NEW c \in Calls, SaveTo(c) PROVE saved'[k] = saved[k]
    <2>1. c # k
      BY <1>1 DEF SaveTo
    <2>. QED BY <1>1, <2>1 DEF Inv, TypeOK, SaveTo
  <1>2. ASSUME NEW c \in Calls, SaveRunAndCommit(c) PROVE saved'[k] = saved[k]
    <2>1. c # k
      BY <1>2 DEF SaveRunAndCommit
    <2>. QED BY <1>2, <2>1 DEF Inv, TypeOK, SaveRunAndCommit
  <1>2a. ASSUME NEW c \in Calls, CommitFails(c) PROVE saved'[k] = saved[k]
    <2>1. c # k
      BY <1>2a DEF CommitFails
    <2>. QED BY <1>2a, <2>1 DEF Inv, TypeOK, CommitFails
  <1>3. ASSUME NEW c \in Calls,
               \/ Begin(c) \/ StageFails(c) \/ HeardResult(c) \/ HeardError(c) \/ NextSimulation(c)
               \/ StopSimulated(c) \/ SavingFails(c) \/ Terminate(c) \/ RejectCancelled(c)
               \/ WorkerStep(c) \/ Cancel(c)
        PROVE  saved'[k] = saved[k]
    BY <1>3 DEF Begin, StageFails, HeardResult, HeardError, NextSimulation, StopSimulated,
                SavingFails, Terminate, RejectCancelled, WorkerStep, WorkerWrites, WorkerEnds,
                WorkerThrows, WorkerDies, Cancel, files
  <1>4. CASE UNCHANGED vars
    BY <1>4 DEF vars, files
  <1>. QED BY <1>1, <1>2, <1>2a, <1>3, <1>4 DEF Next, HandlerStep

\* Nothing is kept of a call that was not whole: the two facts together, the property
\* the run checks.
THEOREM NothingPartial == Spec => ResultsAreWhole
  <1>1. Inv /\ Inv' /\ [Next]_vars
        => [\A c \in Calls : stage[c] \in {"simulating", "simulated"} /\ Aborted(c)
                             => saved'[c] = saved[c]]_vars
    BY NothingOfTheCancelled
  <1>. QED BY AlwaysInv, LogsAreWhole, <1>1, PTL DEF Spec, ResultsAreWhole, CancelledSavesNothing

-----------------------------------------------------------------------------
(* The runs of the web application.                                           *)

\* A call of simular that is under way.
Begun ==
    [at : {"prepare", "worker"}, scenario : Web!Names, isSide : BOOLEAN, aborted : BOOLEAN,
     revision : Nat, srev : Nat, project : Nat, early : BOOLEAN, xml : Nat \X Nat]

\* What is shown as current was simulated on what is shown, because
\*  - of the calls under way exactly the one in flight has not been aborted;
\*  - the one in flight goes with the canvas: all that changes the canvas or the
\*    project cancels it, but for a project that was being opened when it began;
\*  - a run that was stored is of this project and of the revision it names;
\*  - the screen says that a run is under way while one is in flight.
WebTypes ==
    /\ Web!TypeOK
    /\ project \in Nat /\ revision \in Nat /\ srev \in [Web!Names -> Nat]
    /\ origin \in [Copies -> Web!Names \cup {None}]
    /\ compare \in {None} \cup [ref : Web!Names, other : Web!Names]
    /\ call \in [WebCalls -> {Web!Idle} \cup Begun]
OneIsWanted ==
    \A i \in WebCalls : flying = i <=> (call[i] # Web!Idle /\ ~call[i].aborted)
OfThisProject ==
    \A run \in runs : run.project = project /\ run.xml = <<project, run.revision>>
OnTheCanvas ==
    flying # None =>
        /\ call[flying].revision = revision /\ call[flying].project = project
        /\ opening => call[flying].early
        /\ call[flying].at = "worker" => call[flying].xml = Web!Canvas
Shown == sim = "running" <=> flying # None

WebInv == WebTypes /\ OneIsWanted /\ (~overtaken => OfThisProject /\ OnTheCanvas /\ Shown)

\* The initial state satisfies the invariant.
LEMMA WebStarts == ASSUME Web!Init PROVE WebInv
  <1> USE WebAssumption DEF Web!RunsAssumption, Web!Names
  <1>1. WebTypes
    BY DEF Web!Init, WebTypes, Web!TypeOK
  <1>2. OneIsWanted /\ OfThisProject /\ OnTheCanvas /\ Shown
    BY DEF Web!Init, OneIsWanted, OfThisProject, OnTheCanvas, Shown
  <1>. QED BY <1>1, <1>2 DEF WebInv

\* A call under way is not idle.
LEMMA BegunIsNotIdle == \A r \in Begun : r # Web!Idle
  BY DEF Begun, Web!Idle

\* An abort takes the call in flight from those that are wanted, and no other ...
LEMMA Aborts ==
    ASSUME WebInv
    PROVE  /\ Web!Aborting \in [WebCalls -> {Web!Idle} \cup Begun]
           /\ \A i \in WebCalls : Web!Aborting[i] = Web!Idle <=> call[i] = Web!Idle
           /\ \A i \in WebCalls : Web!Aborting[i] # Web!Idle => Web!Aborting[i].aborted
  <1> SUFFICES ASSUME NEW i \in WebCalls
               PROVE  /\ Web!Aborting[i] \in {Web!Idle} \cup Begun
                      /\ Web!Aborting[i] = Web!Idle <=> call[i] = Web!Idle
                      /\ Web!Aborting[i] # Web!Idle => Web!Aborting[i].aborted
    BY DEF Web!Aborting
  <1>1. CASE i # flying
    BY <1>1 DEF Web!Aborting, WebInv, WebTypes, OneIsWanted, Begun
  <1>2. CASE i = flying
    <2>1. call[i] \in Begun
      BY <1>2 DEF WebInv, WebTypes, OneIsWanted
    <2>2. /\ Web!Aborting[i] \in Begun
          /\ Web!Aborting[i].aborted = TRUE
      BY <1>2, <2>1 DEF Web!Aborting, Begun
    <2>. QED BY <2>1, <2>2, BegunIsNotIdle
  <1>. QED BY <1>1, <1>2

\* ... which leaves none.
LEMMA Cancels ==
    ASSUME WebInv, Web!CancelRun
    PROVE  /\ flying' = None /\ side' = None /\ sim' = "idle"
           /\ paused' \in Web!Names \cup {None}
           /\ call' \in [WebCalls -> {Web!Idle} \cup Begun]
           /\ OneIsWanted' /\ OnTheCanvas' /\ Shown'
  <1>1. /\ flying' = None /\ side' = None /\ sim' = "idle" /\ call' = Web!Aborting
        /\ paused' \in {side, paused}
    BY DEF Web!CancelRun
  <1>2. paused' \in Web!Names \cup {None}
    BY <1>1 DEF WebInv, WebTypes, Web!TypeOK
  <1>3. OneIsWanted'
    BY <1>1, Aborts, WebAssumption DEF Web!RunsAssumption, OneIsWanted, Web!Idle
  <1>4. OnTheCanvas' /\ Shown'
    BY <1>1 DEF OnTheCanvas, Shown
  <1>. QED BY <1>1, <1>2, <1>3, <1>4, Aborts

\* A run that begins is the one in flight, and was begun on what is there.
LEMMA Begins ==
    ASSUME WebInv, NEW s \in Web!Names, NEW b \in BOOLEAN, Web!StartRun(s, b)
    PROVE  /\ flying' \in WebCalls /\ side' \in Web!Names \cup {None} /\ sim' = "running"
           /\ paused' \in Web!Names \cup {None} /\ failed' \in Web!Names \cup {None}
           /\ call' \in [WebCalls -> {Web!Idle} \cup Begun]
           /\ call'[flying'].revision = revision /\ call'[flying'].project = project
           /\ call'[flying'].early = opening /\ call'[flying'].at = "prepare"
           /\ OneIsWanted'
  <1>1. PICK i \in WebCalls :
            /\ call' = [Web!Aborting EXCEPT ![i] =
                   [at |-> "prepare", scenario |-> s, isSide |-> b, aborted |-> FALSE,
                    revision |-> revision, srev |-> srev[s], project |-> project,
                    early |-> opening, xml |-> <<0, 0>>]]
            /\ flying' = i
    BY DEF Web!StartRun
  <1>2. /\ side' \in {s, None} /\ sim' = "running"
        /\ paused' \in {None, side, paused} /\ failed' \in {None, failed}
    BY DEF Web!StartRun
  <1>3. [at |-> "prepare", scenario |-> s, isSide |-> b, aborted |-> FALSE,
         revision |-> revision, srev |-> srev[s], project |-> project,
         early |-> opening, xml |-> <<0, 0>>] \in Begun
    BY DEF WebInv, WebTypes, Web!TypeOK, Begun
  <1>4. /\ call' \in [WebCalls -> {Web!Idle} \cup Begun]
        /\ call'[i] \in Begun /\ ~call'[i].aborted /\ call'[i].at = "prepare"
        /\ call'[i].revision = revision /\ call'[i].project = project
        /\ call'[i].early = opening
        /\ \A j \in WebCalls \ {i} : call'[j] = Web!Aborting[j]
    BY <1>1, <1>3, Aborts
  <1>5. OneIsWanted'
    BY <1>1, <1>4, Aborts, BegunIsNotIdle DEF OneIsWanted, Web!Idle
  <1>. QED BY <1>1, <1>2, <1>4, <1>5 DEF WebInv, WebTypes, Web!TypeOK

\* A call that ends is no longer under way, nor in flight.
LEMMA Ends ==
    ASSUME WebInv, NEW i \in WebCalls, call[i] # Web!Idle, NEW ok \in BOOLEAN, Web!End(i, ok)
    PROVE  /\ flying' = (IF flying = i THEN None ELSE flying)
           /\ side' \in Web!Names \cup {None} /\ paused' \in Web!Names \cup {None}
           /\ call' \in [WebCalls -> {Web!Idle} \cup Begun]
           /\ \A j \in WebCalls \ {i} : call'[j] = call[j]
           /\ OneIsWanted'
  <1>1. /\ call' = [call EXCEPT ![i] = Web!Idle]
        /\ flying' = (IF flying = i THEN None ELSE flying)
        /\ side' \in {None, side} /\ paused' \in {call[i].scenario, paused}
    BY DEF Web!End
  <1>2. call[i] \in Begun /\ call[i].scenario \in Web!Names
    BY DEF WebInv, WebTypes, Begun
  <1>3. /\ call' \in [WebCalls -> {Web!Idle} \cup Begun] /\ call'[i] = Web!Idle
        /\ \A j \in WebCalls \ {i} : call'[j] = call[j]
    BY <1>1 DEF WebInv, WebTypes
  <1>4. OneIsWanted'
    BY <1>1, <1>3, WebAssumption DEF Web!RunsAssumption, WebInv, OneIsWanted, Web!Idle
  <1>. QED BY <1>1, <1>2, <1>3, <1>4 DEF WebInv, WebTypes, Web!TypeOK

\* What leaves the simulations, the canvas and the project alone keeps the invariant.
LEMMA Untouched ==
    ASSUME WebInv, WebTypes',
           UNCHANGED <<project, revision, opening, runs, call, flying, sim, overtaken>>
    PROVE  WebInv'
  <1>1. OneIsWanted' /\ (~overtaken' => OfThisProject' /\ OnTheCanvas' /\ Shown')
    BY DEF WebInv, OneIsWanted, OfThisProject, OnTheCanvas, Shown, Web!Canvas
  <1>. QED BY <1>1 DEF WebInv

\* What cancels the run in flight may do what it likes to the canvas and the scenarios.
LEMMA Cancelled ==
    ASSUME WebInv, Web!CancelRun, WebTypes', UNCHANGED <<project, runs, overtaken>>
    PROVE  WebInv'
  <1>1. OneIsWanted' /\ OnTheCanvas' /\ Shown'
    BY Cancels
  <1>2. ~overtaken' => OfThisProject'
    BY DEF WebInv, OfThisProject
  <1>. QED BY <1>1, <1>2 DEF WebInv

\* A run that begins.
LEMMA Starting ==
    ASSUME WebInv, NEW s \in Web!Names, NEW b \in BOOLEAN, Web!StartRun(s, b),
           UNCHANGED <<project, revision, scenarios, srev, active, opening, origin, runs, compare,
                       overtaken>>,
           {parseDue', irDue', settling', runWaits'} \subseteq BOOLEAN
    PROVE  WebInv'
  <1>1. WebTypes'
    <2>1. Web!TypeOK'
      BY Begins DEF WebInv, WebTypes, Web!TypeOK
    <2>2. srev' \in [Web!Names -> Nat] /\ origin' \in [Copies -> Web!Names \cup {None}]
      BY DEF WebInv, WebTypes
    <2>. QED BY <2>1, <2>2, Begins DEF WebInv, WebTypes
  <1>2. OneIsWanted'
    BY Begins
  <1>3. ~overtaken' => OfThisProject' /\ OnTheCanvas' /\ Shown'
    BY Begins, WebAssumption DEF Web!RunsAssumption, WebInv, OfThisProject, OnTheCanvas, Shown
  <1>. QED BY <1>1, <1>2, <1>3 DEF WebInv

\* The side of a comparison that has no run yet is a scenario.
LEMMA MissingIsAName == ASSUME WebInv PROVE Web!Missing \in Web!Names \cup {None}
  <1>1. compare # None => compare.ref \in Web!Names /\ compare.other \in Web!Names
    BY DEF WebInv, WebTypes
  <1>. HIDE DEF Web!HasRun
  <1>. QED BY <1>1 DEF Web!Missing

-----------------------------------------------------------------------------
(* The acts of the user.  Those that change what runs are simulated on cancel  *)
(* the one in flight.                                                         *)

\* Run: at once, or once the edits have settled
LEMMA PressRunKeeps == ASSUME WebInv, Web!PressRun PROVE WebInv'
  <1> USE DEF Web!PressRun, Web!document, Web!flight
  <1>1. active \in Web!Names
    BY DEF WebInv, WebTypes, Web!TypeOK
  <1>2. CASE settling
    <2>1. WebTypes'
      BY <1>2 DEF WebInv, WebTypes, Web!TypeOK
    <2>. QED BY <1>2, <2>1, Untouched
  <1>3. CASE ~settling
    <2>1. {parseDue', irDue', settling', runWaits'} \subseteq BOOLEAN
      BY <1>3 DEF WebInv, WebTypes, Web!TypeOK
    <2>. QED BY <1>1, <1>3, <2>1, Starting
  <1>. QED BY <1>2, <1>3

\* Cancel of a simulation or a wait
LEMMA PressCancelKeeps == ASSUME WebInv, Web!PressCancel PROVE WebInv'
  <1> USE DEF Web!PressCancel, Web!document, Web!parsing
  <1>1. WebTypes'
    BY Cancels DEF WebInv, WebTypes, Web!TypeOK
  <1>. QED BY <1>1, Cancelled

\* Try again, on a card that failed
LEMMA RetryKeeps == ASSUME WebInv, Web!Retry PROVE WebInv'
  <1> USE DEF Web!Retry, Web!document, Web!parsing, Web!flight
  <1>1. WebTypes'
    BY DEF WebInv, WebTypes, Web!TypeOK
  <1>. QED BY <1>1, Untouched

\* The comparison is closed
LEMMA CloseComparisonKeeps == ASSUME WebInv, Web!CloseComparison PROVE WebInv'
  <1> USE DEF Web!CloseComparison, Web!document, Web!parsing, Web!flight
  <1>1. WebTypes'
    BY DEF WebInv, WebTypes, Web!TypeOK
  <1>. QED BY <1>1, Untouched

\* Another scenario is compared with
LEMMA CompareWithKeeps == ASSUME WebInv, NEW s \in scenarios, Web!CompareWith(s) PROVE WebInv'
  <1> USE DEF Web!document, Web!parsing, Web!flight
  <1>1. s \in Web!Names /\ active \in Web!Names
    BY DEF WebInv, WebTypes, Web!TypeOK
  <1>2. Web!Reference(s) \in {s, active}
    BY DEF Web!Reference
  <1>3. compare' \in [ref : Web!Names, other : Web!Names]
    <2>1. CASE compare = None
      BY <1>1, <1>2, <2>1 DEF Web!CompareWith
    <2>2. CASE compare # None
      BY <1>1, <2>2 DEF Web!CompareWith, WebInv, WebTypes
    <2>. QED BY <2>1, <2>2
  <1>4. /\ failed' = None /\ paused' = None
        /\ UNCHANGED <<Web!document, runs, Web!parsing, Web!flight, overtaken>>
    BY DEF Web!CompareWith
  <1>5. WebTypes'
    BY <1>3, <1>4 DEF WebInv, WebTypes, Web!TypeOK
  <1>. QED BY <1>4, <1>5, Untouched

\* An edit of the model makes a revision
LEMMA EditModelKeeps == ASSUME WebInv, Web!EditModel PROVE WebInv'
  <1> USE DEF Web!EditModel
  <1>1. WebTypes'
    BY Cancels DEF WebInv, WebTypes, Web!TypeOK
  <1>. QED BY <1>1, Cancelled

\* The revisions of a scenario and of those that extend it.
LEMMA Counted ==
    ASSUME WebInv, NEW S, srev' = [t \in Web!Names |-> IF t \in S THEN srev[t] + 1 ELSE srev[t]]
    PROVE  srev' \in [Web!Names -> Nat]
  BY DEF WebInv, WebTypes

\* An edit of a scenario makes a revision of it
LEMMA EditScenarioKeeps == ASSUME WebInv, NEW s \in scenarios, Web!EditScenario(s) PROVE WebInv'
  <1> USE DEF Web!EditScenario, Web!ChangeScenario, Web!parsing
  <1>1. srev' \in [Web!Names -> Nat]
    BY Counted
  <1>2. WebTypes'
    BY <1>1, Cancels DEF WebInv, WebTypes, Web!TypeOK
  <1>. QED BY <1>2, Cancelled

\* Another scenario is chosen
LEMMA ChooseScenarioKeeps ==
    ASSUME WebInv, NEW s \in scenarios, Web!ChooseScenario(s)
    PROVE  WebInv'
  <1> USE DEF Web!ChooseScenario, Web!parsing
  <1>1. WebTypes'
    BY Cancels DEF WebInv, WebTypes, Web!TypeOK
  <1>. QED BY <1>1, Cancelled

\* A scenario is duplicated with its revision, and the copy is chosen
LEMMA DuplicateKeeps == ASSUME WebInv, NEW s \in Copies, Web!Duplicate(s) PROVE WebInv'
  <1> USE DEF Web!Duplicate, Web!parsing, Web!Names
  <1>1. srev' \in [Web!Names -> Nat] /\ origin' \in [Copies -> Web!Names \cup {None}]
    BY DEF WebInv, WebTypes, Web!TypeOK
  <1>2. WebTypes'
    BY <1>1, Cancels DEF WebInv, WebTypes, Web!TypeOK
  <1>. QED BY <1>2, Cancelled

\* Another project begins to open
LEMMA StartOpenKeeps == ASSUME WebInv, Web!StartOpen PROVE WebInv'
  <1> USE DEF Web!StartOpen, Web!parsing
  <1>1. WebTypes'
    BY Cancels DEF WebInv, WebTypes, Web!TypeOK
  <1>. QED BY <1>1, Cancelled

-----------------------------------------------------------------------------
(* What the application does by itself.                                       *)

\* The effect that starts a Run that waited
LEMMA WaitingRunKeeps == ASSUME WebInv, Web!WaitingRun PROVE WebInv'
  <1>1. active \in Web!Names /\ {parseDue', irDue', settling', runWaits'} \subseteq BOOLEAN
    BY DEF Web!WaitingRun, WebInv, WebTypes, Web!TypeOK
  <1>. QED BY <1>1, Starting DEF Web!WaitingRun, Web!document

\* The effect that starts a side of the comparison
LEMMA CompareEffectKeeps == ASSUME WebInv, Web!CompareEffect PROVE WebInv'
  <1>1. UNCHANGED <<Web!document, runs, Web!parsing, compare, overtaken>>
    BY DEF Web!CompareEffect
  <1>2. {parseDue', irDue', settling', runWaits'} \subseteq BOOLEAN
    BY <1>1 DEF Web!parsing, WebInv, WebTypes, Web!TypeOK
  <1>3. CASE Web!Missing # None /\ Web!StartRun(Web!Missing, TRUE)
    <2>1. Web!Missing \in Web!Names
      BY <1>3, MissingIsAName
    <2>. QED BY <1>1, <1>2, <1>3, <2>1, Starting DEF Web!document
  <1>4. CASE UNCHANGED <<Web!flight, paused, failed, attempts>>
    <2>1. WebTypes'
      BY <1>1, <1>4 DEF Web!document, Web!parsing, Web!flight, WebInv, WebTypes, Web!TypeOK
    <2>. QED BY <1>1, <1>4, <2>1, Untouched DEF Web!document, Web!flight
  <1>. QED BY <1>3, <1>4 DEF Web!CompareEffect

\* The reparse of what has been edited
LEMMA ParsedKeeps == ASSUME WebInv, Web!Parsed PROVE WebInv'
  <1> USE DEF Web!Parsed, Web!document, Web!flight, Web!comparing
  <1>1. WebTypes'
    BY DEF WebInv, WebTypes, Web!TypeOK
  <1>. QED BY <1>1, Untouched

\* The elements new on the canvas are seeded, which cancels; or there are none.
LEMMA IrLandsKeeps == ASSUME WebInv, Web!IrLands PROVE WebInv'
  <1> USE DEF Web!IrLands
  <1>1. CASE Web!SeedScenarios
    <2>1. PICK seeded \in (SUBSET Bases) \ {{}} :
              /\ srev' = [t \in Web!Names |-> IF \E s \in seeded : t \in Web!Family(s)
                                             THEN srev[t] + 1 ELSE srev[t]]
              /\ Web!CancelRun
      BY <1>1 DEF Web!SeedScenarios
    <2>2. srev' \in [Web!Names -> Nat]
      BY <2>1 DEF WebInv, WebTypes
    <2>3. WebTypes'
      BY <2>1, <2>2, Cancels DEF WebInv, WebTypes, Web!TypeOK
    <2>. QED BY <2>1, <2>3, Cancelled
  <1>2. CASE UNCHANGED <<srev, Web!flight, paused>>
    <2>1. WebTypes'
      BY <1>2 DEF Web!flight, WebInv, WebTypes, Web!TypeOK
    <2>. QED BY <1>2, <2>1, Untouched DEF Web!flight
  <1>. QED BY <1>1, <1>2

\* The project that was opened comes with no runs; a run that was in flight was begun
\* while it was being opened, and has been overtaken.
LEMMA EndOpenKeeps == ASSUME WebInv, NEW r \in OpenRevisions, Web!EndOpen(r) PROVE WebInv'
  <1> USE WebAssumption DEF Web!RunsAssumption, Web!EndOpen
  <1>1. WebTypes'
    <2>1. /\ project' \in Nat /\ revision' \in Nat
          /\ srev' \in [Web!Names -> Nat] /\ origin' \in [Copies -> Web!Names \cup {None}]
          /\ compare' = None
      BY DEF WebInv, WebTypes
    <2>2. scenarios' \subseteq Web!Names /\ active' \in scenarios'
      BY DEF Web!Names
    <2>3. overtaken' \in BOOLEAN
      BY DEF WebInv, WebTypes, Web!TypeOK
    <2>4. Web!TypeOK'
      BY <2>2, <2>3 DEF WebInv, WebTypes, Web!TypeOK, Web!flight
    <2>. QED BY <2>1, <2>4 DEF WebInv, WebTypes, Web!flight
  <1>2. OneIsWanted'
    BY DEF WebInv, OneIsWanted, Web!flight
  <1>3. ~overtaken' => flying = None
    BY DEF WebInv, OnTheCanvas
  <1>4. ~overtaken' => OfThisProject' /\ OnTheCanvas' /\ Shown'
    BY <1>3 DEF WebInv, OfThisProject, OnTheCanvas, Shown, Web!flight
  <1>. QED BY <1>1, <1>2, <1>4 DEF WebInv

\* A canvas that refuses the project leaves what was there, and what was begun on it.
LEMMA OpenRefusedKeeps == ASSUME WebInv, Web!OpenRefused PROVE WebInv'
  <1> USE DEF Web!OpenRefused, Web!flight, Web!comparing, Web!parsing
  <1>1. WebTypes'
    BY DEF WebInv, WebTypes, Web!TypeOK
  <1>2. OneIsWanted'
    BY DEF WebInv, OneIsWanted
  <1>3. ~overtaken' => OfThisProject' /\ OnTheCanvas' /\ Shown'
    BY DEF WebInv, OfThisProject, OnTheCanvas, Shown, Web!Canvas
  <1>. QED BY <1>1, <1>2, <1>3 DEF WebInv

-----------------------------------------------------------------------------
(* The calls of simular.                                                      *)

\* The one in flight is no longer under way.
LEMMA EndedKeeps ==
    ASSUME WebInv, NEW i \in WebCalls, call[i] # Web!Idle, NEW ok \in BOOLEAN, Web!End(i, ok),
           WebTypes', UNCHANGED <<project, revision, opening, overtaken>>,
           ~overtaken => OfThisProject' /\ (Shown' \/ (flying # i /\ sim' = sim))
    PROVE  WebInv'
  <1>1. OneIsWanted'
    BY Ends
  <1>2. ~overtaken' => Shown'
    BY Ends DEF WebInv, Shown
  <1>3. ~overtaken' => OnTheCanvas'
    BY Ends, WebAssumption DEF WebInv, WebTypes, Web!TypeOK, OnTheCanvas, Web!Canvas
  <1>. QED BY <1>1, <1>2, <1>3 DEF WebInv

\* What was exported is what is on the canvas, if the call is still wanted.
LEMMA PreparedKeeps == ASSUME WebInv, NEW i \in WebCalls, Web!Prepared(i) PROVE WebInv'
  <1>1. /\ UNCHANGED <<Web!document, runs, Web!parsing, sim, compare, failed, overtaken>>
        /\ call[i].at = "prepare"
    BY DEF Web!Prepared
  <1>2. call[i] # Web!Idle
    BY <1>1 DEF Web!Idle
  <1>3. call[i] \in Begun
    BY <1>2 DEF WebInv, WebTypes
  <1>4. CASE Web!Wanted(i)
    <2>1. /\ call' = [call EXCEPT ![i].at = "worker", ![i].xml = Web!Canvas]
          /\ UNCHANGED <<flying, side, paused, attempts>>
      BY <1>4 DEF Web!Prepared
    <2>2. /\ call'[i] \in Begun /\ call'[i].xml = Web!Canvas
          /\ call'[i].revision = call[i].revision /\ call'[i].project = call[i].project
          /\ call'[i].early = call[i].early /\ call'[i].aborted = call[i].aborted
          /\ \A j \in WebCalls \ {i} : call'[j] = call[j]
          /\ call' \in [WebCalls -> {Web!Idle} \cup Begun]
      BY <1>3, <2>1 DEF WebInv, WebTypes, Begun, Web!Canvas
    <2>3. WebTypes'
      BY <1>1, <2>1, <2>2 DEF Web!document, Web!parsing, WebInv, WebTypes, Web!TypeOK
    <2>4. OneIsWanted'
      BY <1>2, <2>1, <2>2, BegunIsNotIdle DEF WebInv, OneIsWanted, Web!Idle
    <2>5. flying = i
      BY <1>4 DEF Web!Wanted
    <2>6. ~overtaken' => OfThisProject' /\ OnTheCanvas' /\ Shown'
      BY <1>1, <2>1, <2>2, <2>5
         DEF Web!document, WebInv, OfThisProject, OnTheCanvas, Shown, Web!Canvas
    <2>. QED BY <2>3, <2>4, <2>6 DEF WebInv
  <1>5. CASE ~Web!Wanted(i)
    <2>1. Web!End(i, FALSE)
      BY <1>5 DEF Web!Prepared
    <2>2. flying # i
      BY <1>2, <1>5 DEF Web!Wanted, WebInv, OneIsWanted
    <2>3. WebTypes'
      BY <1>1, <1>2, <2>1, Ends DEF Web!document, Web!parsing, WebInv, WebTypes, Web!TypeOK
    <2>4. ~overtaken => OfThisProject'
      BY <1>1 DEF Web!document, WebInv, OfThisProject
    <2>. QED BY <1>1, <1>2, <2>1, <2>2, <2>3, <2>4, EndedKeeps DEF Web!document
  <1>. QED BY <1>4, <1>5

\* A call that was aborted is not the one in flight.
LEMMA TerminatedKeeps == ASSUME WebInv, NEW i \in WebCalls, Web!Terminated(i) PROVE WebInv'
  <1>1. /\ UNCHANGED <<Web!document, runs, Web!parsing, sim, compare, failed, overtaken>>
        /\ call[i].at = "worker" /\ call[i].aborted /\ Web!End(i, FALSE)
    BY DEF Web!Terminated
  <1>2. call[i] # Web!Idle /\ flying # i
    BY <1>1 DEF Web!Idle, WebInv, OneIsWanted
  <1>3. WebTypes'
    BY <1>1, <1>2, Ends DEF Web!document, Web!parsing, WebInv, WebTypes, Web!TypeOK
  <1>4. ~overtaken => OfThisProject'
    BY <1>1 DEF Web!document, WebInv, OfThisProject
  <1>. QED BY <1>1, <1>2, <1>3, <1>4, EndedKeeps DEF Web!document

\* The run that is stored was simulated on the canvas as it is.
LEMMA StoredKeeps == ASSUME WebInv, NEW i \in WebCalls, Web!Stored(i) PROVE WebInv'
  <1>1. /\ UNCHANGED <<project, revision, scenarios, srev, active, opening, parseDue, settling,
                       runWaits, failed, overtaken>>
        /\ irDue' = TRUE /\ sim' = "idle"
        /\ call[i].at = "worker" /\ Web!Wanted(i) /\ Web!End(i, TRUE)
        /\ runs' = runs \cup {[scenario |-> call[i].scenario, revision |-> call[i].revision,
                               srev |-> call[i].srev, project |-> call[i].project,
                               xml |-> call[i].xml]}
    BY DEF Web!Stored
  <1>2. call[i] # Web!Idle /\ flying = i
    BY <1>1 DEF Web!Idle, Web!Wanted
  <1>3. call[i].scenario \in Web!Names
    BY <1>2 DEF WebInv, WebTypes, Begun
  <1>4. /\ origin' \in [Copies -> Web!Names \cup {None}]
        /\ compare' \in {None} \cup [ref : Web!Names, other : Web!Names]
    <2>1. CASE /\ origin[call[i].scenario] \in scenarios
               /\ origin' = [origin EXCEPT ![call[i].scenario] = None]
               /\ compare' = IF compare # None THEN compare
                             ELSE [ref |-> origin[call[i].scenario], other |-> call[i].scenario]
      BY <1>3, <2>1 DEF WebInv, WebTypes, Web!TypeOK
    <2>2. CASE UNCHANGED <<origin, compare>>
      BY <2>2 DEF WebInv, WebTypes
    <2>. QED BY <2>1, <2>2 DEF Web!Stored
  <1>5. WebTypes'
    BY <1>1, <1>2, <1>4, Ends DEF WebInv, WebTypes, Web!TypeOK
  <1>6. flying' = None
    BY <1>1, <1>2, Ends
  <1>7. ~overtaken => OfThisProject' /\ Shown'
    <2>1. ~overtaken => call[i].project = project /\ call[i].xml = <<project, call[i].revision>>
      BY <1>1, <1>2, WebAssumption DEF Web!RunsAssumption, WebInv, OnTheCanvas, Web!Canvas
    <2>. QED BY <1>1, <1>6, <2>1 DEF WebInv, OfThisProject, Shown
  <1>. QED BY <1>1, <1>2, <1>5, <1>7, EndedKeeps

\* The result of another revision is dropped: only a run that was overtaken can have one.
LEMMA OutdatedKeeps == ASSUME WebInv, NEW i \in WebCalls, Web!Outdated(i) PROVE WebInv'
  <1>1. /\ UNCHANGED <<Web!document, runs, Web!parsing, sim, compare, failed, overtaken>>
        /\ call[i].at = "worker" /\ Web!Wanted(i) /\ call[i].revision # revision
        /\ Web!End(i, FALSE)
    BY DEF Web!Outdated
  <1>2. call[i] # Web!Idle /\ overtaken
    BY <1>1, WebAssumption DEF Web!RunsAssumption, Web!Idle, Web!Wanted, WebInv, OnTheCanvas
  <1>3. WebTypes'
    BY <1>1, <1>2, Ends DEF Web!document, Web!parsing, WebInv, WebTypes, Web!TypeOK
  <1>. QED BY <1>1, <1>2, <1>3, EndedKeeps DEF Web!document

\* A call fails, and says so only if it is still wanted
LEMMA RunFailsKeeps == ASSUME WebInv, NEW i \in WebCalls, Web!RunFails(i) PROVE WebInv'
  <1>1. /\ UNCHANGED <<Web!document, runs, Web!parsing, compare, overtaken>>
        /\ call[i].at \in {"prepare", "worker"} /\ Web!Wanted(i)
        /\ sim' \in {"idle", "error"} /\ failed' \in {call[i].scenario, failed}
        /\ Web!End(i, call[i].isSide)
    BY DEF Web!RunFails
  <1>2. call[i] # Web!Idle /\ flying = i
    BY <1>1 DEF Web!Idle, Web!Wanted
  <1>3. call[i].scenario \in Web!Names /\ call[i].isSide \in BOOLEAN
    BY <1>2 DEF WebInv, WebTypes, Begun
  <1>4. flying' = None
    BY <1>1, <1>2, <1>3, Ends
  <1>5. WebTypes'
    BY <1>1, <1>2, <1>3, Ends DEF Web!document, Web!parsing, WebInv, WebTypes, Web!TypeOK
  <1>6. ~overtaken => OfThisProject' /\ Shown'
    BY <1>1, <1>4 DEF Web!document, WebInv, OfThisProject, Shown
  <1>. QED BY <1>1, <1>2, <1>3, <1>5, <1>6, EndedKeeps DEF Web!document

-----------------------------------------------------------------------------

\* Every step of the web application keeps the invariant.
LEMMA WebSteps == ASSUME WebInv, [Web!Next]_webVars PROVE WebInv'
  <1>1. CASE Web!User
    BY <1>1, PressRunKeeps, PressCancelKeeps, RetryKeeps, CloseComparisonKeeps, CompareWithKeeps,
       EditScenarioKeeps, ChooseScenarioKeeps, EditModelKeeps, DuplicateKeeps, StartOpenKeeps
       DEF Web!User
  <1>2. ASSUME NEW i \in WebCalls, Web!CallStep(i) PROVE WebInv'
    BY <1>2, PreparedKeeps, TerminatedKeeps, StoredKeeps, OutdatedKeeps, RunFailsKeeps
       DEF Web!CallStep
  <1>3. CASE Web!Parse \/ Web!Opened
    BY <1>3, ParsedKeeps, IrLandsKeeps, EndOpenKeeps, OpenRefusedKeeps DEF Web!Parse, Web!Opened
  <1>4. CASE UNCHANGED webVars
    <2>1. WebTypes'
      BY <1>4 DEF webVars, WebInv, WebTypes, Web!TypeOK
    <2>. QED BY <1>4, <2>1, Untouched DEF webVars
  <1>. QED BY <1>1, <1>2, <1>3, <1>4, WaitingRunKeeps, CompareEffectKeeps DEF Web!Next

\* The invariant holds whichever of the two is at work.
LEMMA AlwaysWebInv == BothSpec => []WebInv
  <1>1. BothInit => WebInv
    BY WebStarts DEF BothInit
  <1>2. [BothNext]_<<atWork, vars, webVars>> => [Web!Next]_webVars
    BY DEF BothNext
  <1>3. WebInv /\ [Web!Next]_webVars => WebInv'
    BY WebSteps
  <1>. QED BY <1>1, <1>2, <1>3, PTL DEF BothSpec

\* What counts as a current run was simulated on the canvas as it is, and the screen
\* says that a run is under way exactly while one is that can still be stored, whatever
\* is edited, chosen, compared, cancelled or opened meanwhile, unless a run was begun
\* while another project was being opened (isCurrentRun, cancelarCorrida, simular).
THEOREM TheScreenIsTrue == BothSpec => []ScreenIsTrue
  <1>1. WebInv => Web!CurrentRunsAreTrue
    BY DEF WebInv, OfThisProject, Web!CurrentRunsAreTrue, Web!Current, Web!Canvas
  <1>2. WebInv => Web!RunningIsTrue
    BY DEF WebInv, OneIsWanted, Shown, Web!RunningIsTrue, Web!Idle
  <1>. QED BY AlwaysWebInv, <1>1, <1>2, PTL DEF ScreenIsTrue, Web!ScreenIsTrue

-----------------------------------------------------------------------------
(* The theorems about the tools, beside the web application.                  *)

\* A step of both is a step of the tools or leaves them alone
LEMMA ToolRuns == BothSpec => Spec
  <1>1. BothInit => Init
    BY DEF BothInit
  <1>2. [BothNext]_<<atWork, vars, webVars>> => [Next]_vars
    BY DEF BothNext
  <1>. QED BY <1>1, <1>2, PTL DEF BothSpec, Spec

\* Workers write to the files of their own calls (simulateInWorker).
THEOREM DescriptorsStay == BothSpec => []WorkersOwnTheirDescriptor
  BY ToolRuns, DescriptorsAreNotTakenOver, PTL

\* Nothing is kept of a call that was not whole (runSimulation).
THEOREM NothingPartialIsKept == BothSpec => ResultsAreWhole
  BY ToolRuns, NothingPartial, PTL
=============================================================================
