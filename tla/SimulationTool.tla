---------------------------- MODULE SimulationTool ----------------------------
(*****************************************************************************)
(* The calls of the MCP tools run_simulation and compare_scenarios that are   *)
(* under way in one server (packages/mcp/src/server.ts): the worker thread    *)
(* each simulates in, the cancellation of its client (simulate-in-worker.ts), *)
(* the event log the worker streams through a descriptor of the server's      *)
(* process (simulate-worker.ts) and what is saved once it is over.            *)
(*                                                                            *)
(* Both tools are one state machine: a comparison simulates several times and *)
(* has no log and no run to store.                                            *)
(*****************************************************************************)
EXTENDS Naturals

CONSTANTS
    Calls,
    Simulations, \* how many simulations each call is made of
    WithLog,     \* the calls that ask for an event log (logTo)
    MaxOpen,     \* the descriptors the process may have open
    Free         \* the holder of a descriptor that is closed

ASSUME ToolAssumption ==
    /\ Simulations \in [Calls -> Nat \ {0}]
    /\ WithLog \subseteq {c \in Calls : Simulations[c] = 1}
    /\ MaxOpen \in Nat /\ Free \notin Calls

Descriptors == 1 .. MaxOpen
Runs == {c \in Calls : Simulations[c] = 1}

VARIABLES
    holder,     \* the call whose temporary file each descriptor of the process is open on
    descriptor, \* the descriptor each call staged its log with, 0 for none
    temp,       \* what its temporary file holds
    published,  \* what the log it published holds
    stage,      \* where the handler of the call is
    left,       \* the simulations it has still to begin
    worker,     \* its worker
    inbox,      \* the message its worker has sent and the server has not handled
    aborted,    \* has the client cancelled it?
    cancelling, \* has simulateInWorker heard of it?
    saved       \* what it has saved besides the log

files == <<holder, descriptor, temp, published, saved>>
handler == <<stage, left, cancelling>>
vars == <<files, handler, worker, inbox, aborted>>

Contents == {"absent", "partial", "complete", "mixed"}
Stages == {"idle", "simulating", "simulated", "saving", "answered", "failed"}
Ended(c) == stage[c] \in {"answered", "failed"}

Init ==
    /\ holder = [d \in Descriptors |-> Free]
    /\ descriptor = [c \in Calls |-> 0]
    /\ temp = [c \in Calls |-> "absent"] /\ published = [c \in Calls |-> "absent"]
    /\ stage = [c \in Calls |-> "idle"]
    /\ left = Simulations
    /\ worker = [c \in Calls |-> "none"]
    /\ inbox = [c \in Calls |-> "none"]
    /\ aborted = [c \in Calls |-> FALSE] /\ cancelling = [c \in Calls |-> FALSE]
    /\ saved = [c \in Calls |-> {}]

-----------------------------------------------------------------------------
(* The handler of a call.                                                     *)

\* finally: the descriptor is closed and the temporary file removed
Abort(c) ==
    /\ holder' = [d \in Descriptors |-> IF holder[d] = c THEN Free ELSE holder[d]]
    /\ temp' = [temp EXCEPT ![c] = "absent"]

Fail(c) ==
    /\ stage' = [stage EXCEPT ![c] = "failed"]
    /\ Abort(c)
    /\ UNCHANGED <<descriptor, published>>

\* new Worker, unless the signal is aborted already
StartWorker(c) ==
    /\ worker' = [worker EXCEPT ![c] = "busy"]
    /\ left' = [left EXCEPT ![c] = @ - 1]
    /\ stage' = [stage EXCEPT ![c] = "simulating"]
    /\ UNCHANGED cancelling

\* the arguments are validated and the log is staged; a descriptor that was
\* closed is the first to be given again
Begin(c) ==
    /\ stage[c] = "idle"
    /\ StartWorker(c)
    /\ IF c \in WithLog
       THEN \E d \in Descriptors :
                /\ holder[d] = Free /\ \A e \in Descriptors : holder[e] = Free => d <= e
                /\ holder' = [holder EXCEPT ![d] = c]
                /\ descriptor' = [descriptor EXCEPT ![c] = d]
                /\ temp' = [temp EXCEPT ![c] = "partial"]
       ELSE UNCHANGED <<holder, descriptor, temp>>
    /\ UNCHANGED <<published, saved, inbox, aborted>>

\* there is no descriptor left, or the log cannot be written there
StageFails(c) ==
    /\ stage[c] = "idle" /\ c \in WithLog
    /\ stage' = [stage EXCEPT ![c] = "failed"]
    /\ UNCHANGED <<files, left, cancelling, worker, inbox, aborted>>

\* a message of the worker, unless the call is being cancelled: its result ...
Heard(c) == stage[c] = "simulating" /\ inbox[c] # "none" /\ ~cancelling[c]
HeardResult(c) ==
    /\ Heard(c) /\ inbox[c] = "result"
    /\ inbox' = [inbox EXCEPT ![c] = "none"]
    /\ stage' = [stage EXCEPT ![c] = "simulated"]
    /\ UNCHANGED <<files, left, cancelling, worker, aborted>>

\* ... its error, or its end
HeardError(c) ==
    /\ Heard(c) /\ inbox[c] # "result"
    /\ inbox' = [inbox EXCEPT ![c] = "none"]
    /\ Fail(c)
    /\ UNCHANGED <<saved, left, cancelling, worker, aborted>>

\* a comparison goes on with its next scenario
NextSimulation(c) ==
    /\ stage[c] = "simulated" /\ left[c] > 0 /\ ~aborted[c]
    /\ StartWorker(c)
    /\ UNCHANGED <<files, inbox, aborted>>

\* the client has cancelled: throwIfAborted of a run, the next simulation of a comparison
Aborted(c) == aborted[c] /\ (c \in Runs \/ left[c] > 0)
StopSimulated(c) ==
    /\ stage[c] = "simulated" /\ Aborted(c)
    /\ Fail(c)
    /\ UNCHANGED <<saved, left, cancelling, worker, inbox, aborted>>

FaultySaveTo(c) ==  \* whether the client has cancelled meanwhile is not looked at
    /\ stage[c] = "simulated" /\ left[c] = 0
    /\ saved' = [saved EXCEPT ![c] = {"saveTo"}]
    /\ stage' = [stage EXCEPT ![c] = IF c \in Runs THEN "saving" ELSE "answered"]
    /\ UNCHANGED <<holder, descriptor, temp, published, left, cancelling, worker, inbox, aborted>>

\* saveTo; a run then waits for saveRun, a comparison is over
SaveTo(c) ==
    /\ stage[c] = "simulated" /\ left[c] = 0 /\ ~Aborted(c)
    /\ saved' = [saved EXCEPT ![c] = {"saveTo"}]
    /\ stage' = [stage EXCEPT ![c] = IF c \in Runs THEN "saving" ELSE "answered"]
    /\ UNCHANGED <<holder, descriptor, temp, published, left, cancelling, worker, inbox, aborted>>

\* saveRun, then the log is published
SaveRunAndCommit(c) ==
    /\ stage[c] = "saving"
    /\ saved' = [saved EXCEPT ![c] = @ \cup {"run"}]
    /\ published' = [published EXCEPT ![c] = temp[c]]
    /\ Abort(c)
    /\ stage' = [stage EXCEPT ![c] = "answered"]
    /\ UNCHANGED <<descriptor, left, cancelling, worker, inbox, aborted>>

\* one of the writes fails; what was written before it stays, but for the log
SavingFails(c) ==
    /\ stage[c] \in {"simulated", "saving"} /\ left[c] = 0
    /\ Fail(c)
    /\ UNCHANGED <<saved, left, cancelling, worker, inbox, aborted>>

\* ... and so stays a run whose log cannot be renamed to its place
CommitFails(c) ==
    /\ stage[c] = "saving" /\ c \in WithLog
    /\ saved' = [saved EXCEPT ![c] = @ \cup {"run"}]
    /\ Fail(c)
    /\ UNCHANGED <<left, cancelling, worker, inbox, aborted>>

-----------------------------------------------------------------------------
(* The cancellation.                                                          *)

\* notifications/cancelled; simulateInWorker listens while its promise is pending
Cancel(c) ==
    /\ stage[c] # "idle" /\ ~Ended(c) /\ ~aborted[c]
    /\ aborted' = [aborted EXCEPT ![c] = TRUE]
    /\ cancelling' = [cancelling EXCEPT ![c] = stage[c] = "simulating"]
    /\ UNCHANGED <<files, stage, left, worker, inbox>>

\* terminate() stops the worker, in the middle of whatever it does
Terminate(c) ==
    /\ cancelling[c] /\ worker[c] # "stopped"
    /\ worker' = [worker EXCEPT ![c] = "stopped"]
    /\ UNCHANGED <<files, handler, inbox, aborted>>

FaultyMayReject(c) == TRUE  \* terminate() is not waited for
\* the promise rejects once the worker has stopped
MayReject(c) == worker[c] = "stopped"

RejectCancelled(c) ==
    /\ stage[c] = "simulating" /\ cancelling[c] /\ MayReject(c)
    /\ Fail(c)
    /\ UNCHANGED <<saved, left, cancelling, worker, inbox, aborted>>

-----------------------------------------------------------------------------
(* The worker of a call.                                                      *)

\* what the file open on its descriptor holds once the worker has written to it
Written(c, contents) ==
    [k \in Calls |->
        IF c \in WithLog /\ holder[descriptor[c]] = k
        THEN (IF k # c \/ temp[k] = "mixed" THEN "mixed" ELSE contents)
        ELSE temp[k]]

WorkerWrites(c) ==
    /\ worker[c] = "busy"
    /\ temp' = Written(c, "partial")
    /\ UNCHANGED <<holder, descriptor, published, saved, handler, worker, inbox, aborted>>

\* the last rows are flushed, and then the result is sent
WorkerEnds(c) ==
    /\ worker[c] = "busy"
    /\ temp' = Written(c, "complete")
    /\ inbox' = [inbox EXCEPT ![c] = "result"]
    /\ worker' = [worker EXCEPT ![c] = "ended"]
    /\ UNCHANGED <<holder, descriptor, published, saved, handler, aborted>>

\* the engine throws, and the worker sends the message
WorkerThrows(c) ==
    /\ worker[c] = "busy"
    /\ inbox' = [inbox EXCEPT ![c] = "error"]
    /\ worker' = [worker EXCEPT ![c] = "ended"]
    /\ UNCHANGED <<files, handler, aborted>>

FaultyWorkerDies(c) ==  \* nobody listens for the exit
    /\ worker[c] = "busy" /\ ~cancelling[c]
    /\ worker' = [worker EXCEPT ![c] = "stopped"]
    /\ UNCHANGED <<files, handler, inbox, aborted>>

\* the thread dies without a word: the server hears that it has stopped
WorkerDies(c) ==
    /\ worker[c] = "busy" /\ ~cancelling[c]
    /\ inbox' = [inbox EXCEPT ![c] = "exit"]
    /\ worker' = [worker EXCEPT ![c] = "stopped"]
    /\ UNCHANGED <<files, handler, aborted>>

-----------------------------------------------------------------------------

HandlerStep(c) ==
    \/ Begin(c) \/ StageFails(c) \/ HeardResult(c) \/ HeardError(c) \/ NextSimulation(c)
    \/ StopSimulated(c) \/ SaveTo(c) \/ SaveRunAndCommit(c) \/ SavingFails(c)
    \/ CommitFails(c) \/ Terminate(c) \/ RejectCancelled(c)
WorkerStep(c) == WorkerWrites(c) \/ WorkerEnds(c) \/ WorkerThrows(c) \/ WorkerDies(c)

Next == \E c \in Calls : HandlerStep(c) \/ WorkerStep(c) \/ Cancel(c)

\* the server handles what it is sent and a simulation ends one way or another
Fairness ==
    \A c \in Calls :
        /\ WF_vars(HeardResult(c) \/ HeardError(c) \/ NextSimulation(c) \/ StopSimulated(c)
                   \/ SaveTo(c) \/ SaveRunAndCommit(c) \/ SavingFails(c)
                   \/ CommitFails(c))
        /\ WF_vars(Terminate(c)) /\ WF_vars(RejectCancelled(c))
        /\ WF_vars(WorkerEnds(c) \/ WorkerThrows(c) \/ WorkerDies(c))

Spec == Init /\ [][Next]_vars
FairSpec == Spec /\ Fairness

-----------------------------------------------------------------------------

TypeOK ==
    /\ holder \in [Descriptors -> Calls \cup {Free}]
    /\ descriptor \in [Calls -> Descriptors \cup {0}]
    /\ temp \in [Calls -> Contents] /\ published \in [Calls -> Contents]
    /\ stage \in [Calls -> Stages] /\ left \in [Calls -> Nat]
    /\ worker \in [Calls -> {"none", "busy", "ended", "stopped"}]
    /\ inbox \in [Calls -> {"none", "result", "error", "exit"}]
    /\ aborted \in [Calls -> BOOLEAN] /\ cancelling \in [Calls -> BOOLEAN]
    /\ saved \in [Calls -> SUBSET {"saveTo", "run"}]

\* A worker that may still write holds the descriptor of its own call's file:
\* it was not closed under it, nor given to another call since.  (cancel waits
\* for terminate before the call cleans up)
WorkersOwnTheirDescriptor ==
    \A c \in WithLog : worker[c] = "busy" => holder[descriptor[c]] = c

\* A log that was published holds all the rows of its own run and nothing else,
\* and the call has saved all the rest; a call that is over leaves no temporary
\* file and no open descriptor.  (runSimulation, "It is published last")
LogIsLast ==
    \A c \in Calls :
        /\ published[c] # "absent" =>
               published[c] = "complete" /\ stage[c] = "answered" /\ saved[c] = {"saveTo", "run"}
        /\ Ended(c) => temp[c] = "absent" /\ c \notin {holder[d] : d \in Descriptors}

\* A run that is cancelled before it begins to save, and a comparison before its
\* last scenario is over, save nothing.  (docs/MCP.md, Progress and cancellation)
CancelledSavesNothing ==
    [][\A c \in Calls :
           stage[c] \in {"simulating", "simulated"} /\ Aborted(c) => saved'[c] = saved[c]]_vars

\* Nothing is kept of a call that was not whole.
ResultsAreWhole == []LogIsLast /\ CancelledSavesNothing

\* Every call comes to an end, also when its worker dies without a word: as each
\* is made once, there are always times when none is under way.
\* (simulateInWorker settles on every event)
EveryCallEnds == []<>(\A c \in Calls : stage[c] = "idle" \/ Ended(c))
=============================================================================
