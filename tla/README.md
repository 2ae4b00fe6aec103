# TLA+ specifications of Lila Modeler

Lila Modeler draws BPMN processes and simulates them. Its logic is in three places: a
discrete-event kernel that runs inside one thread and is deterministic to the byte, a layer that
reads and writes projects which several processes share (the desktop application, the command line,
MCP servers that agents drive), and a desktop application of two processes that talk by messages.
This directory models the parts of each in which the order of steps matters, checks them with
TLC on small instances, and proves with TLAPS, for every value of the constants, what matters most
about them. Paths below are relative to `src/`.

Contents: [1 Inventory](#1-inventory) · [2 Modules and code](#2-modules-and-code) ·
[3 Runs](#3-runs) · [4 Where code and comments disagree](#4-where-code-and-comments-disagree) ·
[5 Fairness](#5-fairness) · [6 Proofs](#6-proofs) · [7 Not modelled](#7-not-modelled) ·
[8 Plan](#8-plan)

## 1 Inventory

| Component | State | Operations | Talks to | What is hard | What makes it correct |
|---|---|---|---|---|---|
| **Resource manager** `packages/engine/src/core/resources.ts` | units in use, FIFO queues by class of request, heap of ready heads, version of each class, state of each request | enqueue, release (batch), cancel (batch), refresh after a change of capacity, the drain loop | called by the kernel | tombstones of OR requests, ready heads that go stale, dirty marks that must reach every class a change unblocks, capacity that falls under what is in use | no lost wake-up, the earliest that can start does, capacity respected at each grant, nobody starves |
| **Simulation kernel** `core/sim.ts`, `core/heap.ts` | event heap ordered by (time, sequence), cases and their token counts, open activities, joins | one handler per event: arrival, entry of a node, end of an activity, boundary timer, rise of capacity, end of a race of timers | resource manager, calendars, random streams, collector of statistics | ties at one instant, interruptions, `terminate`, events that outlive their cause, OR joins, cycles of no duration | tokens counted right, ended cases over, units given back, waiters woken, every run ends |
| **Calendars** `core/calendar.ts` | the table of days of each dated calendar, grown on demand | compile, unite, intersect; next opening, working time, open time; capacity at an instant, its next rise | kernel | turns of the week and of the day, holidays, dated and weekly calendars combined, whole weeks and cycles skipped by arithmetic | agree with a second-by-second reading of the scenario |
| **Distributions, streams, aggregation** `core/rng.ts`, `distributions.ts`, `run.ts`, `replications.ts`, `metrics.ts`, `compare.ts` | generator state; accumulators | draw; one replication per seed; means and confidence intervals | kernel | floating point | statistics, outside the reach of TLC |
| **Lock of a `.lila`** `packages/engine/src/project-fs/lilaFile.ts` (`withLilaLock`) | a lock file, its token and its age | take, take over a leftover, wait, release | every writer of a `.lila`, in any process | two awaits between looking and acting; crashes, failing calls and late heartbeats that leave a lock behind; the take-over of a leftover | one writer at a time, no lock stays for ever, a living lock is left alone |
| **`.lila` file** `lilaFile.ts`, `input.ts`, `save-run.ts` | the file; what each process last saw of it | read, write, save of a run with retries | lock; desktop, CLI, MCP | somebody writes between a read and the snapshot that vouches for it; retries | nothing stored is lost, a run is stored with the model it ran on |
| **Project folder** `projectIO.ts` | files, `.prev-*` files, snapshots (`lastSeen`), `lila-recovery.json` | open, save as version 1 or as repository, commit with rollback | desktop, CLI, MCP | a rename, then its undo, fails; the process dies; others write | all or nothing; old content survives; what could not be put back is named |
| **Desktop session** `apps/desktop/src/main.ts`, `recovery.ts`, `closeGuard.ts`, `preload.cts`, `apps/web/src/App.tsx` | document, rendered state, saved token, file lock, autosave timer; dirty flag, recovery copy and its queue, close and quit guards | edit, render, save, snapshot, restore, setDirty, writeRecovery, takeRecovery, close, quit | renderer and main exchange messages | flags computed from a render that is behind, edits during a save, late writes, two dialogs at once | no work is lost silently; the recovery copy exists exactly when it should |
| **Open project and other programs** `apps/desktop/src/projectWatcher.ts`, `main.ts`, `projectIO.ts`, `App.tsx` (`recargar`) | snapshots of files, notifications, debounce timer, notice, file lock | write (others), notify, settle, check, reload, Keep mine, save | file layer, main, renderer | own and foreign writes at once, checks that overlap, reloads that wait or give up, snapshots taken after the read | a foreign change is told, an own save is not, nothing unseen is overwritten |
| **Session file** `sessionState.ts`, `main.ts` | recent projects, window bounds; a queue of writes | read, write atomically, drain at quit | main | the last writes at quit, a write that never settles, sessions that die | the last state is the one on disk, never an older one |
| **Simulations of the MCP server** `packages/mcp/src/server.ts`, `simulate-in-worker.ts`, `simulate-worker.ts`, `cli-shared.ts` (`stageFile`) | a worker thread per call, a staged log whose descriptor the worker shares | run, compare, cancel, terminate, save, publish the log | engine in a worker, file layer, client | an answer, an exit or a failing write that crosses a cancellation; a descriptor closed and given again | one outcome per call, nothing partial is kept |
| **Simulations of the web application** `App.tsx`, `simulationClient.ts`, `worker.ts` | revisions of model and scenarios, runs, the call in flight, reparse, comparison | Run, Cancel, edit, duplicate, choose, compare, retry, open | engine in a worker | results that arrive late, a Run that waits for a reparse that seeds, effects over lists of dependencies | what is shown as current is; every run ends; no side is left waiting |
| **BPMN** `packages/engine/src/bpmn/` | none | parse, validate, edit, lay out | everything | data | pure functions |
| **Documents and scenarios** `project/`, `scenario.ts`, `json-patch.ts`, sheets, CSV, XLSX | none | convert, validate, patch | file layer | data | pure functions |
| **Agent operations, other MCP tools, CLI** `project-fs/agent-tools.ts`, `packages/mcp/src/`, `cli*.ts` | none of their own | open, change, save | file layer, engine | those of the file layer | those of the file layer |
| **Rest of the web application** `apps/web/src/` | React state, browser storage | panels, replay, settings | engine in a worker | rendering | — |

How the parts interact: the kernel calls the resource manager synchronously and acts on the grants
it returns. Desktop, CLI and MCP servers share nothing but the file system: the lock file
serialises the writers of a `.lila`, snapshots tell them what changed behind their back. Inside the
desktop application, renderer and main share nothing but messages, which arrive in the order they
were sent; saves go through main to the file layer.

The hazards this leaves, each with the line where it bites and the properties that watch it, are
listed in `PROJECT.json`.

## 2 Modules and code

In every module a definition named `Faulty...` stands just before a definition of the model; it is
the same code with a plausible bug in it, nothing uses it, and putting it in the place of the real
one must make TLC find one property violated. `PROJECT.json` lists which.

### Allocation and ResourceManager (`core/resources.ts`)

The class runs synchronously, but its operations are loops whose intermediate states are where the
reasoning is, so one action is one step of a loop. `Enqueue`, `Release`, `Cancel` and `Refresh`
begin an operation and are enabled only when the previous one is over (`Idle`); `Drop`, `Evaluate`,
`Grant` and `Skip`, together `Drain`, are the steps of freeing a batch, evaluating a class marked
dirty, and popping the ready heap. `used`, `status`, `ticket`, `queue`, `ready` and `nextSeq` are
the fields of the class; the version of a class is kept as a flag on the ready heads (`fresh`), and
the dirty set and the rest of a running batch, which are local variables of the code, are variables.
`Tick` is the kernel's clock; `risen` holds the pools whose capacity rose at this instant and for
which the kernel has not called `refresh` yet. The quantities an alternative asks for are a function
from pools to numbers.

`Allocation` says what is promised, without queues, heaps, classes or marks: requests stand in order
of arrival, and whenever some can start the earliest of those starts before anybody else is heard.
`Promise` in ResourceManager is the refinement mapping. It hides requests that a batch is still
dropping, so that a batch is one step above and several below.

### FileMutex, LilaLock and LilaFile (`project-fs/lilaFile.ts`, `input.ts`, `save-run.ts`)

`LilaLock` has one action per await of `withLilaLock`: `Create`, `Fill`, `Peek`, `Stat`, `Move`,
`Compare`, `PutBack`, `Discard`, `Retry`, `GiveUp`, and the release, which looks (`CheckOwn`) before it
removes (`Unlink`). A lock file is named after the writer that created it, which is also its token,
and it can be on the disk without its token. `Age` makes the lock of a call that is over look old, at
any time; `AgeAlive` does it to that of a living holder, whose heartbeat was late or failed, or whose
calls around `work()`, which the heartbeat does not cover, took too long. `Crash` stops a writer anywhere.

The file system may refuse every call. `Refused` is an error that ends the call of a writer that
holds no lock, what it moved aside included; `DiscardFails` and `LinkFails` are errors that the code
swallows. Two kinds leave a lock at its path with nobody to remove it: `FillFails`, for the token is
written before the `try` whose `finally` releases, and `ReleaseFails`, for that block swallows what its
read and its unlink throw. `lapses` is a history variable that says which of three things no
exception tells of has happened: a lock was `"left"`, a living one was `"late"`, one that was moved
aside by mistake was `"lost"` because its link failed. The properties say which of them they except:
`NoOrphanLock` and `LivingLockStays` speak of runs in which no lock has been left over
(`NothingLeftOver`: no crash, none left, none late), the refinement of those in which locks are to be
`Trusted` (none late, none lost), and `CallsReturn` of all. `FileMutex` is the lock one would like to
have; LilaLock is shown to implement it for two writers while locks are to be trusted.

`LilaFile` is built on `FileMutex`, not on the lock file, and models who writes with what knowledge.
An agent takes the identity of the file, reads it, then under the lock compares and writes, and
begins again if somebody was faster (`saveLilaRun`, `ATTEMPTS` times). A desktop window reads the
bytes first and takes the identity afterwards. The identity (mtime, size, inode) is the number of
the write that made the file; the content is a set of changes and the revision of the model.

### Replication (`core/sim.ts`, `core/heap.ts`)

One action per event that leaves the heap, with the whole handler: the state it changes and the
events it pushes, in the order it pushes them. `heap` is the sequence that the code's (t, seq)
order makes of the events, `Pushed` inserts. A model to simulate is a record (nodes with types,
flows, pools with their capacity over time, durations, boundary timers), and `Models` is the set
TLC chooses from: what the random streams decide (durations, branches taken, gaps between arrivals)
is chosen by TLC at the step where the code draws. `Drained` computes what the resource manager's
drain loop grants, for requests of one unit of each pool; that the loop grants exactly that is what
the run on ResourceManager and its theorems show. Modelled: start events with arrivals, tasks with
resources (alternatives and several pools at once), intermediate timers and throws, XOR, AND and OR
gateways as forks and joins, races of event gateways, interrupting and non-interrupting boundary
timers, error boundaries, standard loops, parallel and sequential multi-instance tasks,
sub-processes with their deadlines and errors, one inside another, end and terminate events,
capacity that changes with the calendar, the limit on events at one instant, cancellation, and
`run.duration`. `rows` is the log of the activities; `cases`, `acts`, `entries` and the joins are
the code's maps.

A handler is a sequence of helpers that each take what the handler has worked out so far (`Now`, then
any number of `w`, a record of the state and of the events pushed) to the set of what may come of it,
and `Becomes` makes the next state of the last. Where the code loops (the drain loop, the
sub-processes a token crosses, the flows it leaves through, the instances it opens, the events it
pushes) the helper takes `Rounds` of one step: the set of the outcomes after n of them, a recursive
function with a bound that the code's loop cannot exceed. `ReplicationProofs` has the induction over them.

### Calendars (`core/calendar.ts`, the calendar functions of `core/sim.ts`)

Compilation is a set of operators: `CompileCalendar`, `PruneHolidays`, `CompileDated` make calendars
of definitions, `Unite` and `Intersect` combine them, `PoolCalendar` and `ActivityCalendar` are what
the kernel builds with them, `CompileCapacity` makes the capacity of a pool over time, and `Plan` is
all of it for one scenario, kept in `plan`. What changes is the table of days (`DayTable.cum`) of
the calendar that is asked, and the last answer: `AskNextOpen`, `AskAddWorkingTime`, `AskOpenTime`, `AskCapacityAt` and
`AskNextCapacityRise` are the calls the kernel makes, in any order, and each returns the grown table
with its value. The table's doubling and binary search (`Climb`, `Bisect`), the folding of whole
cycles (`OpenBefore`) and the day-by-day walks beyond the table are those of the code.

What is abstracted is the Gregorian calendar. A civil day is a number, and what a recurrence can see
of it is its place in the cycle, so that days of the month, n-th weekdays and dates of the year are
all sets of days of the cycle; the cycle, the week and the day are constants, as is the first step
of the search, 8 in the code. Times are whole seconds (the code's durations may be fractions), so
"more than n seconds" is written "at least n + 1". The tables of the slices' own calendars, which
`isOpen` fills and nothing else reads, are left out.

### ProjectFolder (`project-fs/projectIO.ts`)

`Open`, `Read` and `Snapshot` are an open; `Refuse`, `TempFails` and `Save` are the checks of a save
and the writing of temporary files; `Look`, `Aside`, `Place`, `Clean` and `Remember` are the loop of
`commitWithRollback`, one action per rename; `Fail`, `Unplace`, `Restore`, `UndoFails` and
`RolledBack` are its catch. `Edit` is another program, `Crash` the death of the process, after which
the folder is opened again. The order of the destinations is that of the code: process files, the
manifest, the root files that the first save as a repository retires.

### ProjectReload (`projectWatcher.ts`, `main.ts`, `projectIO.ts`, `App.tsx`)

The open project while other programs write its files. A version of a file is the number of writes
it has had, which is what size and mtime tell apart. `ForeignWrite` is another program; `Notified`,
`Settle` and `CheckFile` are the watcher, whose checks may overlap (`settling`) and wait for
`projectWrite` (`MayCheck`). `ChangedOutside` is `alCambiarFuera` with the retry after 500 ms,
`ReadFile` and `RememberFile` are the two steps of a read (the bytes, then a `stat` of its own),
`Activate` and `GiveUp` the two ends of a reload; `StartSave` to `SnapshotFile` are a save that
renames file after file and then takes the snapshots. `op` is the file lock with what holds it.
`slip` is a history variable: it says why a snapshot vouches for what is not on screen.

### SessionFile (`sessionState.ts`, `main.ts`)

`Change`, `MoveWindow`, `SaveBounds` and `CloseWindow` are what queues a write, `BeginWrite`,
`WriteLands` and `WriteFails` the queue of `createSessionStateWriter`, `WaitOn`, `QuitDrained` and
`QuitLimit` the race of `idle()` with three seconds at `will-quit`. A write that never settles is
one that takes no further step. `Crash` may happen anywhere; `Launch` sweeps and reads.

### DesktopSession (`main.ts`, `preload.cts`, `App.tsx`)

The renderer's actions are the steps between awaits of `saveWithOutcome` (`SaveCommand` or
`AnswerRequest`, `SaveExported`, `SaveWritten`, `SaveGivenUp`), of the autosave (`TimerFires`,
`SnapExported`, `SnapSent`), of `restaurarCopia` and `activate` (`RestoreStarts`, `RestoreOpens`,
`RestoreRefused`, `RestoreFails`), the changes of the document (`EditModel`, `EditScenario`,
`RunEnds`) and React's `Render`. `doc` is the document as it is and `shown` the one of the last
render, which is what `tokenRef` holds; the model's revision (`revisionRef`) is the part of `doc`
the code can see without a render. Messages to main wait in `inbox` and are handled in order by
`Deliver`. Main's actions are its handlers (`HandleDirty`, `HandleCopy`, `HandleReply`,
`HandleTake`), the tasks of `recoveryQueue` (`RunTask`), and the guards of Close and Quit, which the
code runs as two independent calls of `confirmClose`: `PressClose`, `PressQuit`, `Answer`,
`TimesOut`, `Leave`. The death of the process needs no action, because what it leaves behind is
`copy` and `file`, whose invariants hold in every state.

Three things can overtake a session, each in a window of a few milliseconds that the code relies on
being small, and `slips` is a history variable of those that have happened. `"restoring"`: the user
edits or saves before the launch copy that is being restored is on screen. While the file lock is
held the canvas is `inert` (`App.tsx:3260`), but only from the render that shows `ioBusy`, and not for the
window's shortcuts; a simulation that ends moves the document in any case. `"merged"`: one render shows
both a change of the document and the end of a save, as when a simulation ends just before
`saveWithOutcome` publishes `setDirty(!unchanged)`, which then says clean and is not corrected, because
the rendered flag never changes. `"unheard"`: the window closes while the news of a change,
`setDirty(true)`, is on its way. Nothing else is assumed about time: renders and messages may be as
late as they like, edits fall into saves, snapshots and dialogs. Each property names the slips it
excepts, and is stated of every behaviour up to the first of them: none for `NothingOldIsOffered`,
the first two for `UnsavedWorkIsCopied` and `CopyStaysInStep` (`Smooth`), all three for
`NoSilentClose`. They are behaviours of the code. Past them the properties without their exceptions are false of it:
`desktop_restore` shows the first, and TLC finds the others with one command (only for
`CopyStaysInStep` past `"merged"` it has found no counterexample; there the exception is what the proof
needs). The constant `MaySlip` says which slips a run explores past
their first step: none in `desktop`, which leaves what comes after to the theorem about `NothingOldIsOffered`, and
`"restoring"` in `desktop_restore`. The theorems hold for any `MaySlip`.

### SimulationTool (`server.ts`, `simulate-in-worker.ts`, `simulate-worker.ts`, `cli-shared.ts`)

The calls of `run_simulation` and `compare_scenarios` under way in one server. A call with a log
stages it first (`Begin`) and its worker writes through the descriptor, which belongs to the
process: once closed, the next call that stages a log is given the same number. `HeardResult` and
`HeardError` are the messages of the worker, `Cancel`, `Terminate` and `RejectCancelled` the three
steps of a cancellation, `SaveTo`, `SaveRunAndCommit`, `SavingFails` and `CommitFails` the writes after
the cut-off. `WorkerDies` is a thread that ends without a message. A comparison is the same machine
with several simulations, no log and no run.

### SimulationRuns (`App.tsx`, `simulationClient.ts`)

What is on the canvas is the project and the revision of its model; `runs` remembers both for each
run, besides the revisions that the code compares (`isCurrentRun`), so that a run that counts as
current for the code and is not can be told. `StartRun` is the part of `simular` before its first
await, with the `cancelarCorrida` it calls; `Prepared`, `Stored`, `Outdated`, `RunFails`,
`Terminated` its continuations, `End` its `finally`. `Parsed` and `IrLands` are the deferred
reparse and the effect that seeds new elements; `WaitingRun` and `CompareEffect` are the two effects
that start runs. An effect runs only when one of its dependencies has changed (`Deps`,
`effectDue`), and React runs the effects of a render before it handles the next event (`Quiet`).
`StartOpen` and `EndOpen` are `activate` around the await in which the canvas is opened, and
`OpenRefused` is a canvas that answers it cannot, which leaves what was open.

### Compositions and MC modules

`ProjectFiles` and `SimulationWorkers` put several modules in one specification. Their parts share no
state and a behaviour is of one of them: `atWork` chooses, the others stand still, and each part has
its own fairness. Nothing is gained from interleaving what does not interact, and nothing is lost:
the states of the run are the sum, not the product. `ProjectFiles` extends `LilaLock` and
instantiates the rest, with the theorems of those parts that have a module of proofs; `SimulationWorkers` extends `SimulationTool` and
instantiates `SimulationRuns`. Their parameters are still constants, so that
`ProjectFilesProofs` and `SimulationWorkersProofs` prove theorems of the very specifications that TLC
runs. The MC modules only give values.

## 3 Runs

| Run | What it asks | Instance | Distinct states |
|---|---|---|---|
| `resources` | safety, refinement of Allocation and liveness of the pool manager | two pools, one with shifts 2, 1, 2; two OR requests that prefer different pools, an AND, a request for two units; 3 instants, 4 enqueues | 101,765 |
| `project_files`, part lock | no orphan lock, living locks stay, refinement of FileMutex, every call returns | 2 writers and a leftover, 1 crash, any call may fail | 452,128 for the five parts |
| part lila | runs belong to their model, agents take nothing back, every save returns | 2 agents with 2 attempts, 1 window with 2 saves, 1 crash | |
| part folder | all or nothing, recovery is possible, the first save as a repository is crash-safe | 2 folders, 2 saves, 1 foreign edit, 3 faults, 1 crash | |
| part reload | nothing unseen is overwritten, what others write is told and what Lila writes is not | 2 files, 2 foreign writes, 1 edit, 1 save or other operation | |
| part session | the file never goes back, no orphans, a quit is orderly and ends | 4 changes, 2 sessions | |
| `lila_lock_three` | mutual exclusion with three writers: violated | 3 writers, leftover; no crash needed, no failing call | — |
| `lila_race` | nothing stored is lost: violated | 2 agents, 1 window with 1 save | — |
| `reload_keep_mine` | Keep mine never costs the other program its work: violated | 1 file, 2 foreign writes, 1 edit, 1 save | — |
| `kernel` | six safety properties of a replication and its end | seven process models (below), at most 12 events of a case at one instant | 132,049 |
| `kernel_tie` | an OR task takes the first free alternative: violated | one model | — |
| `calendars` | every answer of the calendar is the one of a second-by-second reading | 51 scenarios; days of 3 s, weeks of 2 days, a cycle of 4 days; instants up to 40 s, work up to 6 s | 199,549 |
| `desktop` | no silent close, the recovery copy is there when needed and only then | 1 edit of the model, 1 other change, 2 of Save, Close and Quit; launch copy unreadable, unopenable or good | 7,157,294 |
| `desktop_restore` | the copy stays until it is saved or discarded: violated | 1 edit, good launch copy | — |
| `simulations`, part tool | workers own their descriptor, results are whole, every call ends | 2 runs with a log, 1 comparison of 2 scenarios, 2 descriptors | 168,105 for the two parts |
| part web | the screen is true, runs go on, every side is tried | a scenario and a duplicate, 2 calls of `simular` at once, 4 acts of the user | |
| `web_compare` | no side is left on "Simulating…": violated | 2 scenarios, 2 acts of the user | — |

Why the bounds are enough to be interesting:

* **resources.** Two ORs that share both pools are the smallest case in which a grant to one leaves
  tombstones in front of the other in a queue of another pool; the AND and the two-unit request are
  the two ways of waiting while somebody behind could start; capacity falls below what is in use at
  instant 1 and rises at 2; 4 enqueues let an id come back under a new ticket among its own
  tombstones.
* **project_files.** Lock: two writers that both find the same leftover reach each way through the
  take-over, including moving aside a lock that is not the one that was looked at; three are needed
  for mutual exclusion to break where nothing fails, which `lila_lock_three` shows. Lila: two attempts are one retry, two
  saves are one save on knowledge gained by a save, and two agents plus a window are all the pairs of
  roles. Folder: three faults are a failed rename, a failed undo and one more; the second save runs on
  snapshots the first one left. Reload: with two files a reload or a save is half-way through, and
  the second foreign write comes while the first is being read, told or kept. Session: four changes
  are a write in flight, two queued, and one made while the quit waits; the second session finds what
  the first left when it died.
* **kernel.** `Claim` has an OR fork, a resource either branch may take, an interrupting and a
  non-interrupting boundary timer; `Audit` has an AND fork with two pools at once and a terminate;
  `Shifts` has a pool whose capacity falls and rises; `Loop` has a cycle that may take no time, a
  race of timers and a gateway at which a token is stuck; `Rework` a task that loops up to three
  times under a timer, a notice and an error; `Panel` a parallel and a sequential multi-instance task
  on one pool, with timers and errors; `Stage` a sub-process inside another with deadlines and
  errors of both, which two tokens leave at once. Two or three cases are enough for one to wait for
  another while the next arrives.
* **calendars.** Days of three seconds can open in two pieces, at midnight or until midnight; a cycle
  of two weeks tells a date from a weekday; 40 s is past the end of every table (two cycles after
  the last one-off holiday), and work for more than a table holds sends the answer to the slow walk.
  The scenarios cross twelve definitions (the whole week, adjacent windows, a gap over the turn of
  the week, holidays in the past, holidays that close everything) with weekly and dated pools.
* **desktop.** Two commands are two dialogs at the same time, a save that overlaps a dialog, or two
  saves; an edit and another change are one the code can see at once and one it sees after a render.
* **simulations.** Two calls that stage a log and two descriptors are what it takes for a closed
  descriptor to be given again while a worker still runs. Four acts of a user are, for example,
  Duplicate, Run, an edit while it runs and Run again while the edit settles, or a comparison that
  is cancelled, edited and retried.

Type invariants (`TypeOK` in each module) are not properties of the runs: five modules have theirs
proved as a part of the inductive invariant, and the others can be checked by naming it in a cfg.

What the properties say, in the words of the code, is in the comments above them. Deadlock is not
checked: each of these systems really ends (a session is closed, a replication is over, every
writer has returned, the bound on time is reached).

## 4 Where code and comments disagree

Six runs are expected to find a violation. (A disagreement of another kind needs no run: the comment of
`datedNextCapacityRise` says a whole Gregorian cycle contains every rise there is, and when the scan
begins on or before the last one-off holiday it stops one midnight short of that. In the Gregorian
calendar every pair of neighbouring days comes back many times in a cycle, so nothing is missed; in
the model, whose days all differ, it could be, and `CapacityAgrees` excepts, for those scans, what lies behind that
midnight.)

* **`lila_lock_three`** (`lilaFile.ts:185`). The comment of `withLilaLock` promises that two writers
  never interleave. A writer that read the token and age of a leftover may rename away the live lock
  of the writer that took the leftover over; it puts it back with a link, but if a third writer
  creates its lock in between the link fails silently and two work at once. No crash, late heartbeat
  or failing call is needed beyond the leftover (`lapses` stays empty). With two writers it takes one of
  them: a heartbeat that is late, or a link that fails although the path is free, as where there are no
  hard links; a lock that is left behind is not enough. (TLC, on `MutualExclusion` with two writers.)
* **`lila_race`** (`lilaFile.ts:88`). A write is promised to be refused if the file changed since it
  was read. `readLilaFile` takes the snapshot after the bytes, so a run that an agent stores between
  the two is vouched for without having been read, and the window's next save erases it. `readLila`
  does it in the right order, and says why.
* **`kernel_tie`** (`sim.ts:1815`). SEMANTICS.md says that all releases of an instant are applied
  before anything is scheduled, so that an OR task takes its first alternative. The code schedules
  after each release, and the task takes the alternative that is released first.
* **`reload_keep_mine`** (`projectIO.ts:354`). AGENT_GUIDE.md and the comment of `alCambiarFuera` say
  that after Keep mine the next save is refused with `E-CAMBIO-EXTERNO`. A reload takes the snapshots
  as it reads and may then give up: the canvas was edited meanwhile, or the file does not parse. From
  then on the snapshot vouches for what is not on screen, and the save after Keep mine goes through.
  `NothingUnseenIsOverwritten` names this and the two other ways a snapshot slips, and shows there
  are no more.
* **`web_compare`** (`App.tsx:2236`). A side of a comparison is not to stay on "Simulating…" forever.
  Compare two scenarios of which the second fails, then edit the first: running it again takes the
  error card of the second away, whose attempt is still noted, so that it is not tried again.
* **`desktop_restore`** (`App.tsx:2179`). The copy is said to stay until the restored project is
  saved or discarded. In the run the canvas is edited while main hands the copy over, and rendered after
  `restaurarCopia` has noted the token: the restore gives up, and giving up deletes the copy, which could
  be read. From the render that shows `ioBusy` on the canvas is inert; what can still move the document
  during the parse is a shortcut of the window or the end of a simulation.

One more is in the model and has no run of its own. REPOSITORY_CONTRACT.md says a crash leaves a
manifest that points at files that exist; a repository that is saved again and dies between setting a
model aside and placing the new one has no model (`projectIO.ts:904`), and nothing puts the `.prev-*`
back. The content is not lost (`RecoveryIsPossible`), the project does not open: `CrashLeavesProject`
of `ProjectFolder`, as an invariant, shows it, and `FirstSaveIsCrashSafe` is the part of it that holds.

## 5 Fairness

* **ResourceManager**: weak fairness of `Drain` (a loop that runs to its end), `Tick` and `Refresh`
  (the kernel serves its events), and `Release` of each id (activities that hold units end, because
  durations are finite).
* **LilaLock**: weak fairness of each writer's step (the process runs, or it has crashed), of `Age`
  (time passes), and strong fairness of the deadline (`GiveUp`), which is enabled again and again
  while a writer goes round the loop that tests it.
* **LilaFile**: weak fairness of the steps of agents, and of the steps a window takes with the lock
  in its hand; a user need never save.
* **Replication**: weak fairness of the loop itself, the only actor. Cancellation is not fair.
* **ProjectReload**: weak fairness of notifications, of the debounce timer and its checks, of the
  messages and the retry timer, of reads and writes that have begun, and of the end of dialogs (the
  user answers). Edits, saves, buttons and other programs are not fair.
* **SessionFile**: weak fairness of the quit: `idle()` going round, its end, and the limit of three
  seconds. Writes are not fair, because one that never settles is the case the limit is for.
* **SimulationTool**: weak fairness of the handlers (the server answers its events), of `terminate`
  and its rejection, and of the end of a worker, one way or another: a simulation is finite
  (`EveryRunEnds`).
* **SimulationRuns**: weak fairness of the effects, of the reparse, of opening a project and of every
  call of `simular`. What the user does is bounded and not fair, so that `RunsGoOn` and
  `EverySideIsTried` speak of the states after the last act.
* **Calendars, ProjectFolder, DesktopSession**: none, only safety is stated. `UnsavedWorkIsCopied` is written as
  an invariant of the states in which everything that was started is over, instead of as a
  liveness property: it needs no promise that timers and messages are served.

## 6 Proofs

Eight modules. A theorem holds for every value of the constants that satisfies the assumptions named;
none assumes fairness. What carries each of them is an inductive invariant; every one of these was
first checked by TLC on the run of its module.

### The pool manager

`ResourceManagerProofs` proves nine theorems about `ResourceManager!Spec`, for any pools,
requests, capacities and bounds that satisfy `BoundsAssumption`, `CapacityAssumption` and
`AlternativesAssumption` (every pool has at least one unit, never more than its weekly ceiling, and
the alternatives of a request are sequences of demands). The code's `ResourceManager` constructor
and the scenario validation guarantee the three.

| Theorem | States |
|---|---|
| `AlwaysTyped` | what waits names an alternative its request declares and is no later than the clock and the counter; what is active holds a declared alternative |
| `CapacityRespectedAtGrant` | units are only taken within the capacity of that instant |
| `CeilingRespected` | the units in use never exceed the best moment of the week |
| `NoImpersonation` | a queued request has exactly one live entry per alternative, whatever tombstones it left before |
| `NoWakeupIsLost` | when an operation is over, no head of a class can start, except for want of a refresh that is due |
| `RecheckIsRedundant` | what the drain loop tests again on a popped head only ever rejects superseded versions |
| `EarliestGoesFirst` | of all the requests that could start, the earliest does |
| `NothingLeaks` | the units in use of a pool are the units its active requests hold |
| `KeepsThePromise` | `Spec => ImplementsAllocation`: the manager implements `Allocation` |

The inductive invariant is built in layers, each of which the next one needs.

1. `Typed`: `TypeOK`, and every entry names a declared alternative of its request and is no newer
   than the clock and `nextSeq`. Without the alternative, the demand of an entry means nothing.
2. `Entries` adds `Ordered` (two entries with one sequence number are alternatives of one request at
   one instant, and sequence numbers grow with time) and `Represented` (a queued request has an entry
   for each alternative). Together they say that comparing `seq` is enough to tell a live entry
   from a tombstone, which is `NoImpersonation`.
3. `Inv` adds `Wakeful`: for every class that is not marked dirty, the ready heap holds the class's
   head under its latest version exactly when that head can go. Preservation is the argument of the
   drain loop: a grant, a drop or a refresh changes units of some pools or the front of some
   queues, and the marks it leaves reach every class of those pools (`MarksReach`, `MarkedStep`); for
   every other class neither the head nor what it needs has moved. When the loop ends nothing is
   marked and nothing is ready, which gives `NoWakeupIsLost`. That the ready heap's minimum is the
   earliest over all classes gives `EarliestGoesFirst`.
4. `Counted` ties the number the code keeps to a set that nothing keeps: `used[p]` is the cardinality
   of the units (request, number) that active requests hold of `p`. A grant adds the units of one
   alternative and a drop takes away the units of the same one, because an id is active once. Stated
   with a cardinality instead of a sum it needs no induction over data.

The refinement maps each action to what a single list in order of arrival would do. Operations that
only begin, evaluate or skip are stutters; `Grant` is `Start`, for which one has to see that the
request at the top of the ready heap is first in its class *in the order of arrival*
(`HeadsAreFirst`: entries stand in the queue in that order, and whoever is ahead is a tombstone),
that it has what it needs, and that nobody earlier has (`GoersStart`, which is `Inv` read
backwards); the first `Drop` of a batch is `Leave` for the whole batch, the others are hidden by the
mapping; and an operation may only begin when nobody can start (`IdleIsSettled`, from `NoLostWakeup`).

### The lock

`ProjectFilesProofs` proves eight theorems about `LilaLock!Spec`, for any number of writers and any bound on
crashes, with and without a leftover, from `LockAssumption` (the names of writers, the leftover and
the absence of a file are different things).

| Theorem | States |
|---|---|
| `TypeCorrect` | the type invariant |
| `ExclusiveUntilALeftover` | mutual exclusion until a lock is left over, whatever else fails |
| `ExclusiveWhileFresh` | mutual exclusion, whoever has crashed and whatever has failed, while no lock file is old enough to be taken for a leftover |
| `NothingIsLeftBehind` | a lock outlives its call only after a crash, an unwritten token, a failed release or a late heartbeat |
| `LivingLocksStay` | until a lock is left over nobody removes, replaces or takes over the lock of a writer at work |
| `LockIsAMutex` | a run in which no lock is left over is one of `FileMutex` |
| `TwoWritersExclude` | with two writers: mutual exclusion while locks are to be trusted, whatever leftover they find, however many of them crash and whatever else fails |
| `LockOfTwoIsAMutex` | with two writers: every run is one of `FileMutex` as long as locks are to be trusted, which is what `project_files` checks |

They say how far the lock can be trusted and delimit what `lila_lock_three` shows: the exclusive create
is right for any number of writers, what fails is the take-over, and it takes three writers, a late
heartbeat or a failing link. The inductive
invariant of the first six is `Orderly`, and its two halves need each other. While nothing is old nobody is on the take-over
path, so whoever created the lock finds it at its path with its own token, so the release removes
it, and a call that ends leaves one there only in the ways that `NothingLeftOver` names; and only a
lock whose call is over, or whose heartbeat is late, can grow old, so until one is left over nothing
does. `LeftoversLast` carries the hypothesis backwards: a state in which nothing was left over has
only such states before it. For the refinement, mutual exclusion makes the `CHOOSE` of the mapping
name the one writer at work, and each step takes the mutex, gives it back or leaves it alone.

The last two rest on `Paired`. A writer that is about to take a lock over has seen the token of the
leftover, or of the other writer, whose call is by then over and creates no more (`Aware`); so a living lock
is only moved aside by a writer that saw the leftover, finds another token in its hands and links
the lock back before anybody could create one (`Alone`). With a third writer both steps of the
argument fail, with a late lock the first, with a link that fails the second. TLC checked `Orderly`,
and `Paired` while locks are to be trusted, on the states of two writers with a leftover, two
crashes and every error (13,310 up to the names of the writers).

### The writers of a `.lila`

`LilaFileProofs`, for any number of agents, windows, attempts, saves and crashes, from
`WritersAssumption`: `RunsOnTheirModel` (`RunsMatchTheModel`) and `AgentsKeepWhatIsThere` (`AgentsTakeNothingBack`). The
invariant is what an agent relies on when it writes: whoever is inside holds the mutex (which is
assumed here: `LilaFile` is built on `FileMutex`, and the theorems on the lock say when the lock file is
one), no identity
in anybody's memory is from the future, and an agent whose identity is still the file's has in memory
what the file holds (`Opened`), which is why it must be taken before the bytes. With that order
exchanged `Opened` is not preserved: that is `lila_race`.

### The project folder

`ProjectFolderProofs`, for any folders, contents, faults, crashes and writes by other programs:
`SavesAreAllOrNothing` (`AllOrNothing`), `NothingIsLost` (`RecoveryIsPossible`) and
`FirstSaveSurvivesCrashes` (`FirstSaveIsCrashSafe`). `FolderAssumption` is what
`writeRepositoryFolder` guarantees of the list it hands to `commitWithRollback`: no destination twice;
every file that stays before the manifest, every file that is retired after it; the old manifest's
files are the retired ones if the folder was not a repository, and nothing is retired if it was; the
new manifest names none of the retired. `FirstSaveSurvivesCrashes` would be false of any other order.

The invariant goes along the journal. A file is as the two lists of the code, what was set aside and
what was placed, say (`AsJournalled`); the loop is through with it (`Passed`), has not come to it
(`Ahead`), or, in the catch block, the undo has come back past it (`Undone`); the file the commit is
at is somewhere between (`AtStep`, `HalfUndone`). A step moves one file from one of these to the next
and leaves the others where they were, so preservation is one lemma about the others (`OtherFiles`,
`StaysInCommit`) and one per step about the file itself. A file that somebody else wrote is no longer
claimed to be as it was, only to be there. For the crashes, what is at a place and what was set aside decide what either manifest
finds.

### The open project

In `ProjectFilesProofs`, for any number of files: `SavesOverwriteWhatWasSeen` proves
`NothingUnseenIsOverwritten`. `Vouches` says, step by step of a reload or a save, whose version the
snapshot of each file is: the screen's, or the one the operation has read or written, as long as the
file has not slipped. The hard cases are the files on either side of the one an operation is at.

### The session file

In `ProjectFilesProofs`, for any number of changes, sessions, crashes and writes that fail or hang:
`NothingStale` and `QuitKeepsTheLast`. The invariant orders the file, the write in flight and the
queue by the change that made them (`Ordered`) and ties the last one queued to the state in memory
(`LastIsLast`).

### The desktop session

`DesktopSessionProofs`, for any number of edits and commands, any copies and any `MaySlip`.
`NothingOldComesBack` proves `NothingOldIsOffered` of all behaviours. `Vouched` says what the copy would be once every
queued task has run: it is there only for work that main knows of, or will hear of with a message on
its way, or that was just restored. It needs that nothing happens while the offer of the launch
copy is not answered (`Untouched`). Tasks and messages are sequences; the lemmas say what one more or
one less at either end changes.

The other three hold up to the slips that their properties name (section 2), so their invariants `Kept`
and `Lasting` are of the form "while `Smooth`": a slip is never taken back (`SlipsStay`), so a smooth
state has only smooth ones before it. Neither is inductive without the other, and `AlwaysInStep` is
the induction for both. Renders and messages may be late in all of it.

`Kept` carries `AutosaveMissesNothing` (`UnsavedWorkIsCopied`) and `NothingIsLostSilently`
(`NoSilentClose`). It says that unsaved work that has been rendered is never ahead of the news of it:
whatever in the queue of messages makes main forget that there is unsaved work is followed by the
news that there is (`Told`), and whatever makes the copy stale is followed by a newer copy or by the
task that writes it (`CopySent`); with no timer armed the snapshot and the save on their way are of
the document as it is (`CopyComes`). Between the end of a save and the render that shows it nothing has
changed that the save does not hold (`Rendered`), or the session has been overtaken. The guards enter
because a save inside a dialog ends with a reply, which may answer another request than the one that
caused it: a guard that leaves has been told `saved` about the document that is there, or the user has
discarded it.

`TheCopyLasts` (`CopyStaysInStep`) needs `Lasting`. Documents only grow while a project is
open, and `Lasting` orders all of them that are on their way: what the copy is to become once the queued
tasks have run, the copies in the box, the snapshot that is taken, what is shown (`Below`, `Growing`,
`Grown`). A message or a task that makes main delete the copy is only ever behind documents that the
file holds (`Meets`, `Covers`), because the renderer sends it when what it shows is what was saved. The
launch copy is not of the project that is open: until it is restored or discarded nothing is sent,
queued or begun (`Still`, `AtLaunch`), and `Saved` counts as nothing a file of the other project.

`Smooth => Kept` and `Smooth => Lasting` were checked before they were proved, with all three slips explored
and one command (4,292,714 states).

### Simulations in workers

`SimulationWorkersProofs`. For the MCP server, any calls, simulations and descriptors, from
`ToolAssumption`: `DescriptorsAreNotTakenOver` (`WorkersOwnTheirDescriptor`), `LogsAreWhole` and
`NothingPartial` (`ResultsAreWhole`). The invariant follows what is kept back to its source: a worker
that still works has sent nothing and its call waits for it, at most one message waits, a call with a
log holds its descriptor until it has ended, and so its file was in no other hands.

For the web application, any scenarios, copies, calls under way and acts of the user, from
`RunsAssumption`: `TheScreenIsTrue` (`ScreenIsTrue`). `WebInv` says that of the calls under way exactly
the one in flight has not been aborted (`OneIsWanted`), that it goes with the canvas (`OnTheCanvas`),
that a stored run is of this project and of the revision it names, and that the screen says so
(`Shown`). All acts that change the canvas or a scenario cancel, which is one lemma (`Cancelled`). The exception is the
project that is being opened when a run begins: `overtaken` remembers it, and `EndOpenKeeps` is where
it is needed. `OutdatedKeeps` shows that the code's test `revision !== revisionRef` after the worker
has answered only ever rejects a run that was overtaken: in every other case cancellation came first.

### The compositions

`ProjectFilesProofs` carries the theorems about the files over to `FilesSpec`, the specification of
the run `project_files` (`FolderAllOrNothing`, `FolderLosesNothing`, `FolderSurvivesFirstSave`,
`LilaRunsMatch`, `LilaAgentsKeep`, `ReloadOverwritesSeen`, `SessionNeverStale`): in each part a step of
the whole is a step of the part or leaves it alone. `SimulationWorkersProofs` does the same for the tools.

### The kernel

`ReplicationProofs` and `TokenProofs` prove four invariants of `Replication!Spec` and one property of its steps, for any process models (graphs, pools,
shifts, boundaries, nestings), any durations and branches drawn and any number of cases, from
`ModelsAssumption`, which says what the tables of a model are: flows, boundaries and start events lead to
nodes, every alternative of a task names at least one pool, every pool has at least one unit at all times
(`E-REC-CAPACIDAD` rejects fewer, and `compileCapacity` fills closed stretches with the next open one), durations are natural numbers, and pools and
sub-processes are finitely many, boundaries have the type of one. `ScopesAssumption`, which only the last two of the
table need, says that sub-processes hold one another as a tree does, where a boundary stands in it, and that a
boundary of a sub-process has one host. Neither asks that a model be sound: a fork without a join or a token that
gets stuck are among the models.

| Theorem | States |
|---|---|
| `Holds` | `IInv`, the inductive invariant |
| `UnitsReturn` | an activity that is served has exactly one end ahead, one that waits has none (`UnitsComeBack`) |
| `NoUnitIsIdle` | nobody waits for units that are free, and who waits for a pool that will rise is going to be woken, once and at the first rise (`NoUnitIdles`) |
| `StopsAtAnEvent` | the end of the observation is something that happened to a case (`StoppedAtIsAModelEvent`) |
| `TokensAreAccounted` | the counts that decide when a case and a sub-process end are the tokens there are, multi-instance entries have the instances they wait for, and a case that has ended keeps nothing (`TokensAccounted`) |
| `BoundariesComeFirst` | no activity completes while a boundary that covers it is due at the same instant (`BoundaryWinsTies`) |

None of them follows from a step alone. For the first three `IInv` is about what is ahead of a state:

* the heap is in the order of time (`Sorted`), nothing in it is earlier than the clock and what enters a
  node is due now (`Events`), and no activity has two ends and no pool two rises (`Once`);
* an activity has an end in it exactly if it does not wait (`OneEnd`), and belongs to the entry it names
  (`Entered`): an interrupted entry takes away all the ends of its instances and no others;
* `pending` are the pools that have a rise in it, which is no later than their first rise after the
  clock, and every pool that is waited for and will rise is among them (`Woken`);
* what fits now will be looked at now (`LookedAt`): while the main loop runs, a waiting activity whose
  alternative is free has a rise of one of its pools in the heap at this very instant;
* if nobody is served and nobody waits, something happened to a case at the clock (`Happened`).

Most of the proof is about the helpers, because a handler is a chain of them. `Good(w, X)` is the same for
what a handler is working on: what is left of the heap together with the events it has pushed. X are the
activities whose end it has taken, or that it is about to throw away, and that have no end ahead for that
reason. A handler begins with
`Good(Now, {Due.act})` or `Good(Now, {})` (`Starting`), every helper keeps it, those that release or cancel
make X empty (`Releasing`), and `Becoming` makes the next state of it. `Releasing` and `Queues` are where
pools are given back or taken: that it is enough to mark the classes that use a pool given back is `Drains`
with `Settling`: whoever else waits fits no better than before, since grants only take away. That time may go by is
`TimePasses`: between the clock and the event that is due no pool that is waited for rises, for its rise
would be in the heap (`RisenBetween`), so what did not fit then does not fit now. That nobody is left waiting
when the heap is empty is `NobodyLeft`: nobody is served, so nothing is in use, so everything fits, which
`LookedAt` does not allow.

`TokenProofs` is about the counts. In a handler they are wrong at almost every step: the token of the
event has been taken and is nowhere yet, a fork has counted tokens that it has not sent, a join has let
go of tokens that it has not counted out, a token on its way has left one sub-process and not entered the
next. `Held(w, n, l)` says by how much: in the work w the counts of the case and of the
sub-processes around the node n, and no others, are l more than the tokens there are. Every helper
shifts l or n by a known amount: a token sent or an activity begun takes one (`EmitHeld`, `BegunHeld`),
what is cut off gives back what it had (`CutOwner`, `CutEntry`), a join gives back those that waited (`AndGone`,
`OrGone`), and `CrossedHeld` takes a token through `crossSubprocesses`, where an error boundary may take
it elsewhere than it was going to and cancel the sub-process it came from. In that case `InterruptedHeld` applies: `interruptSubprocess` takes
out of the counts of the enclosing sub-processes what was in the one that goes, which is right because
that was its own count (`SeveredWorth`), and what is lost in it counts no more. A handler begins with `Held(Now, n, 1)` for the event of a token,
and with `Held(Now, n, 0)` for that of an activity or a boundary, and ends with 0 in hand (`HeldSound`).

The counts are not enough, for the steps above are right only if no token is taken twice. `Sound` has what
that needs, and each action keeps all of it:

* `Looped`, `Lone`: a loop goes on with one activity or with one token that returns to it, never with both or with two;
* `Bordered`: a boundary timer names what is at its host, or what has gone and whose number will not be given
  out again;
* `Populated`: a multi-instance entry has an activity open, and exactly one if it is sequential;
* `Epochs`: no token on its way is of an instance of a sub-process that has not begun, so what is cancelled
  stays cancelled;
* `Marked`: the OR activations in the marks of tokens and activities exist.

The accounts have to say what happens to tokens that the code forgets. A node without a way on that is no end
takes its token and does not count it out, and an event gateway that has one stuck already notes the next in a set,
where it makes no difference. `Lost` says where such tokens may be, and that is why `CountsAgree` claims equality
only where there are none, and otherwise that the counts are not too small. A case that begins inside a
sub-process (`Births`) opens no instance of it, which is why the claim about open instances leaves
these sub-processes out. The models of the run have neither; both showed in the proof.

`BoundaryWinsTies` needs two things of the same invariant. The one is where events stand in the heap: `Early`
says that the end of an activity is never ahead of a boundary that covers it and is due at the same time. It is kept because a
handler pushes its events in an order of its own (`InTime`: the boundaries of a new activity before its end, and
never a boundary for an activity whose end is in the heap already), and because what is pushed goes behind everything that
is due no later (`InTimePushed`). A unit given back ends the wait of other activities, whose ends are pushed long after
their boundaries, and a boundary that watches a loop or an entry was armed before any later iteration or instance began. The deadline of a
sub-process is armed when its first token enters it, when nothing in it is at work yet: `Vacant`, which is
where the counts of tokens come in. Cases that are born in a sub-process (`Births`) are at work in it
before any deadline is armed, and one that is armed later can stand behind an end that is due at the same time: the property leaves
these sub-processes out, which showed in the proof, for the models of the run have none. The other is that only the
activity that is due is ever logged as completed (`NextCompletes`), whatever else its handler closes (`Honest`).

`IInv`, the parts of `Sound` and `Early` were checked by TLC on the 132,049 states of the run `kernel` before they were proved. The
induction over the loops of a handler is the same for each: what holds at first and is kept by every outcome
of a round holds after any number of rounds. The library's induction theorems take what is to be proved as an argument,
which the provers cannot instantiate. Here `RunExists` shows once that the rounds of a loop make a
sequence (`StepOf` gives the loops names, so that it is about all of them), `PushRounds`, `TurnRounds` and so on that it is the one
of `Rounds`, and a lemma for each loop and each thing to be proved of it (`TravelsGoOn`, `EnlistsGoOn` and others) is
the induction along it, by `Upwards`.

### Only model-checked

* Liveness (`EveryRequestIsServed`, `CallsReturn`, `SavesReturn`, `OthersWritesAreTold`, `QuitIsOrderly`,
  `EveryRunEnds`, `RunsGoOn`, `EverySideIsTried`, `EveryCallEnds`), which is out of the prover's
  reach under fairness.
* Of `Replication`: `SoundModelsEnd`, which holds of sound models only, and soundness is nothing that is said of a graph but by
  simulating it.
* `Calendars`, whose tables and walks are RECURSIVE operators, next to which the prover has no SMT, and
  whose properties say what a recursion computes for every input.

## 7 Not modelled

* Resource manager: the cost of units and the statistics the kernel keeps; demands for a pool that
  the scenario does not have, which the code rejects before a run.
* Kernel: working calendars for durations (`Calendars` has them), warm-up, counters and queue
  statistics, conditions on flows (the branch is a choice), warnings. When an activity waits for
  several pools that rise later, the code pushes their rises in the order of its requirements, the
  model in some order: no model of the run has two such pools, and no proof depends on the order.
* Calendars: the arithmetic of civil dates (`daysFromCivil`, `civilFromDays`), the parsing of dates and
  hours, the cache of shapes, instants before the start of the run, durations that are not whole
  seconds.
* `.lila` lock: a token that is written in part, which is taken for one that is not written; a late
  heartbeat that makes an old lock young again, or touches a lock that is not its own; a file system
  whose exclusive create or rename is not atomic.
* Project folder: symbolic links and the checks of destinations, saving over an occupied folder,
  temporary files.
* Open project: a watcher that is replaced because another project is opened, files that appear or go
  (a version is a number), a watch that fails, which the code gives up silently.
* Session file: temporary files that cannot be removed, and what is in the state.
* Desktop session: opening another project, several processes in tabs, a loose diagram saved alone,
  the dialog about losses, a second snapshot while one is being taken, recovery writes that fail.
* Simulations: progress messages, what a simulation computes (Replication's), scenarios that are
  removed, a language change, which reparses, switching to another process of the project.
* Desktop shell: authorised paths, menus, the bridge. Command line and the other MCP tools: argument
  handling around operations that are modelled.
* Random streams, distributions and statistics: floating point and 32-bit generators, nothing that
  small instances say anything about.

Most of the repository's lines are none of these. The largest files are catalogues of texts in two
languages, BPMN parsing, editing, validation and layout, scenario validation, sheets and exports, and
React components: pure functions from documents to documents, or pictures of state. They have no
state of their own, no step anybody can interrupt and no second actor, and their difficulty is in the
data: a model of them small enough to check would be a transcription that TLC runs on three
elements, which the repository's own unit tests do better. The definitions here stand for about 6 % of
the lines, and for most of those at which the order of steps matters.

## 8 Plan

What could be added, in the order in which it is worth doing:

1. **Kernel**: durations on the calendars of `Calendars` instead of numbers.
2. **Desktop session**: opening another project and switching processes under the file lock, together
   with `ProjectReload` and `SimulationRuns`, which today see only their own side of that lock.
3. **Pure algorithms**: the binary heap against the sorted sequence that `Replication` uses, JSON
   Patch against its definition on small documents.
