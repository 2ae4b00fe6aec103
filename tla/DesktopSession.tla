--------------------------- MODULE DesktopSession ---------------------------
(*****************************************************************************)
(* One session of the desktop application: the renderer of                    *)
(* apps/web/src/App.tsx (edits, React renders, saves, autosave, restore), the *)
(* main process of apps/desktop/src/main.ts (dirty flag, recovery copy, close *)
(* guards) and the messages between the two, in the order they are sent.      *)
(*                                                                            *)
(* A document is what the change token tells apart: the project it belongs    *)
(* to, the revision of its model and a count of its other changes (scenarios, *)
(* runs).  The process may die in any state: what it leaves is copy and file. *)
(*****************************************************************************)
EXTENDS Naturals, Sequences

CONSTANTS
    NoDoc,        \* no document: no copy on disk, no token
    Broken,       \* a copy that cannot be read
    Unopenable,   \* a copy that is read, and that the canvas refuses to open
    LaunchCopies, \* what the previous session may have left
    MaySlip,      \* the ways of Slips in which the session may be overtaken
    MaxModel,     \* bound on the edits of the model
    MaxOther,     \* bound on the other changes
    MaxCommands   \* bound on the commands Save, Close and Quit

Doc == [project : {"opened", "restored"}, model : 0 .. MaxModel, other : 0 .. MaxOther]
Opened == [project |-> "opened", model |-> 0, other |-> 0]
Restored == [project |-> "restored", model |-> 0, other |-> 0]

\* What the code counts on never to meet.  "restoring": the user edits or saves before
\* the launch copy that is being restored is on screen.  "merged": one render shows both a
\* change of the document and the end of a save, so that the news of the change is never
\* sent.  "unheard": the window closes while that news is on its way.
Slips == {"restoring", "merged", "unheard"}

ASSUME SessionAssumption ==
    /\ NoDoc \notin Doc /\ Broken \notin Doc /\ Unopenable \notin Doc
    /\ LaunchCopies \subseteq {NoDoc, Broken, Unopenable, Restored}
    /\ MaySlip \subseteq Slips
    /\ MaxModel \in Nat /\ MaxOther \in Nat /\ MaxCommands \in Nat

VARIABLES
    \* renderer
    doc,        \* the document as it is now
    shown,      \* the document of the last render (tokenRef)
    shownDirty, \* the dirty flag of the last render
    savedToken, \* what setSavedToken was last called with
    timer,      \* is the autosave timer armed?
    snap,       \* the autosave snapshot being taken
    save,       \* the save in progress
    restore,    \* where the restore of the launch copy is
    \* between the two processes
    inbox,      \* what the renderer has sent and main has not handled
    requests,   \* lila:close-requested messages on their way to the renderer
    \* main
    dirty,      \* main's dirty flag
    offer,      \* recoveryAtLaunch, NoDoc once the offer is answered
    offered,    \* recoveryOffered: has the renderer asked for the offer?
    queue,      \* the tasks of recoveryQueue
    guard,      \* the two calls of confirmClose, from close and before-quit
    allowQuit,
    closed,     \* has the window closed?
    commands,   \* commands given so far
    \* disk
    copy,       \* recovery.lila
    file,       \* the document of the last successful save
    \* history
    slips       \* how the session has been overtaken so far

renderer == <<doc, shown, shownDirty, savedToken, timer, snap, save, restore>>
main == <<dirty, offer, offered, queue, guard, allowQuit, closed>>
disk == <<copy, file>>
vars == <<renderer, inbox, requests, main, commands, disk, slips>>

Guards == {"close", "quit"}
Outcomes == {"saved", "notSaved"}  \* SaveOutcome: cancelled, failed and diagram-only are one
NoSave == [at |-> "off", doc |-> NoDoc, reply |-> FALSE]
NoSnap == [at |-> "off", doc |-> NoDoc]
NoRestore == [at |-> "none", bytes |-> NoDoc, from |-> NoDoc]
NoGuard == [at |-> "idle", choice |-> "none"]

DirtyMsg(b) == [kind |-> "dirty", value |-> b]
CopyMsg(d) == [kind |-> "copy", value |-> d]
ReplyMsg(o) == [kind |-> "reply", value |-> o]
TakeMsg == [kind |-> "take", value |-> NoDoc]
WriteTask(d) == [kind |-> "write", value |-> d]
ClearTask(by) == [kind |-> "clear", value |-> by]

\* e holds everything d does
Within(d, e) ==
    d = e \/ /\ d \in Doc /\ e \in Doc
             /\ d.project = e.project /\ d.model <= e.model /\ d.other <= e.other

\* ioLock
LockFree == save.at = "off" /\ restore.at # "parsing"

\* React has committed every state update
Committed == doc = shown /\ shownDirty = (doc # savedToken)

LaunchOver == /\ offer = NoDoc /\ restore.at \notin {"handed", "parsing"}
              /\ doc.project = shown.project
UserActs == ~closed /\ offer = NoDoc  \* the offer is modal

\* The set of the ways S is added to those in which the session has been overtaken.
Slip(S) == S \subseteq MaySlip /\ slips' = slips \cup S
When(condition, way) == IF condition THEN {way} ELSE {}

\* The renderer has said that the document is clean, and not rendered that yet
Published == shownDirty /\ doc = savedToken
ChangeSlips == Slip(When(~LaunchOver, "restoring") \cup When(Published, "merged"))

Init ==
    /\ doc = Opened
    /\ shown = Opened
    /\ shownDirty = FALSE
    /\ savedToken = Opened
    /\ timer = FALSE
    /\ snap = NoSnap
    /\ save = NoSave
    /\ restore = NoRestore
    /\ inbox = <<DirtyMsg(FALSE), TakeMsg>>  \* the effects of the first render
    /\ requests = 0
    /\ dirty = FALSE
    /\ offer \in LaunchCopies
    /\ offered = FALSE
    /\ queue = <<>>
    /\ guard = [g \in Guards |-> NoGuard]
    /\ allowQuit = FALSE
    /\ closed = FALSE
    /\ commands = 0
    /\ copy = offer
    /\ file = Opened
    /\ slips = {}

-----------------------------------------------------------------------------
\* The renderer

\* Definitions named Faulty... are deliberate faults, each just before the definition
\* it would replace.  Nothing uses them.

\* The timer that fired is not armed again while the document stays dirty
FaultyCommit(d) ==
    LET now == d # savedToken IN
    /\ shown' = d
    /\ shownDirty' = now
    /\ inbox' = IF now # shownDirty THEN Append(inbox, DirtyMsg(now)) ELSE inbox
    /\ timer' = (now /\ (timer \/ ~shownDirty))

\* What a render and its effects do about the document d: the effect on [dirty]
\* sends the flag when it changed, the autosave effect arms or clears the timer
Commit(d) ==
    LET now == d # savedToken IN
    /\ shown' = d
    /\ shownDirty' = now
    /\ inbox' = IF now # shownDirty THEN Append(inbox, DirtyMsg(now)) ELSE inbox
    /\ timer' = now

\* React commits what a finished promise or an edit of the canvas changed
Render ==
    /\ ~closed
    /\ ~Committed
    /\ Commit(doc)
    /\ UNCHANGED <<doc, savedToken, snap, save, restore, requests, main, commands, disk, slips>>

\* commandStack.changed: revisionRef moves at once, the token at the next render.  While a
\* save or a restore holds the file lock the canvas is inert once that is rendered: until
\* then, and by a shortcut of the window at any time, it can be edited; a finished
\* simulation moves the document in either case.
EditModel ==
    /\ UserActs
    /\ doc.model < MaxModel
    /\ doc' = [doc EXCEPT !.model = @ + 1]
    /\ ChangeSlips
    /\ UNCHANGED <<shown, shownDirty, savedToken, timer, snap, save, restore,
                   inbox, requests, main, commands, disk>>

\* cambiarEscenario: React renders before it returns to the browser
EditScenario ==
    /\ UserActs
    /\ doc.other < MaxOther
    /\ doc' = [doc EXCEPT !.other = @ + 1]
    /\ Commit(doc')
    /\ ChangeSlips
    /\ UNCHANGED <<savedToken, snap, save, restore, requests, main, commands, disk>>

\* simular: the worker answers a simulation that no edit has cancelled; setRuns is
\* rendered later
RunEnds ==
    /\ UserActs
    /\ doc.other < MaxOther
    /\ doc' = [doc EXCEPT !.other = @ + 1]
    /\ ChangeSlips
    /\ UNCHANGED <<shown, shownDirty, savedToken, timer, snap, save, restore,
                   inbox, requests, main, commands, disk>>

\* copiar: the timer fires; it waits while somebody has the file lock.  A second
\* copiar, which the code lets overlap with the first, waits here for it.
TimerFires ==
    /\ ~closed
    /\ timer /\ LockFree /\ snap = NoSnap
    /\ timer' = FALSE
    /\ snap' = [at |-> "export", doc |-> [shown EXCEPT !.model = doc.model]]
    /\ UNCHANGED <<doc, shown, shownDirty, savedToken, save, restore,
                   inbox, requests, main, commands, disk, slips>>

\* procesoActual: the model must not have moved during the export
SnapExported ==
    /\ ~closed
    /\ snap.at = "export"
    /\ snap' = IF snap.doc.model = doc.model
               THEN [snap EXCEPT !.at = "parse"] ELSE NoSnap
    /\ UNCHANGED <<doc, shown, shownDirty, savedToken, timer, save, restore,
                   inbox, requests, main, commands, disk, slips>>

SnapSent ==
    /\ ~closed
    /\ snap.at = "parse"
    /\ snap' = NoSnap
    /\ inbox' = Append(inbox, CopyMsg(snap.doc))
    /\ UNCHANGED <<doc, shown, shownDirty, savedToken, timer, save, restore,
                   requests, main, commands, disk, slips>>

\* saveWithOutcome, up to the take of the file lock
StartSave(reply) ==
    IF LockFree
    THEN /\ save' = [at |-> "export", doc |-> [shown EXCEPT !.model = doc.model],
                     reply |-> reply]
         /\ UNCHANGED inbox
    ELSE /\ inbox' = IF reply THEN Append(inbox, ReplyMsg("notSaved")) ELSE inbox
         /\ UNCHANGED save

SaveCommand ==
    /\ UserActs
    /\ commands < MaxCommands
    /\ commands' = commands + 1
    /\ StartSave(FALSE)
    /\ Slip(When(~LaunchOver, "restoring"))
    /\ UNCHANGED <<doc, shown, shownDirty, savedToken, timer, snap, restore,
                   requests, main, disk>>

\* onCloseRequested
AnswerRequest ==
    /\ ~closed
    /\ requests > 0
    /\ requests' = requests - 1
    /\ StartSave(TRUE)
    /\ UNCHANGED <<doc, shown, shownDirty, savedToken, timer, snap, restore,
                   main, commands, disk, slips>>

Reply(outcome) == IF save.reply THEN <<ReplyMsg(outcome)>> ELSE <<>>

\* The export fails, or the model moved during it, or the picker is cancelled,
\* or the writer throws: nothing is published
SaveGivenUp ==
    /\ ~closed
    /\ save # NoSave
    /\ inbox' = inbox \o Reply("notSaved")
    /\ save' = NoSave
    /\ UNCHANGED <<doc, shown, shownDirty, savedToken, timer, snap, restore,
                   requests, main, commands, disk, slips>>

SaveExported ==
    /\ ~closed
    /\ save.at = "export"
    /\ save.doc.model = doc.model
    /\ save' = [save EXCEPT !.at = "write"]
    /\ UNCHANGED <<doc, shown, shownDirty, savedToken, timer, snap, restore,
                   inbox, requests, main, commands, disk, slips>>

\* Only the revision of the canvas is compared
FaultyUnchanged == save.doc.model = doc.model

\* What was written is compared with the token of the last render and with the
\* revision of the canvas as it is now
Unchanged == save.doc = shown /\ save.doc.model = doc.model

\* The writer answers: the saved token moves and the dirty flag that follows
\* from it is sent without waiting for React
SaveWritten ==
    /\ ~closed
    /\ save.at = "write"
    /\ Slip(When(doc.other # shown.other, "merged"))
    /\ file' = save.doc
    /\ savedToken' = save.doc
    /\ inbox' = Append(inbox, DirtyMsg(~Unchanged))
                \o Reply(IF Unchanged THEN "saved" ELSE "notSaved")
    /\ save' = NoSave
    /\ UNCHANGED <<doc, shown, shownDirty, timer, snap, restore, requests, main,
                   commands, copy>>

\* restaurarCopia: it takes the file lock, or tries again later
RestoreStarts ==
    /\ ~closed
    /\ restore.at = "handed"
    /\ LockFree
    /\ restore' = [restore EXCEPT !.at = "parsing", !.from = shown]
    /\ UNCHANGED <<doc, shown, shownDirty, savedToken, timer, snap, save,
                   inbox, requests, main, commands, disk, slips>>

\* activate: the document on the canvas must still be the one it started from
RestoreOpens ==
    /\ ~closed
    /\ restore.at = "parsing"
    /\ restore.bytes = Restored
    /\ restore.from = shown
    /\ doc' = Restored
    /\ savedToken' = NoDoc
    /\ restore' = [NoRestore EXCEPT !.at = "done"]
    /\ UNCHANGED <<shown, shownDirty, timer, snap, save, inbox, requests, main,
                   commands, disk, slips>>

\* modelador.abrir answers false
RestoreRefused ==
    /\ ~closed
    /\ restore.at = "parsing"
    /\ restore.bytes = Unopenable
    /\ restore.from = shown
    /\ restore' = [NoRestore EXCEPT !.at = "refused"]
    /\ UNCHANGED <<doc, shown, shownDirty, savedToken, timer, snap, save,
                   inbox, requests, main, commands, disk, slips>>

\* The catch of restaurarCopia: whatever went wrong, main is told there is
\* nothing unsaved
RestoreFails ==
    /\ ~closed
    /\ restore.at = "parsing"
    /\ restore.bytes = Broken \/ restore.from # shown
    /\ inbox' = Append(inbox, DirtyMsg(FALSE))
    /\ restore' = [NoRestore EXCEPT !.at = "done"]
    /\ UNCHANGED <<doc, shown, shownDirty, savedToken, timer, snap, save,
                   requests, main, commands, disk, slips>>

-----------------------------------------------------------------------------
\* The main process

\* clearRecovery(), for whoever awaits it
Cleared(by) == IF offer = NoDoc THEN Append(queue, ClearTask(by)) ELSE queue

\* The IPC handler of lila:setDirty and setDirty
HandleDirty(v) ==
    /\ dirty' = v
    /\ queue' = IF v THEN queue ELSE Cleared("nobody")
    /\ UNCHANGED <<offer, offered, guard, allowQuit, closed>>

\* lila:writeRecovery without the test of dirty
FaultyHandleCopy(d) ==
    /\ queue' = IF offer = NoDoc THEN Append(queue, WriteTask(d)) ELSE queue
    /\ UNCHANGED <<dirty, offer, offered, guard, allowQuit, closed>>

\* lila:writeRecovery: dropped unless there is something to recover
HandleCopy(d) ==
    /\ queue' = IF dirty /\ offer = NoDoc THEN Append(queue, WriteTask(d)) ELSE queue
    /\ UNCHANGED <<dirty, offer, offered, guard, allowQuit, closed>>

\* Where a confirmClose that decided to close waits for clearRecovery
Clearing(g) == [guard[g] EXCEPT !.at = IF offer = NoDoc THEN "clearing" ELSE "leaving"]

\* A close that any answer of the renderer lets through
FaultyHandleReply(o) ==
    LET waiting == {g \in Guards : guard[g].at = "saving"} IN
    /\ guard' = [g \in Guards |-> IF g \in waiting THEN Clearing(g) ELSE guard[g]]
    /\ dirty' = (dirty /\ waiting = {})
    /\ queue' = IF waiting # {} THEN Cleared("all") ELSE queue
    /\ UNCHANGED <<offer, offered, allowQuit, closed>>

\* lila:close-response: every confirmClose that waits for one takes it, and
\* decideClose lets only a complete save through
HandleReply(o) ==
    LET waiting == {g \in Guards : guard[g].at = "saving"}
        leaving == IF o = "saved" THEN waiting ELSE {}
    IN
    /\ guard' = [g \in Guards |-> IF g \in leaving THEN Clearing(g)
                                  ELSE IF g \in waiting THEN NoGuard ELSE guard[g]]
    /\ dirty' = (dirty /\ leaving = {})
    /\ queue' = IF leaving # {} THEN Cleared("all") ELSE queue
    /\ UNCHANGED <<offer, offered, allowQuit, closed>>

\* lila:takeRecovery, up to its dialog
HandleTake ==
    /\ offered' = TRUE
    /\ UNCHANGED <<dirty, offer, queue, guard, allowQuit, closed>>

Deliver ==
    /\ inbox # <<>>
    /\ inbox' = Tail(inbox)
    /\ LET msg == Head(inbox) IN
       \/ msg.kind = "dirty" /\ HandleDirty(msg.value)
       \/ msg.kind = "copy" /\ HandleCopy(msg.value)
       \/ msg.kind = "reply" /\ HandleReply(msg.value)
       \/ msg.kind = "take" /\ HandleTake
    /\ UNCHANGED <<renderer, requests, commands, disk, slips>>

\* queueRecovery runs the tasks one after the other; a confirmClose goes on once
\* its own is done
RunTask ==
    /\ queue # <<>>
    /\ LET task == Head(queue)
           served == {g \in Guards : /\ task.kind = "clear"
                                     /\ task.value \in {g, "all"}
                                     /\ guard[g].at = "clearing"}
       IN
       /\ copy' = IF task.kind = "write" THEN task.value ELSE NoDoc
       /\ guard' = [g \in Guards |-> IF g \in served THEN [guard[g] EXCEPT !.at = "leaving"]
                                     ELSE guard[g]]
    /\ queue' = Tail(queue)
    /\ UNCHANGED <<renderer, inbox, requests, dirty, offer, offered, allowQuit, closed,
                   commands, file, slips>>

\* lila:takeRecovery, once its dialog is answered
OfferAnswered(choice) ==
    /\ ~closed
    /\ offered /\ offer # NoDoc
    /\ offer' = NoDoc
    /\ IF choice = "restore"
       THEN /\ restore' = [NoRestore EXCEPT !.at = "handed", !.bytes = offer]
            /\ UNCHANGED queue
       ELSE /\ queue' = Append(queue, ClearTask("offer"))
            /\ UNCHANGED restore
    /\ UNCHANGED <<doc, shown, shownDirty, savedToken, timer, snap, save, inbox,
                   requests, dirty, offered, guard, allowQuit, closed, commands, disk, slips>>

\* The news of a change is on its way to main
Unheard == doc # shown \/ \E i \in DOMAIN inbox : inbox[i] = DirtyMsg(TRUE)

\* The close handler of the window, for a window that the call with state others
\* of the guards wants closed
CloseWindow(others) ==
    IF dirty
    THEN /\ guard' = IF others["close"].at = "idle"
                     THEN [others EXCEPT !["close"] = [at |-> "dialog", choice |-> "none"]]
                     ELSE others
         /\ UNCHANGED <<closed, slips>>
    ELSE /\ closed' = TRUE /\ guard' = others
         /\ Slip(When(Unheard, "unheard"))

PressClose ==
    /\ UserActs
    /\ commands < MaxCommands
    /\ guard["close"].at = "idle"
    /\ commands' = commands + 1
    /\ CloseWindow(guard)
    /\ UNCHANGED <<renderer, inbox, requests, dirty, offer, offered, queue, allowQuit, disk>>

\* before-quit, then the close handler of the window
PressQuit ==
    /\ UserActs
    /\ commands < MaxCommands
    /\ guard["quit"].at = "idle"
    /\ commands' = commands + 1
    /\ IF allowQuit \/ ~dirty
       THEN CloseWindow(guard)
       ELSE /\ guard' = [guard EXCEPT !["quit"].at = "dialog"]
            /\ UNCHANGED <<closed, slips>>
    /\ UNCHANGED <<renderer, inbox, requests, dirty, offer, offered, queue, allowQuit, disk>>

\* The dialog of confirmClose
Answer(g, choice) ==
    /\ ~closed
    /\ guard[g].at = "dialog"
    /\ CASE choice = "cancel" ->
              /\ guard' = [guard EXCEPT ![g] = NoGuard]
              /\ UNCHANGED <<dirty, queue, requests>>
         [] choice = "discard" ->
              /\ guard' = [guard EXCEPT ![g] = [Clearing(g) EXCEPT !.choice = choice]]
              /\ dirty' = FALSE
              /\ queue' = Cleared(g)
              /\ UNCHANGED requests
         [] choice = "save" ->
              /\ guard' = [guard EXCEPT ![g] = [at |-> "saving", choice |-> choice]]
              /\ requests' = requests + 1
              /\ UNCHANGED <<dirty, queue>>
    /\ UNCHANGED <<renderer, inbox, offer, offered, allowQuit, closed, commands, disk, slips>>

\* CLOSE_SAVE_TIMEOUT_MS without an answer: as if the save had failed
TimesOut(g) ==
    /\ ~closed
    /\ guard[g].at = "saving"
    /\ guard' = [guard EXCEPT ![g] = NoGuard]
    /\ UNCHANGED <<renderer, inbox, requests, dirty, offer, offered, queue, allowQuit, closed,
                   commands, disk, slips>>

\* confirmClose said yes: the window or the application is closed again, and this
\* time the guard lets it through, unless there is something unsaved again
Leave(g) ==
    /\ ~closed
    /\ guard[g].at = "leaving"
    /\ CloseWindow([guard EXCEPT ![g] = NoGuard])
    /\ allowQuit' = (allowQuit \/ g = "quit")
    /\ UNCHANGED <<renderer, inbox, requests, dirty, offer, offered, queue, commands, disk>>

Next ==
    \/ EditModel
    \/ EditScenario
    \/ RunEnds
    \/ Render
    \/ TimerFires
    \/ SnapExported
    \/ SnapSent
    \/ SaveCommand
    \/ AnswerRequest
    \/ SaveGivenUp
    \/ SaveExported
    \/ SaveWritten
    \/ RestoreStarts
    \/ RestoreOpens
    \/ RestoreRefused
    \/ RestoreFails
    \/ Deliver
    \/ RunTask
    \/ \E choice \in {"restore", "discard"} : OfferAnswered(choice)
    \/ PressClose
    \/ PressQuit
    \/ \E g \in Guards, choice \in {"save", "discard", "cancel"} : Answer(g, choice)
    \/ \E g \in Guards : TimesOut(g)
    \/ \E g \in Guards : Leave(g)

Spec == Init /\ [][Next]_vars

-----------------------------------------------------------------------------

Token == Doc \cup {NoDoc}
Copies == Token \cup {Broken, Unopenable}

TypeOK ==
    /\ doc \in Doc /\ shown \in Doc /\ savedToken \in Token
    /\ shownDirty \in BOOLEAN /\ timer \in BOOLEAN
    /\ snap \in [at : {"off", "export", "parse"}, doc : Token]
    /\ save \in [at : {"off", "export", "write"}, doc : Token, reply : BOOLEAN]
    /\ restore \in [at : {"none", "handed", "parsing", "done", "refused"},
                   bytes : Copies, from : Token]
    /\ \A i \in DOMAIN inbox :
          \/ inbox[i].kind = "dirty" /\ inbox[i].value \in BOOLEAN
          \/ inbox[i].kind = "copy" /\ inbox[i].value \in Doc
          \/ inbox[i].kind = "reply" /\ inbox[i].value \in Outcomes
          \/ inbox[i].kind = "take"
    /\ requests \in Nat
    /\ dirty \in BOOLEAN /\ offered \in BOOLEAN /\ allowQuit \in BOOLEAN /\ closed \in BOOLEAN
    /\ offer \in Copies
    /\ \A i \in DOMAIN queue :
          \/ queue[i].kind = "write" /\ queue[i].value \in Doc
          \/ queue[i].kind = "clear" /\ queue[i].value \in Guards \cup {"all", "offer", "nobody"}
    /\ guard \in [Guards -> [at : {"idle", "dialog", "saving", "clearing", "leaving"},
                            choice : {"none", "save", "discard"}]]
    /\ commands \in 0 .. MaxCommands
    /\ copy \in Copies /\ file \in Doc
    /\ slips \subseteq Slips

\* The task that is about to run was queued because the user gave the work up
GivenUp == Head(queue).kind = "clear" /\ Head(queue).value \in Guards \cup {"offer"}

\* The document is what the renderer said of it: neither was a copy overtaken while it
\* was restored, nor the news of a change by the end of a save.
Smooth == slips \cap {"restoring", "merged"} = {}

\* What the copy holds is in the file, in a newer copy, or given up by the user.
CopyIsPutAway == Within(copy, copy') \/ Within(copy, file) \/ GivenUp

\* What the recovery copy holds only goes once it is in the project file, in a
\* newer copy, or the user gave it up: "the copy stays on disk until the restored
\* project is saved or discarded" (main.ts, takeRecovery).
CopyStaysUntilSaved == [][(copy \in Doc /\ copy' # copy) => CopyIsPutAway]_vars

\* The same of a session that has not been overtaken: no render, save, timer, late write,
\* dialog or restore of its own makes main delete more than the file holds.
CopyStaysInStep == [][Smooth' /\ copy \in Doc /\ copy' # copy => CopyIsPutAway]_vars

\* The window never closes on work that is not in the file, unless the user
\* answered Discard: neither a save that an edit overtook, nor the answer to
\* another request, nor the second of two dialogs lets it through, as long as the news
\* of what was changed is sent and has arrived.
NoSilentClose ==
    [][slips' = {} /\ ~closed /\ closed' =>
          Within(doc, file) \/ \E g \in Guards : guard[g].choice = "discard"]_vars

\* A snapshot or a write that was on its way when the document became clean does
\* not bring the copy back: after a clean exit there is nothing to offer.
NothingOldIsOffered ==
    /\ ~dirty /\ Committed /\ inbox = <<>> /\ queue = <<>>
    /\ offer = NoDoc /\ restore.at \in {"none", "done"}
    => copy = NoDoc

\* Nothing goes on without the user: no timer, snapshot, save, message or task
AtRest ==
    /\ ~closed /\ Committed
    /\ ~timer /\ snap = NoSnap /\ save = NoSave
    /\ LaunchOver
    /\ inbox = <<>> /\ requests = 0 /\ queue = <<>>
    /\ \A g \in Guards : guard[g].at \in {"idle", "dialog", "saving"}

\* Autosave misses nothing: once everything that was started is over, unsaved work
\* is in the recovery copy, although saves hold the file lock, edits throw
\* snapshots away and main drops the writes it takes for late ones.
UnsavedWorkIsCopied == Smooth /\ AtRest /\ doc # savedToken => copy = doc
=============================================================================
