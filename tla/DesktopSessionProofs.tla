------------------------- MODULE DesktopSessionProofs -------------------------
(* Theorems about a session of the desktop application, for any number of     *)
(* edits, commands and copies left by the session before, and whatever        *)
(* overtakes it (MaySlip).  The first holds of all its behaviours, the others *)
(* up to the first of the Slips that each of them names.                      *)
EXTENDS DesktopSession, SequenceTheorems, TLAPS

Messages ==
    [kind : {"dirty"}, value : BOOLEAN] \cup [kind : {"copy"}, value : Token]
        \cup [kind : {"reply"}, value : Outcomes] \cup {TakeMsg}
Tasks ==
    [kind : {"write"}, value : Token]
        \cup [kind : {"clear"}, value : Guards \cup {"all", "offer", "nobody"}]

\* what a task makes of the copy on disk, and all the tasks of q
Done(t) == IF t.kind = "write" THEN t.value ELSE NoDoc
After(q, c) == IF q = <<>> THEN c ELSE Done(q[Len(q)])
HasDirty(box) == \E i \in 1 .. Len(box) : box[i].kind = "dirty"

\* One more task decides what the copy will be ...
LEMMA AfterOneMore ==
    ASSUME NEW q \in Seq(Tasks), NEW t \in Tasks, NEW c
    PROVE  /\ Append(q, t) \in Seq(Tasks)
           /\ After(Append(q, t), c) = Done(t)
  BY AppendProperties DEF After

\* ... and one that is done changes nothing of it.
LEMMA AfterOneLess ==
    ASSUME NEW q \in Seq(Tasks), q # <<>>, NEW c
    PROVE  /\ Head(q) \in Tasks /\ Tail(q) \in Seq(Tasks)
           /\ After(Tail(q), Done(Head(q))) = After(q, c)
  <1> DEFINE t == Tail(q)
  <1>1. /\ Head(q) \in Tasks /\ t \in Seq(Tasks) /\ Len(t) = Len(q) - 1
        /\ \A i \in 1 .. Len(t) : t[i] = q[i + 1]
    BY HeadTailProperties
  <1>2. Head(q) = q[1]
    BY EmptySeq, LenProperties
  <1> DEFINE n == Len(q)
  <1>4. n \in Nat \ {0}
    BY EmptySeq
  <1>3. After(t, Done(Head(q))) = After(q, c)
    <2> HIDE DEF t
    <2>1. t # <<>> => Len(t) \in Nat \ {0}
      BY <1>1, EmptySeq
    <2>2. t = <<>> => Len(t) = 0
      BY EmptySeq
    <2>3. CASE n = 1
      BY <1>1, <1>2, <1>4, <2>1, <2>3 DEF After
    <2>4. CASE n > 1
      <3>1. t # <<>> /\ t[Len(t)] = q[Len(q)]
        BY <1>1, <1>4, <2>2, <2>4
      <3>. QED BY <3>1 DEF After
    <2>5. n = 1 \/ n > 1
      <3> HIDE DEF n
      <3>. QED BY <1>4
    <2>. QED BY <2>3, <2>4, <2>5
  <1>. QED BY <1>1, <1>3

\* A message put at the end of the box is in it ...
LEMMA DirtyOneMore ==
    ASSUME NEW box \in Seq(Messages), NEW m \in Messages
    PROVE  /\ Append(box, m) \in Seq(Messages)
           /\ HasDirty(Append(box, m)) <=> HasDirty(box) \/ m.kind = "dirty"
  <1> DEFINE b == Append(box, m)
  <1>1. /\ b \in Seq(Messages) /\ Len(b) = Len(box) + 1 /\ Len(box) \in Nat
        /\ \A i \in 1 .. Len(box) : b[i] = box[i]
        /\ b[Len(box) + 1] = m
    BY AppendProperties, LenProperties
  <1>2. HasDirty(b) <=> HasDirty(box) \/ m.kind = "dirty"
    BY <1>1 DEF HasDirty
  <1>. QED BY <1>1, <1>2

\* ... after what was there ...
LEMMA DirtyMore ==
    ASSUME NEW box \in Seq(Messages), NEW more \in Seq(Messages)
    PROVE  /\ box \o more \in Seq(Messages)
           /\ HasDirty(box) => HasDirty(box \o more)
  <1> DEFINE b == box \o more
  <1>1. /\ b \in Seq(Messages) /\ Len(b) = Len(box) + Len(more)
        /\ Len(box) \in Nat /\ Len(more) \in Nat
        /\ \A i \in 1 .. Len(box) + Len(more) :
               b[i] = IF i <= Len(box) THEN box[i] ELSE more[i - Len(box)]
    BY ConcatProperties, LenProperties
  <1>2. HasDirty(box) => HasDirty(b)
    BY <1>1 DEF HasDirty
  <1>. QED BY <1>1, <1>2

\* ... and only the one at the head leaves it.
LEMMA DirtyOneLess ==
    ASSUME NEW box \in Seq(Messages), box # <<>>
    PROVE  /\ Head(box) \in Messages /\ Tail(box) \in Seq(Messages)
           /\ HasDirty(box) => Head(box).kind = "dirty" \/ HasDirty(Tail(box))
  <1> DEFINE t == Tail(box)
  <1>1. /\ Head(box) \in Messages /\ t \in Seq(Messages) /\ Len(t) = Len(box) - 1
        /\ \A i \in 1 .. Len(t) : t[i] = box[i + 1]
    BY HeadTailProperties
  <1>2. Len(box) \in Nat \ {0} /\ Head(box) = box[1]
    BY EmptySeq, LenProperties
  <1>3. HasDirty(box) => Head(box).kind = "dirty" \/ HasDirty(t)
    <2> SUFFICES ASSUME NEW i \in 1 .. Len(box), box[i].kind = "dirty", i # 1
                 PROVE  HasDirty(t)
      BY <1>2 DEF HasDirty
    <2>1. i - 1 \in 1 .. Len(t) /\ t[i - 1] = box[i]
      BY <1>1, <1>2
    <2>. QED BY <2>1 DEF HasDirty
  <1>. QED BY <1>1, <1>3

-----------------------------------------------------------------------------

\* While the offer of the launch copy is not answered nothing has begun.
Untouched ==
    /\ doc = savedToken /\ shown = savedToken /\ ~shownDirty /\ ~timer
    /\ snap = NoSnap /\ save = NoSave /\ restore = NoRestore /\ requests = 0
    /\ guard = [g \in Guards |-> NoGuard]

Types ==
    /\ doc \in Doc /\ shown \in Doc /\ savedToken \in Token /\ shownDirty \in BOOLEAN
    /\ snap \in [at : {"off", "export", "parse"}, doc : Token]
    /\ save \in [at : {"off", "export", "write"}, doc : Token, reply : BOOLEAN]
    /\ restore.at \in {"none", "handed", "parsing", "done", "refused"}
    /\ inbox \in Seq(Messages) /\ queue \in Seq(Tasks)
    /\ dirty \in BOOLEAN

\* A copy that nothing queued will delete is there for something unsaved that main
\* knows of, or hears of with the next message about it, or for a document that was
\* just restored and has still to be rendered.
Vouched ==
    offer = NoDoc /\ After(queue, copy) # NoDoc /\ ~dirty /\ ~HasDirty(inbox)
    => ~shownDirty /\ (restore.at \in {"none", "done"} => savedToken = NoDoc)

Inv == Types /\ (offer # NoDoc => Untouched) /\ Vouched

\* A document that was rendered is one whose dirty flag is on its way, or has not moved.
LEMMA CommitSends ==
    ASSUME Types, NEW d \in Doc, Commit(d)
    PROVE  /\ inbox' \in Seq(Messages) /\ shownDirty' \in BOOLEAN /\ shown' = d
           /\ HasDirty(inbox) => HasDirty(inbox')
           /\ shownDirty' # shownDirty => HasDirty(inbox')
           /\ shownDirty' = (d # savedToken)
  <1> DEFINE now == d # savedToken
  <1>1. DirtyMsg(now) \in Messages /\ DirtyMsg(now).kind = "dirty"
    BY DEF Messages, DirtyMsg
  <1>2. CASE now # shownDirty
    BY <1>1, <1>2, DirtyOneMore DEF Types, Commit
  <1>3. CASE now = shownDirty
    BY <1>3 DEF Types, Commit
  <1>. QED BY <1>2, <1>3

\* The initial state satisfies the invariant.
LEMMA Starts == ASSUME Init PROVE Inv
  <1> USE SessionAssumption DEF SessionAssumption, Init
  <1>1. Opened \in Doc
    BY DEF Opened, Doc
  <1>2. inbox \in Seq(Messages)
    BY DEF DirtyMsg, TakeMsg, Messages
  <1>3. queue \in Seq(Tasks) /\ After(queue, copy) = offer
    BY DEF After
  <1>4. Types
    BY <1>1, <1>2, <1>3 DEF Types, NoSnap, NoSave, NoRestore, Token
  <1>5. offer # NoDoc => Untouched
    BY DEF Untouched
  <1>6. Vouched
    BY <1>3 DEF Vouched
  <1>. QED BY <1>4, <1>5, <1>6 DEF Inv

\* The documents that edits and exports make of a document
LEMMA Documents ==
    ASSUME NEW d \in Doc, NEW e \in Doc
    PROVE  /\ d.model < MaxModel => [d EXCEPT !.model = @ + 1] \in Doc
           /\ d.other < MaxOther => [d EXCEPT !.other = @ + 1] \in Doc
           /\ [d EXCEPT !.model = e.model] \in Doc
           /\ d # NoDoc /\ d \in Token
  BY SessionAssumption DEF SessionAssumption, Doc, Token

\* What the renderer does without a word to main
LEMMA Quietly ==
    ASSUME Inv,
           \/ EditModel \/ RunEnds \/ TimerFires \/ SnapExported \/ SaveExported
           \/ RestoreStarts \/ RestoreRefused
    PROVE  Inv'
  <1> USE DEF Inv, Types, Vouched, disk, main, renderer
  <1>1. CASE EditModel \/ RunEnds
    <2>1. Types'
      BY <1>1, Documents DEF EditModel, RunEnds
    <2>2. offer' = NoDoc /\ Vouched'
      BY <1>1 DEF EditModel, RunEnds, UserActs
    <2>. QED BY <2>1, <2>2
  <1>2. CASE TimerFires
    <2>1. Types'
      <3>1. [shown EXCEPT !.model = doc.model] \in Token
        BY Documents DEF Token
      <3>. QED BY <1>2, <3>1 DEF TimerFires
    <2>2. offer' = NoDoc /\ Vouched'
      BY <1>2 DEF TimerFires, Untouched
    <2>. QED BY <2>1, <2>2
  <1>3. CASE SnapExported
    <2>1. Types'
      BY <1>3 DEF SnapExported, NoSnap, Token
    <2>2. offer' = NoDoc /\ Vouched'
      BY <1>3 DEF SnapExported, Untouched, NoSnap
    <2>. QED BY <2>1, <2>2
  <1>4. CASE SaveExported
    <2>1. Types'
      BY <1>4 DEF SaveExported
    <2>2. offer' = NoDoc /\ Vouched'
      BY <1>4 DEF SaveExported, Untouched, NoSave
    <2>. QED BY <2>1, <2>2
  <1>5. CASE RestoreStarts \/ RestoreRefused
    <2>1. Types' /\ restore'.at \in {"parsing", "refused"}
      <3>1. CASE RestoreRefused
        BY <3>1 DEF RestoreRefused, NoRestore
      <3>2. CASE RestoreStarts
        BY <3>2 DEF RestoreStarts, Types
      <3>. QED BY <1>5, <3>1, <3>2
    <2>2. offer' = NoDoc
      BY <1>5 DEF RestoreStarts, RestoreRefused, Untouched, NoRestore
    <2>3. Vouched'
      BY <1>5, <2>1 DEF RestoreStarts, RestoreRefused
    <2>. QED BY <2>1, <2>2, <2>3
  <1>. QED BY <1>1, <1>2, <1>3, <1>4, <1>5

\* What is rendered
LEMMA Rendering == ASSUME Inv, Render \/ EditScenario PROVE Inv'
  <1> USE DEF Inv, Types, Vouched, disk, main, renderer
  <1>1. CASE Render
    <2>1. Commit(doc) /\ offer = NoDoc
      BY <1>1 DEF Render, Untouched, Committed
    <2>. QED BY <1>1, <2>1, CommitSends DEF Render
  <1>2. CASE EditScenario
    <2>1. doc' \in Doc /\ Commit(doc') /\ offer = NoDoc
      BY <1>2, Documents DEF EditScenario, UserActs
    <2>. QED BY <1>2, <2>1, CommitSends DEF EditScenario
  <1>. QED BY <1>1, <1>2

\* What StartSave sends and begins
LEMMA Saving ==
    ASSUME Types, NEW reply \in BOOLEAN, StartSave(reply)
    PROVE  /\ inbox' \in Seq(Messages) /\ (HasDirty(inbox) => HasDirty(inbox'))
           /\ save' \in [at : {"off", "export", "write"}, doc : Token, reply : BOOLEAN]
  <1>1. ReplyMsg("notSaved") \in Messages
    BY DEF Messages, ReplyMsg, Outcomes
  <1>2. [shown EXCEPT !.model = doc.model] \in Token
    BY Documents DEF Types, Token
  <1>3. inbox' = inbox \/ inbox' = Append(inbox, ReplyMsg("notSaved"))
    BY DEF StartSave
  <1>4. inbox' \in Seq(Messages) /\ (HasDirty(inbox) => HasDirty(inbox'))
    <2>1. CASE inbox' = inbox
      BY <2>1 DEF Types
    <2>2. CASE inbox' = Append(inbox, ReplyMsg("notSaved"))
      BY <1>1, <2>2, DirtyOneMore DEF Types
    <2>. QED BY <1>3, <2>1, <2>2
  <1>5. save' \in [at : {"off", "export", "write"}, doc : Token, reply : BOOLEAN]
    BY <1>2 DEF Types, StartSave
  <1>. QED BY <1>4, <1>5

\* A save that main did not ask for is not answered.
LEMMA Replies == ASSUME Types, NEW o \in {"saved", "notSaved"} PROVE Reply(o) \in Seq(Messages)
  <1>1. ReplyMsg(o) \in Messages
    BY DEF Messages, ReplyMsg, Outcomes
  <1>2. <<>> \in Seq(Messages) /\ <<ReplyMsg(o)>> \in Seq(Messages)
    BY <1>1
  <1>. QED BY <1>2 DEF Reply

\* What the renderer sends
LEMMA Sending ==
    ASSUME Inv,
           \/ SnapSent \/ SaveCommand \/ AnswerRequest \/ SaveGivenUp \/ SaveWritten
           \/ RestoreOpens \/ RestoreFails
    PROVE  Inv'
  <1> USE DEF Inv, disk, main, renderer
  <1>1. CASE SnapSent
    <2>1. CopyMsg(snap.doc) \in Messages
      BY DEF Messages, CopyMsg, Types
    <2>2. Types' /\ (HasDirty(inbox) => HasDirty(inbox'))
      BY <1>1, <2>1, DirtyOneMore DEF SnapSent, Types, NoSnap, Token
    <2>3. offer' = NoDoc
      BY <1>1 DEF SnapSent, Untouched, NoSnap
    <2>. QED BY <1>1, <2>2, <2>3 DEF SnapSent, Vouched
  <1>2. CASE SaveCommand
    <2>1. Types' /\ (HasDirty(inbox) => HasDirty(inbox'))
      BY <1>2, Saving DEF SaveCommand, Types
    <2>2. offer' = NoDoc
      BY <1>2 DEF SaveCommand, UserActs
    <2>. QED BY <1>2, <2>1, <2>2 DEF SaveCommand, Vouched
  <1>3. CASE AnswerRequest
    <2>1. Types' /\ (HasDirty(inbox) => HasDirty(inbox'))
      BY <1>3, Saving DEF AnswerRequest, Types
    <2>2. offer' = NoDoc
      BY <1>3 DEF AnswerRequest, Untouched
    <2>. QED BY <1>3, <2>1, <2>2 DEF AnswerRequest, Vouched
  <1>4. CASE SaveGivenUp
    <2>1. Reply("notSaved") \in Seq(Messages)
      BY Replies DEF Outcomes
    <2>2. Types' /\ (HasDirty(inbox) => HasDirty(inbox'))
      BY <1>4, <2>1, DirtyMore DEF SaveGivenUp, Types, NoSave, Token
    <2>3. offer' = NoDoc
      BY <1>4 DEF SaveGivenUp, Untouched
    <2>. QED BY <1>4, <2>2, <2>3 DEF SaveGivenUp, Vouched
  <1>5. CASE SaveWritten
    <2>1. DirtyMsg(~Unchanged) \in Messages /\ DirtyMsg(~Unchanged).kind = "dirty"
      BY DEF Messages, DirtyMsg
    <2>2. \A o \in Outcomes : Reply(o) \in Seq(Messages)
      BY Replies DEF Outcomes
    <2>3. inbox' \in Seq(Messages) /\ HasDirty(inbox')
      BY <1>5, <2>1, <2>2, DirtyOneMore, DirtyMore DEF SaveWritten, Types, Outcomes
    <2>4. Types'
      BY <1>5, <2>3 DEF SaveWritten, Types, NoSave, Token
    <2>5. offer' = NoDoc
      BY <1>5 DEF SaveWritten, Untouched, NoSave
    <2>. QED BY <2>3, <2>4, <2>5 DEF Vouched
  <1>6. CASE RestoreOpens
    <2>1. Restored \in Doc
      BY SessionAssumption DEF SessionAssumption, Restored, Doc
    <2>2. Types' /\ restore'.at = "done"
      BY <1>6, <2>1 DEF RestoreOpens, Types, NoRestore, Token
    <2>3. offer' = NoDoc
      BY <1>6 DEF RestoreOpens, Untouched, NoRestore
    <2>. QED BY <1>6, <2>2, <2>3 DEF RestoreOpens, Vouched
  <1>7. CASE RestoreFails
    <2>1. DirtyMsg(FALSE) \in Messages /\ DirtyMsg(FALSE).kind = "dirty"
      BY DEF Messages, DirtyMsg
    <2>2. inbox' \in Seq(Messages) /\ HasDirty(inbox')
      BY <1>7, <2>1, DirtyOneMore DEF RestoreFails, Types
    <2>3. Types'
      BY <1>7, <2>2 DEF RestoreFails, Types, NoRestore
    <2>4. offer' = NoDoc
      BY <1>7 DEF RestoreFails, Untouched, NoRestore
    <2>. QED BY <2>2, <2>3, <2>4 DEF Vouched
  <1>. QED BY <1>1, <1>2, <1>3, <1>4, <1>5, <1>6, <1>7

-----------------------------------------------------------------------------

\* A task that deletes the copy, and one that writes it
LEMMA SomeTasks ==
    /\ \A by \in Guards \cup {"all", "offer", "nobody"} :
           ClearTask(by) \in Tasks /\ Done(ClearTask(by)) = NoDoc
    /\ \A d \in Token : WriteTask(d) \in Tasks
  BY DEF Tasks, ClearTask, WriteTask, Done

\* Whoever makes main forget something unsaved has the copy deleted with it.
LEMMA Clears ==
    ASSUME Types, NEW by \in Guards \cup {"all", "offer", "nobody"}
    PROVE  /\ Cleared(by) \in Seq(Tasks)
           /\ offer = NoDoc => \A c : After(Cleared(by), c) = NoDoc
           /\ offer # NoDoc => Cleared(by) = queue
  BY AfterOneMore, SomeTasks DEF Types, Cleared

\* What main makes of a message
LEMMA Delivering == ASSUME Inv, Deliver PROVE Inv'
  <1> USE DEF Inv, disk, renderer
  <1> DEFINE msg == Head(inbox)
  <1>1. /\ msg \in Messages /\ inbox' \in Seq(Messages)
        /\ HasDirty(inbox) => msg.kind = "dirty" \/ HasDirty(inbox')
    BY DirtyOneLess DEF Deliver, Types
  <1>2. UNCHANGED <<renderer, requests, disk>>
    BY DEF Deliver
  <1> HIDE DEF msg
  <1>3. CASE msg.kind = "dirty" /\ HandleDirty(msg.value)
    <2>1. msg.value \in BOOLEAN
      BY <1>1, <1>3 DEF Messages, TakeMsg
    <2>2. Types'
      BY <1>1, <1>2, <1>3, <2>1, Clears DEF HandleDirty, Types
    <2>3. offer' # NoDoc => Untouched'
      BY <1>2, <1>3 DEF HandleDirty, Untouched
    <2>4. Vouched'
      BY <1>1, <1>2, <1>3, <2>1, Clears DEF HandleDirty, Vouched
    <2>. QED BY <2>2, <2>3, <2>4
  <1>4. CASE msg.kind = "copy" /\ HandleCopy(msg.value)
    <2>1. msg.value \in Token
      BY <1>1, <1>4 DEF Messages, TakeMsg
    <2>2. Types'
      BY <1>1, <1>2, <1>4, <2>1, SomeTasks, AfterOneMore DEF HandleCopy, Types
    <2>3. offer' # NoDoc => Untouched'
      BY <1>2, <1>4 DEF HandleCopy, Untouched
    <2>4. Vouched'
      BY <1>1, <1>2, <1>4 DEF HandleCopy, Vouched
    <2>. QED BY <2>2, <2>3, <2>4
  <1>5. CASE msg.kind = "reply" /\ HandleReply(msg.value)
    <2> DEFINE waiting == {g \in Guards : guard[g].at = "saving"}
               leaving == IF msg.value = "saved" THEN waiting ELSE {}
    <2>1. /\ dirty' = (dirty /\ leaving = {})
          /\ queue' = IF leaving # {} THEN Cleared("all") ELSE queue
          /\ offer' = offer
      BY <1>5 DEF HandleReply
    <2>2. Types'
      BY <1>1, <1>2, <2>1, Clears DEF Types
    <2>3. offer' # NoDoc => Untouched'
      <3> SUFFICES ASSUME offer # NoDoc PROVE guard' = guard
        BY <1>2, <2>1 DEF Untouched
      <3>. QED BY <1>5 DEF HandleReply, Untouched, NoGuard
    <2>4. Vouched'
      BY <1>1, <1>2, <1>5, <2>1, Clears DEF Vouched
    <2>. QED BY <2>2, <2>3, <2>4
  <1>6. CASE msg.kind = "take" /\ HandleTake
    BY <1>1, <1>2, <1>6 DEF HandleTake, Types, Untouched, Vouched
  <1>. QED BY <1>3, <1>4, <1>5, <1>6 DEF Deliver, msg

\* What the queue does to the copy, and the answer to the offer
LEMMA Queued ==
    ASSUME Inv, RunTask \/ \E choice \in {"restore", "discard"} : OfferAnswered(choice)
    PROVE  Inv'
  <1> USE DEF Inv, renderer
  <1>1. CASE RunTask
    <2>1. queue' \in Seq(Tasks) /\ copy' = Done(Head(queue)) /\ After(queue', copy') = After(queue, copy)
      BY <1>1, AfterOneLess DEF RunTask, Types, Done
    <2>2. Types'
      BY <1>1, <2>1 DEF RunTask, Types
    <2>3. offer # NoDoc => guard' = guard
      BY <1>1 DEF RunTask, Untouched, NoGuard
    <2>4. offer' # NoDoc => Untouched'
      BY <1>1, <2>3 DEF RunTask, Untouched
    <2>5. Vouched'
      BY <1>1, <2>1 DEF RunTask, Vouched
    <2>. QED BY <2>2, <2>4, <2>5
  <1>2. ASSUME OfferAnswered("discard") PROVE Inv'
    <2>1. offer' = NoDoc
      BY <1>2 DEF OfferAnswered
    <2>2. queue' \in Seq(Tasks) /\ After(queue', copy') = NoDoc
      <3>1. queue' = Append(queue, ClearTask("offer"))
        BY <1>2 DEF OfferAnswered
      <3>2. ClearTask("offer") \in Tasks /\ Done(ClearTask("offer")) = NoDoc
        BY SomeTasks
      <3>. QED BY <3>1, <3>2, AfterOneMore DEF Types
    <2>3. Types'
      BY <1>2, <2>2 DEF OfferAnswered, Types
    <2>. QED BY <2>1, <2>2, <2>3 DEF Vouched
  <1>3. ASSUME OfferAnswered("restore") PROVE Inv'
    <2>1. offer' = NoDoc /\ restore'.at = "handed" /\ ~shownDirty'
      BY <1>3 DEF OfferAnswered, NoRestore, Untouched
    <2>2. Types'
      BY <1>3, <2>1 DEF OfferAnswered, Types
    <2>. QED BY <2>1, <2>2 DEF Vouched
  <1>. QED BY <1>1, <1>2, <1>3

\* What the user and the guards of the window do
LEMMA Closing ==
    ASSUME Inv,
           \/ PressClose \/ PressQuit
           \/ \E g \in Guards, choice \in {"save", "discard", "cancel"} : Answer(g, choice)
           \/ \E g \in Guards : TimesOut(g) \/ Leave(g)
    PROVE  Inv'
  <1> USE DEF Inv, renderer, disk
  <1>1. ASSUME NEW g \in Guards, Answer(g, "discard") PROVE Inv'
    <2>1. dirty' = FALSE /\ queue' = Cleared(g) /\ UNCHANGED <<renderer, inbox, offer>>
      BY <1>1 DEF Answer
    <2>2. Types'
      BY <2>1, Clears DEF Types
    <2>3. offer' = NoDoc
      BY <1>1 DEF Answer, Untouched, NoGuard
    <2>4. Vouched'
      BY <2>1, <2>3, Clears DEF Vouched
    <2>. QED BY <2>2, <2>3, <2>4
  <1>2. ASSUME \/ PressClose \/ PressQuit
               \/ \E g \in Guards : \/ Answer(g, "save") \/ Answer(g, "cancel")
                                   \/ TimesOut(g) \/ Leave(g)
        PROVE  Inv'
    <2>1. UNCHANGED <<renderer, inbox, offer, queue, dirty, copy>>
      BY <1>2 DEF PressClose, PressQuit, Answer, TimesOut, Leave
    <2>2. offer = NoDoc
      BY <1>2 DEF PressClose, PressQuit, UserActs, Answer, TimesOut, Leave, Untouched, NoGuard
    <2>. QED BY <2>1, <2>2 DEF Types, Vouched
  <1>. QED BY <1>1, <1>2

\* The invariant holds in every reachable state.
LEMMA AlwaysInv == Spec => []Inv
  <1>1. Inv /\ [Next]_vars => Inv'
    <2> SUFFICES ASSUME Inv, [Next]_vars PROVE Inv'
      OBVIOUS
    <2>1. CASE UNCHANGED vars
      BY <2>1 DEF vars, renderer, main, disk, Inv, Types, Untouched, Vouched
    <2>. QED BY <2>1, Quietly, Rendering, Sending, Delivering, Queued, Closing DEF Next
  <1>. QED BY Starts, <1>1, PTL DEF Spec

\* A snapshot or a write that was on its way when the document became clean does not
\* bring the recovery copy back: once both processes are quiet and the document is clean
\* there is no copy (setDirty, lila:writeRecovery, queueRecovery).
THEOREM NothingOldComesBack == Spec => []NothingOldIsOffered
  <1>1. Inv => NothingOldIsOffered
    <2> SUFFICES ASSUME Inv, ~dirty, Committed, inbox = <<>>, queue = <<>>, offer = NoDoc,
                        restore.at \in {"none", "done"}, copy # NoDoc
                 PROVE  FALSE
      BY DEF NothingOldIsOffered
    <2>1. After(queue, copy) = copy
      BY DEF After
    <2>2. ~HasDirty(inbox)
      BY DEF HasDirty
    <2>3. ~shownDirty /\ savedToken = NoDoc
      BY <2>1, <2>2 DEF Inv, Vouched
    <2>4. doc # NoDoc
      BY SessionAssumption DEF SessionAssumption, Inv, Types
    <2>. QED BY <2>3, <2>4 DEF Committed
  <1>. QED BY AlwaysInv, <1>1, PTL

-----------------------------------------------------------------------------
(* Unsaved work, until the session is overtaken *)

Has(box, m) == \E i \in DOMAIN box : box[i] = m
\* behind every message of S in the box there is the message m
Followed(box, S, m) ==
    \A i \in DOMAIN box : box[i] \in S => \E k \in DOMAIN box : k > i /\ box[k] = m

\* the messages that make main forget something unsaved, and those that the copy of the
\* document d has to come after
Falses == {DirtyMsg(FALSE), ReplyMsg("saved")}
Stale(d) == {DirtyMsg(TRUE)} \cup {CopyMsg(e) : e \in Token \ {d}}

\* One more message has what was there before it, and follows it all.
LEMMA OneMore ==
    ASSUME NEW box \in Seq(Messages), NEW m \in Messages
    PROVE  /\ Append(box, m) \in Seq(Messages)
           /\ \A x : Has(Append(box, m), x) <=> Has(box, x) \/ x = m
           /\ \A S, x : Followed(box, S, x) /\ m \notin S => Followed(Append(box, m), S, x)
           /\ \A S : m \notin S => Followed(Append(box, m), S, m)
  <1> DEFINE b == Append(box, m)
  <1>1. /\ b \in Seq(Messages) /\ Len(b) = Len(box) + 1 /\ Len(box) \in Nat
        /\ \A i \in 1 .. Len(box) : b[i] = box[i]
        /\ b[Len(box) + 1] = m
    BY AppendProperties, LenProperties
  <1>2. DOMAIN box = 1 .. Len(box) /\ DOMAIN b = 1 .. Len(b)
    BY <1>1, LenProperties
  <1> HIDE DEF b
  <1>3. \A i \in DOMAIN b : i # Len(box) + 1 => i \in DOMAIN box /\ b[i] = box[i]
    BY <1>1, <1>2
  <1>4. ASSUME NEW x PROVE Has(b, x) <=> Has(box, x) \/ x = m
    BY <1>1, <1>2, <1>3 DEF Has
  <1>5. ASSUME NEW S, NEW x, Followed(box, S, x), m \notin S PROVE Followed(b, S, x)
    <2> SUFFICES ASSUME NEW i \in DOMAIN b, b[i] \in S
                 PROVE  \E k \in DOMAIN b : k > i /\ b[k] = x
      BY DEF Followed
    <2>1. i \in DOMAIN box /\ box[i] \in S
      BY <1>1, <1>3, <1>5
    <2>2. PICK k \in DOMAIN box : k > i /\ box[k] = x
      BY <1>5, <2>1 DEF Followed
    <2>. QED BY <1>1, <1>2, <2>2
  <1>6. ASSUME NEW S, m \notin S PROVE Followed(b, S, m)
    <2> SUFFICES ASSUME NEW i \in DOMAIN b, b[i] \in S
                 PROVE  \E k \in DOMAIN b : k > i /\ b[k] = m
      BY DEF Followed
    <2>1. i # Len(box) + 1
      BY <1>1, <1>6
    <2>. QED BY <1>1, <1>2, <1>3, <2>1
  <1>. QED BY <1>1, <1>4, <1>5, <1>6 DEF b

\* When the message at the head leaves, the others stay and follow each other.
LEMMA OneLess ==
    ASSUME NEW box \in Seq(Messages), box # <<>>
    PROVE  /\ Head(box) \in Messages /\ Tail(box) \in Seq(Messages)
           /\ \A x : Has(box, x) => Head(box) = x \/ Has(Tail(box), x)
           /\ \A x : Has(Tail(box), x) => Has(box, x)
           /\ \A S, x : Followed(box, S, x) =>
                 /\ Followed(Tail(box), S, x)
                 /\ \A y \in S : Head(box) = y \/ Has(Tail(box), y) => Has(Tail(box), x)
  <1> DEFINE t == Tail(box)
  <1>1. /\ Head(box) \in Messages /\ t \in Seq(Messages) /\ Len(t) = Len(box) - 1
        /\ \A i \in 1 .. Len(t) : t[i] = box[i + 1]
    BY HeadTailProperties
  <1>2. /\ Len(box) \in Nat \ {0} /\ Head(box) = box[1]
        /\ DOMAIN box = 1 .. Len(box) /\ DOMAIN t = 1 .. Len(t)
    BY <1>1, EmptySeq, LenProperties
  <1> HIDE DEF t
  <1>3. \A i \in DOMAIN box : i # 1 => i - 1 \in DOMAIN t /\ t[i - 1] = box[i]
    BY <1>1, <1>2
  <1>4. \A i \in DOMAIN t : i \in Nat /\ i + 1 \in DOMAIN box /\ t[i] = box[i + 1]
    BY <1>1, <1>2
  <1>5. ASSUME NEW x, Has(box, x) PROVE Head(box) = x \/ Has(t, x)
    BY <1>2, <1>3, <1>5 DEF Has
  <1>6. ASSUME NEW x, Has(t, x) PROVE Has(box, x)
    BY <1>4, <1>6 DEF Has
  <1>7. ASSUME NEW S, NEW x, Followed(box, S, x)
        PROVE  /\ Followed(t, S, x)
               /\ \A y \in S : Head(box) = y \/ Has(t, y) => Has(t, x)
    <2>1. ASSUME NEW i \in DOMAIN box, box[i] \in S
          PROVE  \E k \in DOMAIN t : k > i - 1 /\ t[k] = x
      <3>1. PICK k \in DOMAIN box : k > i /\ box[k] = x
        BY <1>7, <2>1 DEF Followed
      <3>2. i \in Nat \ {0} /\ k \in Nat /\ k # 1
        BY <1>2, <3>1
      <3>3. k - 1 \in DOMAIN t /\ t[k - 1] = x /\ k - 1 > i - 1
        BY <1>3, <3>1, <3>2
      <3>. QED BY <3>3
    <2>2. Followed(t, S, x)
      <3> SUFFICES ASSUME NEW i \in DOMAIN t, t[i] \in S
                   PROVE  \E k \in DOMAIN t : k > i /\ t[k] = x
        BY DEF Followed
      <3>1. i + 1 \in DOMAIN box /\ box[i + 1] \in S /\ i + 1 - 1 = i
        BY <1>4
      <3>. QED BY <2>1, <3>1
    <2>3. Head(box) \in S => Has(t, x)
      BY <1>2, <2>1 DEF Has
    <2>4. ASSUME NEW y \in S, Has(t, y) PROVE Has(t, x)
      BY <2>2, <2>4 DEF Has, Followed
    <2>. QED BY <2>2, <2>3, <2>4
  <1>. QED BY <1>1, <1>5, <1>6, <1>7 DEF t

\* What the messages are
LEMMA SomeMessages ==
    /\ \A b \in BOOLEAN : DirtyMsg(b) \in Messages
    /\ \A d \in Token : CopyMsg(d) \in Messages
    /\ \A o \in Outcomes : ReplyMsg(o) \in Messages
    /\ DirtyMsg(TRUE) \notin Falses
    /\ \A d : CopyMsg(d) \notin Falses
    /\ ReplyMsg("notSaved") \notin Falses
    /\ \A d : ReplyMsg("notSaved") \notin Stale(d) /\ CopyMsg(d) \notin Stale(d)
  BY DEF Messages, DirtyMsg, CopyMsg, ReplyMsg, Outcomes, Falses, Stale

\* The document is unsaved, and the last render said so.
Unsaved == shownDirty /\ doc # savedToken
\* The user gave the work up, and the window or the application is about to close.
Discarded ==
    \E g \in Guards : guard[g].at \in {"clearing", "leaving"} /\ guard[g].choice = "discard"

\* Whatever makes main forget what is unsaved is overtaken by the news that it is.
Told ==
    /\ Followed(inbox, Falses, DirtyMsg(TRUE))
    /\ ~dirty => Has(inbox, DirtyMsg(TRUE)) \/ Discarded

\* Behind that news comes the copy of what is shown, or main has it already.
CopySent ==
    /\ Followed(inbox, Stale(shown), CopyMsg(shown))
    /\ \/ Has(inbox, CopyMsg(shown))
       \/ After(queue, copy) = shown
       \/ ~dirty /\ Discarded

\* With no timer armed the snapshot being taken, the copy sent and the save in progress
\* are of the document as it is.
CopyComes ==
    doc = shown /\ ~timer =>
        /\ snap # NoSnap => snap.doc = shown
        /\ save.at # "off" => save.doc = shown
        /\ snap = NoSnap => CopySent

GuardStates ==
    [at : {"idle", "dialog", "saving", "clearing", "leaving"}, choice : {"none", "save", "discard"}]

\* While the end of a save has still to be rendered nothing has changed since, and a
\* document that was rendered as clean is.
Rendered ==
    /\ Published => /\ shown.project = doc.project /\ shown.other = doc.other
                    /\ save.at # "off" => save.doc = doc
    /\ ~shownDirty /\ doc = shown => doc = savedToken

Kept ==
    /\ guard \in [Guards -> GuardStates]
    /\ savedToken \in {file, NoDoc}
    /\ Rendered
    /\ ~closed /\ Unsaved => Told /\ CopyComes

\* What becomes of the copy: a task that replaces it by the document d, or deletes it for
\* a file that holds f, takes nothing away from x.
Covers(t, x, f) ==
    x \in Doc => IF t.kind = "write" THEN Within(x, t.value)
                 ELSE t.value \in {"nobody", "all"} => Within(x, f)
\* In a queue each task does so to what the one before it leaves.
Prior(q, c, i) == IF i = 1 THEN c ELSE Done(q[i - 1])
Orderly(q, c, f) == \A i \in DOMAIN q : Covers(q[i], Prior(q, c, i), f)

\* The same of a message; in the box each does so to what was copied before it, x being the
\* last copy that main has, and nothing there is of a later document than top.
Meets(m, x, f) ==
    x \in Doc => /\ m.kind = "copy" => Within(x, m.value)
                 /\ m \in Falses => Within(x, f)
Growing(box, x, f) ==
    /\ \A i \in DOMAIN box : Meets(box[i], x, f)
    /\ \A i, j \in DOMAIN box :
          i < j /\ box[i].kind = "copy" => Meets(box[j], box[i].value, f)
Below(box, x, top) ==
    /\ x \in Doc => Within(x, top)
    /\ \A i \in DOMAIN box : box[i].kind = "copy" => Within(box[i].value, top)

\* What a copy or a save taken now is of, the latest document that was copied, and what
\* the file holds of the project that is open
Taken(d, s) == IF d.project = s.project THEN [s EXCEPT !.model = d.model] ELSE d
Now == Taken(doc, shown)
Top == IF snap = NoSnap THEN Now ELSE snap.doc
Saved == IF file.project = doc.project THEN file ELSE NoDoc

\* The launch copy is answered for: what was handed over has been opened, or was not there.
Launched == offer = NoDoc /\ restore.at \notin {"handed", "parsing"}
\* The project that was opened last is not shown yet.
Unshown == doc.project # shown.project

\* Until the launch copy is answered for and shown, nobody works on the document ...
Still ==
    ~Launched \/ Unshown =>
        /\ ~timer /\ snap = NoSnap /\ save = NoSave /\ requests = 0 /\ ~dirty
        /\ \A g \in Guards : guard[g] = NoGuard
        /\ Unshown => inbox = <<>>

\* ... and the copy is the one that was found.
AtLaunch ==
    /\ ~Launched =>
          /\ doc = Opened /\ shown = Opened /\ savedToken = Opened /\ ~shownDirty
          /\ queue = <<>>
    /\ offer # NoDoc =>
          /\ copy = offer /\ offer \in {Broken, Unopenable, Restored}
          /\ \A i \in DOMAIN inbox : /\ inbox[i] \in {DirtyMsg(FALSE), TakeMsg}
                                     /\ inbox[i] = TakeMsg => i = Len(inbox)
          /\ offered => inbox = <<>>
    /\ restore.at \in {"handed", "parsing"} =>
          /\ copy = restore.bytes /\ copy \in {Broken, Unopenable, Restored}
          /\ inbox = <<>>
          /\ restore.at = "parsing" => restore.from = shown

\* What is shown, copied or saved is of no later document than the one that is open, and
\* a save never takes anything out of the file.
Grown ==
    /\ ~Unshown => Within(shown, doc)
    /\ snap # NoSnap => Within(snap.doc, Now)
    /\ save.at # "off" => Within(save.doc, Now) /\ (Saved \in Doc => Within(Saved, save.doc))
    /\ Saved \in Doc => Within(Saved, Now)

Lasting ==
    /\ Still /\ AtLaunch /\ Grown
    /\ Orderly(queue, copy, Saved)
    /\ Launched => /\ Below(inbox, After(queue, copy), Top)
                     /\ Growing(inbox, After(queue, copy), Saved)

\* Within is an order of the documents, and no document is within no document.
LEMMA Growth ==
    /\ \A d : Within(d, d)
    /\ \A c, d, e : Within(c, d) /\ Within(d, e) => Within(c, e)
    /\ \A c, d : d \in Doc /\ Within(c, d) => c \in Doc
    /\ \A d \in Doc : ~Within(d, NoDoc)
  BY SessionAssumption DEF SessionAssumption, Within, Doc

\* What is taken of a document
LEMMA Takings ==
    ASSUME NEW d \in Doc, NEW s \in Doc, d.project = s.project => Within(s, d)
    PROVE  /\ Taken(d, s) \in Doc /\ Taken(d, s).project = d.project
           /\ Within(Taken(d, s), d) /\ Taken(d, d) = d
           /\ d.project = s.project => Taken(d, s) = [s EXCEPT !.model = d.model]
  BY SessionAssumption DEF SessionAssumption, Taken, Within, Doc

\* The documents a session starts with
LEMMA LaunchDocuments ==
    /\ Opened \in Doc /\ Restored \in Doc /\ Opened.project # Restored.project
    /\ NoDoc \notin Doc /\ Broken \notin Doc /\ Unopenable \notin Doc
  BY SessionAssumption DEF SessionAssumption, Opened, Restored, Doc

\* A step that does not overtake the session finds it in step.
LEMMA InStep ==
    ASSUME Smooth'
    PROVE  /\ ChangeSlips => Launched /\ ~Unshown /\ ~Published
           /\ \A c, way : /\ way \in {"restoring", "merged"}
                          /\ Slip(When(c, way))
                          => ~c
  <1>1. ASSUME NEW c, NEW way \in {"restoring", "merged"}, Slip(When(c, way)) PROVE ~c
    BY <1>1 DEF Smooth, Slip, When
  <1>2. ASSUME ChangeSlips PROVE LaunchOver /\ ~Published
    BY <1>2 DEF Smooth, ChangeSlips, Slip, When
  <1>. QED BY <1>1, <1>2 DEF LaunchOver, Launched, Unshown

\* It holds at first.
LEMMA KeptStarts == ASSUME Init PROVE Kept
  BY DEF Init, Kept, GuardStates, Rendered, Published, Unsaved, NoGuard, NoSave

\* What the file holds is not later than what is shown, nor that than the document.
LEMMA Later ==
    ASSUME Types, Kept, Lasting, ~Unshown, savedToken # NoDoc, savedToken.project = doc.project
    PROVE  /\ shown.model <= doc.model /\ shown.other <= doc.other
           /\ savedToken.model <= doc.model /\ savedToken.other <= shown.other
  <1>1. doc \in Doc /\ shown \in Doc /\ doc.project = shown.project /\ Within(shown, doc)
    BY DEF Types, Lasting, Grown, Unshown
  <1>2. Saved = savedToken /\ savedToken \in Doc
    BY DEF Kept, Saved, Types, Token
  <1>3. Within(savedToken, Now) /\ Now = [shown EXCEPT !.model = doc.model]
    BY <1>1, <1>2, Takings DEF Lasting, Grown, Now
  <1>. QED BY <1>1, <1>2, <1>3, SessionAssumption DEF Within, Doc, SessionAssumption

\* An edit or the answer of a simulation makes the document later than what is shown and
\* saved.
LEMMA Changed ==
    ASSUME Inv, Kept, Lasting, ~Unshown,
           \/ doc.model < MaxModel /\ doc' = [doc EXCEPT !.model = @ + 1]
           \/ doc.other < MaxOther /\ doc' = [doc EXCEPT !.other = @ + 1]
    PROVE  doc' # shown /\ doc' # savedToken
  <1>1. doc \in Doc /\ shown \in Doc /\ Within(shown, doc) /\ savedToken \in Token
    BY DEF Inv, Types, Lasting, Grown
  <1>2. /\ doc.model \in Nat /\ doc.other \in Nat /\ shown.model \in Nat /\ shown.other \in Nat
        /\ shown.model <= doc.model /\ shown.other <= doc.other
    BY <1>1, SessionAssumption DEF Within, Doc, SessionAssumption
  <1>3. doc'.project = doc.project /\ (doc'.model > doc.model \/ doc'.other > doc.other)
    BY <1>1, <1>2 DEF Doc
  <1>4. doc' # shown
    BY <1>2, <1>3
  <1>5. doc' # savedToken
    <2> SUFFICES ASSUME doc' = savedToken PROVE FALSE
      OBVIOUS
    <2>1. savedToken # NoDoc
      BY <1>1, Documents
    <2>2. savedToken.model <= doc.model /\ savedToken.other <= shown.other
      BY <1>3, <2>1, Later DEF Inv
    <2>3. savedToken \in Doc
      BY <1>1, <2>1 DEF Token
    <2>4. savedToken.model \in Nat /\ savedToken.other \in Nat
      BY <2>3 DEF Doc
    <2>5. ~(savedToken.model > doc.model) /\ ~(savedToken.other > doc.other)
      BY <1>2, <2>2, <2>4
    <2>. QED BY <1>3, <2>5
  <1>. QED BY <1>4, <1>5

\* Edits and answers of simulations leave a render due.
LEMMA KeptEditing ==
    ASSUME Inv, Kept, Lasting, Smooth', EditModel \/ RunEnds
    PROVE  Kept'
  <1> USE DEF main, disk, renderer
  <1>1. ~Unshown /\ ~Published
    BY InStep DEF EditModel, RunEnds
  <1>2. doc' # shown /\ doc' # savedToken
    BY <1>1, Changed DEF EditModel, RunEnds
  <1>3. UNCHANGED <<shown, shownDirty, savedToken, inbox, dirty, guard, file, closed, save>>
    BY DEF EditModel, RunEnds
  <1>. QED BY <1>1, <1>2, <1>3
       DEF Kept, Rendered, Published, Unsaved, Told, Discarded, CopyComes

\* The snapshot, from the timer to the message
LEMMA KeptSnapping ==
    ASSUME Inv, Kept, TimerFires \/ SnapExported \/ SnapSent
    PROVE  Kept'
  <1> USE DEF main, disk, renderer
  <1>0. UNCHANGED <<doc, shown, shownDirty, savedToken, save, restore, requests, main,
                    commands, disk>>
    BY DEF TimerFires, SnapExported, SnapSent
  <1>1. Rendered' /\ (Unsaved' <=> Unsaved) /\ (Discarded' <=> Discarded)
    BY <1>0 DEF Kept, Rendered, Published, Unsaved, Discarded
  <1> SUFFICES ASSUME ~closed, Unsaved PROVE Told' /\ CopyComes'
    BY <1>0, <1>1 DEF Kept
  <1>5. Told /\ CopyComes
    BY DEF Kept
  <1>6. ASSUME inbox' = inbox PROVE Told'
    BY <1>0, <1>1, <1>5, <1>6 DEF Told
  <1>2. CASE TimerFires
    <2>1. Told'
      BY <1>2, <1>6 DEF TimerFires
    <2>2. snap' # NoSnap /\ save.at = "off"
      BY <1>2 DEF TimerFires, NoSnap, LockFree
    <2>3. doc = shown => snap'.doc = shown
      BY <1>2 DEF TimerFires, Inv, Types, Doc
    <2>. QED BY <1>0, <2>1, <2>2, <2>3 DEF CopyComes
  <1>3. CASE SnapExported
    <2>1. Told'
      BY <1>3, <1>6 DEF SnapExported
    <2>2. snap # NoSnap /\ timer' = timer
      BY <1>3 DEF SnapExported, NoSnap
    <2>3. snap' # NoSnap => snap'.doc = snap.doc
      BY <1>3 DEF SnapExported, Inv, Types
    <2>4. snap' = NoSnap => snap.doc.model # doc.model
      BY <1>3 DEF SnapExported, NoSnap
    <2>. QED BY <1>0, <2>1, <2>2, <2>3, <2>4, <1>5 DEF CopyComes
  <1>4. CASE SnapSent
    <2>1. CopyMsg(snap.doc) \in Messages /\ CopyMsg(snap.doc) \notin Falses
          /\ CopyMsg(snap.doc) # DirtyMsg(TRUE)
      BY SomeMessages DEF Inv, Types, CopyMsg, DirtyMsg
    <2>2. inbox' = Append(inbox, CopyMsg(snap.doc)) /\ inbox \in Seq(Messages)
      BY <1>4 DEF SnapSent, Inv, Types
    <2>3. Told'
      BY <1>0, <1>1, <1>5, <2>1, <2>2, OneMore DEF Told
    <2>4. snap # NoSnap /\ timer' = timer
      BY <1>4 DEF SnapSent, NoSnap
    <2>5. ASSUME doc = shown, ~timer PROVE CopySent'
      <3>1. snap.doc = shown
        BY <1>5, <2>4, <2>5 DEF CopyComes
      <3>2. CopyMsg(shown) \notin Stale(shown)
        BY SomeMessages
      <3>. QED BY <1>0, <2>1, <2>2, <3>1, <3>2, OneMore DEF CopySent
    <2>6. doc' = shown' /\ ~timer' => CopySent'
      BY <1>0, <2>4, <2>5
    <2>7. snap' = NoSnap /\ save' = save /\ (doc = shown /\ ~timer => (save.at # "off" => save.doc = shown))
      BY <1>0, <1>4, <1>5 DEF SnapSent, CopyComes
    <2>. QED BY <1>0, <2>3, <2>4, <2>6, <2>7 DEF CopyComes
  <1>. QED BY <1>2, <1>3, <1>4

\* What a render does: it sends what changed, and arms the timer for what is unsaved.
LEMMA KeptRendering ==
    ASSUME Inv, Kept, Lasting, Smooth', Render \/ EditScenario
    PROVE  Kept'
  <1> USE DEF main, disk, renderer
  <1> DEFINE now == doc' # savedToken
  <1>1. /\ shown' = doc' /\ shownDirty' = now /\ timer' = now
        /\ inbox' = IF now # shownDirty THEN Append(inbox, DirtyMsg(now)) ELSE inbox
        /\ UNCHANGED <<savedToken, snap, save, restore, requests, main, disk>>
    BY DEF Render, EditScenario, Commit
  <1>2. Rendered'
    BY <1>1 DEF Rendered, Published
  <1> SUFFICES ASSUME ~closed, now PROVE Told' /\ CopyComes'
    BY <1>1, <1>2 DEF Kept, Unsaved
  <1>3. CopyComes'
    BY <1>1 DEF CopyComes
  <1>4. CASE ~shownDirty
    <2>1. inbox' = Append(inbox, DirtyMsg(TRUE)) /\ inbox \in Seq(Messages)
      BY <1>1, <1>4 DEF Inv, Types
    <2>2. Followed(inbox', Falses, DirtyMsg(TRUE)) /\ Has(inbox', DirtyMsg(TRUE))
      BY <2>1, SomeMessages, OneMore
    <2>. QED BY <1>3, <2>2 DEF Told
  <1>5. CASE shownDirty
    <2>1. doc # savedToken
      <3>1. CASE Render
        BY <1>5, <3>1 DEF Render
      <3>2. CASE EditScenario
        BY <1>5, <3>2, InStep DEF EditScenario, Published
      <3>. QED BY <3>1, <3>2
    <2>. QED BY <1>1, <1>3, <1>5, <2>1 DEF Kept, Unsaved, Told, Discarded
  <1>. QED BY <1>4, <1>5 DEF Inv, Types

\* One message more that says nothing of what is unsaved
LEMMA NothingNew ==
    ASSUME Inv, inbox' = inbox \/ inbox' = Append(inbox, ReplyMsg("notSaved")),
           UNCHANGED <<shown, shownDirty, savedToken, dirty, guard, queue, copy>>
    PROVE  (Told => Told') /\ (CopySent => CopySent')
  <1>1. Discarded' <=> Discarded
    BY DEF Discarded
  <1>2. CASE inbox' = inbox
    BY <1>1, <1>2 DEF Told, CopySent
  <1>3. CASE inbox' = Append(inbox, ReplyMsg("notSaved"))
    <2>1. /\ ReplyMsg("notSaved") \in Messages
          /\ ReplyMsg("notSaved") \notin Falses /\ ReplyMsg("notSaved") \notin Stale(shown)
          /\ inbox \in Seq(Messages)
      BY SomeMessages DEF Inv, Types, Outcomes
    <2>2. ASSUME Told PROVE Told'
      BY <1>1, <1>3, <2>1, <2>2, OneMore DEF Told
    <2>3. ASSUME CopySent PROVE CopySent'
      BY <1>1, <1>3, <2>1, <2>3, OneMore DEF CopySent
    <2>. QED BY <2>2, <2>3
  <1>. QED BY <1>2, <1>3

\* A save, from the command or the request to the writer
LEMMA KeptSaving ==
    ASSUME Inv, Kept, SaveCommand \/ AnswerRequest \/ SaveGivenUp \/ SaveExported
    PROVE  Kept'
  <1> USE DEF main, disk, renderer
  <1>1. UNCHANGED <<doc, shown, shownDirty, savedToken, timer, snap, restore, main, disk>>
    BY DEF SaveCommand, AnswerRequest, SaveGivenUp, SaveExported
  <1>2. inbox' = inbox \/ inbox' = Append(inbox, ReplyMsg("notSaved"))
    <2>1. inbox \o <<>> = inbox /\ inbox \o <<ReplyMsg("notSaved")>> = Append(inbox, ReplyMsg("notSaved"))
      BY DEF Inv, Types
    <2>. QED BY <2>1 DEF SaveCommand, AnswerRequest, SaveGivenUp, SaveExported, StartSave, Reply
  <1>3. \/ save'.at = "off" \/ save'.doc = [shown EXCEPT !.model = doc.model]
        \/ save.at # "off" /\ save'.doc = save.doc
    <2>1. CASE SaveGivenUp
      BY <2>1 DEF SaveGivenUp, NoSave
    <2>2. CASE SaveExported
      BY <2>2 DEF SaveExported, Inv, Types
    <2>3. ASSUME NEW reply \in BOOLEAN, StartSave(reply)
          PROVE  \/ save'.doc = [shown EXCEPT !.model = doc.model]
                 \/ save' = save
      BY <2>3 DEF StartSave
    <2>4. CASE SaveCommand \/ AnswerRequest
      BY <2>3, <2>4 DEF SaveCommand, AnswerRequest
    <2>. QED BY <2>1, <2>2, <2>4
  <1>4. doc \in Doc /\ shown \in Doc
    BY DEF Inv, Types
  <1>5. Rendered'
    <2>1. shown.project = doc.project /\ shown.other = doc.other
          => [shown EXCEPT !.model = doc.model] = doc
      BY <1>4 DEF Doc
    <2>. QED BY <1>1, <1>3, <2>1 DEF Kept, Rendered, Published
  <1>6. doc = shown /\ save'.at # "off" /\ (save.at # "off" => save.doc = shown) => save'.doc = shown
    BY <1>3, <1>4 DEF Doc
  <1>7. Unsaved' <=> Unsaved
    BY <1>1 DEF Unsaved
  <1> SUFFICES ASSUME ~closed, Unsaved PROVE Told' /\ CopyComes'
    BY <1>1, <1>5, <1>7 DEF Kept
  <1>8. Told /\ CopyComes
    BY DEF Kept
  <1>9. Told' /\ (CopySent => CopySent')
    BY <1>1, <1>2, <1>8, NothingNew
  <1>. QED BY <1>1, <1>6, <1>8, <1>9 DEF CopyComes

\* The writer answers: what is still unsaved is told again, and nothing is unless the
\* document moved during the save, in which case a render is due or the timer is armed.
LEMMA KeptWritten ==
    ASSUME Inv, Kept, Lasting, Smooth', SaveWritten
    PROVE  Kept'
  <1> USE DEF main, disk, renderer
  <1>1. /\ save.at = "write" /\ doc.other = shown.other
        /\ savedToken' = save.doc /\ file' = save.doc /\ save' = NoSave
        /\ UNCHANGED <<doc, shown, shownDirty, timer, snap, restore, main, copy>>
    BY InStep DEF SaveWritten
  <1>2. doc \in Doc /\ shown \in Doc /\ savedToken \in Token
    BY DEF Inv, Types
  <1>3. ~Unshown
    BY <1>1 DEF Lasting, Still, NoSave
  <1>4. Now = doc
    <2>1. doc.project = shown.project /\ Within(shown, doc)
      BY <1>3 DEF Unshown, Lasting, Grown
    <2>2. Now = [shown EXCEPT !.model = doc.model]
      BY <1>2, <2>1, Takings DEF Now
    <2>. QED BY <1>1, <1>2, <2>1, <2>2 DEF Doc
  <1>5. Within(save.doc, doc) /\ (Saved \in Doc => Within(Saved, save.doc))
    BY <1>1, <1>4 DEF Lasting, Grown
  <1>6. Unchanged => shown = doc
    BY <1>1, <1>2, <1>3 DEF Unchanged, Unshown, Doc
  <1>7. Rendered'
    <2>1. Published' => shown'.project = doc'.project /\ shown'.other = doc'.other
      BY <1>1, <1>3 DEF Unshown
    <2>2. ASSUME ~shownDirty, doc = shown PROVE doc = save.doc
      <3>1. doc = savedToken /\ file = doc /\ Saved = doc
        BY <1>2, <2>2, Documents DEF Kept, Rendered, Saved
      <3>2. Within(doc, save.doc) /\ Within(save.doc, doc)
        BY <1>2, <1>5, <3>1
      <3>. QED BY <1>2, <3>2, SessionAssumption DEF Within, Doc, SessionAssumption
    <2>. QED BY <1>1, <2>1, <2>2 DEF Rendered, NoSave
  <1> SUFFICES ASSUME ~closed, Unsaved' PROVE Told' /\ CopyComes'
    BY <1>1, <1>7 DEF Kept
  <1>8. shownDirty /\ save.doc # doc /\ ~Unchanged
    BY <1>1, <1>6 DEF Unsaved, Unchanged
  <1>9. CopyComes'
    <2> SUFFICES ASSUME doc = shown, ~timer PROVE FALSE
      BY <1>1 DEF CopyComes
    <2>1. CASE Unsaved
      BY <1>1, <1>8, <2>1 DEF Kept, CopyComes
    <2>2. CASE ~Unsaved
      <3>1. Published
        BY <1>8, <2>2 DEF Unsaved, Published
      <3>. QED BY <1>1, <1>8, <3>1 DEF Kept, Rendered
    <2>. QED BY <2>1, <2>2
  <1>10. Told'
    <2> DEFINE box == Append(inbox, DirtyMsg(TRUE))
    <2>1. /\ inbox \in Seq(Messages) /\ DirtyMsg(TRUE) \in Messages
          /\ DirtyMsg(TRUE) \notin Falses
          /\ ReplyMsg("notSaved") \in Messages /\ ReplyMsg("notSaved") \notin Falses
      BY SomeMessages DEF Inv, Types, Outcomes
    <2>2. /\ box \in Seq(Messages) /\ Followed(box, Falses, DirtyMsg(TRUE))
          /\ Has(box, DirtyMsg(TRUE))
      BY <2>1, OneMore
    <2>3. inbox' = box \o Reply("notSaved")
      BY <1>8 DEF SaveWritten
    <2> HIDE DEF box
    <2>4. inbox' = box \/ inbox' = Append(box, ReplyMsg("notSaved"))
      <3>1. box \o <<>> = box /\ box \o <<ReplyMsg("notSaved")>> = Append(box, ReplyMsg("notSaved"))
        BY <2>2
      <3>. QED BY <2>3, <3>1 DEF Reply
    <2>5. Followed(inbox', Falses, DirtyMsg(TRUE)) /\ Has(inbox', DirtyMsg(TRUE))
      <3>1. CASE inbox' = box
        BY <2>2, <3>1
      <3>2. CASE inbox' = Append(box, ReplyMsg("notSaved"))
        BY <2>1, <2>2, <3>2, OneMore
      <3>. QED BY <2>4, <3>1, <3>2
    <2>. QED BY <2>5 DEF Told
  <1>. QED BY <1>9, <1>10

\* The launch copy, from the answer to its offer to the document it becomes
LEMMA KeptRestoring ==
    ASSUME Inv, Kept, Lasting,
           \/ RestoreStarts \/ RestoreOpens \/ RestoreRefused \/ RestoreFails
           \/ \E choice \in {"restore", "discard"} : OfferAnswered(choice)
    PROVE  Kept'
  <1> USE DEF main, disk, renderer
  <1>1. ~Launched
    BY DEF RestoreStarts, RestoreOpens, RestoreRefused, RestoreFails, OfferAnswered, Launched
  <1>2. shown = Opened /\ ~shownDirty
    BY <1>1 DEF Lasting, AtLaunch
  <1>3. UNCHANGED <<shownDirty, shown, save, guard, closed, file>>
    BY DEF RestoreStarts, RestoreOpens, RestoreRefused, RestoreFails, OfferAnswered
  <1>4. CASE RestoreOpens
    <2>1. doc' = Restored /\ savedToken' = NoDoc
      BY <1>4 DEF RestoreOpens
    <2>2. doc' # shown'
      BY <1>2, <1>3, <2>1, LaunchDocuments
    <2>. QED BY <1>2, <1>3, <2>1, <2>2 DEF Kept, Rendered, Published, Unsaved
  <1>5. CASE UNCHANGED <<doc, savedToken>>
    BY <1>2, <1>3, <1>5 DEF Kept, Rendered, Published, Unsaved
  <1>. QED BY <1>4, <1>5 DEF RestoreStarts, RestoreRefused, RestoreFails, OfferAnswered

\* What main makes of a message: the news of what is unsaved comes before the copy, and
\* only a user who gave the work up makes main drop it.
LEMMA KeptDelivering ==
    ASSUME Inv, Kept, Deliver
    PROVE  Kept'
  <1> USE DEF disk, renderer, GuardStates
  <1> DEFINE msg == Head(inbox)
  <1>1. /\ inbox \in Seq(Messages) /\ inbox # <<>> /\ inbox' = Tail(inbox)
        /\ UNCHANGED <<doc, shown, shownDirty, savedToken, timer, snap, save, restore, requests,
                       copy, file, offer, closed>>
    <2>1. UNCHANGED <<renderer, requests, commands, disk>>
      BY DEF Deliver
    <2>2. offer' = offer /\ closed' = closed
      BY DEF Deliver, HandleDirty, HandleCopy, HandleReply, HandleTake
    <2>3. inbox \in Seq(Messages) /\ inbox # <<>> /\ inbox' = Tail(inbox)
      BY DEF Deliver, Inv, Types
    <2>. QED BY <2>1, <2>2, <2>3
  <1>2. Rendered' /\ (Unsaved' <=> Unsaved)
    BY <1>1 DEF Kept, Rendered, Published, Unsaved
  <1>3. /\ guard' \in [Guards -> GuardStates]
        /\ \A g \in Guards : guard[g].at # "saving" => guard'[g] = guard[g]
    <2>1. CASE guard' = guard
      BY <2>1 DEF Kept
    <2>2. ASSUME NEW o, HandleReply(o)
          PROVE  /\ guard' \in [Guards -> GuardStates]
                 /\ \A g \in Guards : guard[g].at # "saving" => guard'[g] = guard[g]
      <3>1. \A g \in Guards : guard'[g] \in {Clearing(g), NoGuard, guard[g]}
        BY <2>2 DEF HandleReply
      <3>2. \A g \in Guards : guard[g].at # "saving" => guard'[g] = guard[g]
        BY <2>2 DEF HandleReply
      <3>3. \A g \in Guards :
               {Clearing(g), NoGuard, guard[g]}
                  \subseteq GuardStates
        BY DEF Clearing, NoGuard, Kept
      <3>4. guard' = [g \in Guards |-> guard'[g]]
        BY <2>2 DEF HandleReply
      <3>. QED BY <3>1, <3>2, <3>3, <3>4
    <2>. QED BY <2>1, <2>2 DEF Deliver, HandleDirty, HandleCopy, HandleTake
  <1> SUFFICES ASSUME ~closed, Unsaved PROVE Told' /\ CopyComes'
    BY <1>1, <1>2, <1>3 DEF Kept
  <1>5. Told /\ CopyComes
    BY DEF Kept
  <1>6. offer = NoDoc
    BY DEF Inv, Untouched, Unsaved
  <1>7. Discarded => Discarded'
    BY <1>3 DEF Discarded
  <1>8. /\ msg \in Messages
        /\ \A x : Has(inbox, x) => msg = x \/ Has(inbox', x)
        /\ Followed(inbox', Falses, DirtyMsg(TRUE))
        /\ msg \in Falses => Has(inbox', DirtyMsg(TRUE))
    BY <1>1, <1>5, OneLess DEF Told
  <1> HIDE DEF msg
  <1>9. \/ msg = DirtyMsg(TRUE) /\ dirty' = TRUE
        \/ msg \in Falses /\ dirty' \in BOOLEAN
        \/ /\ msg \notin Falses /\ msg # DirtyMsg(TRUE)
           /\ dirty' = dirty
           /\ queue' = IF msg.kind = "copy" /\ dirty THEN Append(queue, WriteTask(msg.value))
                       ELSE queue
    <2>1. CASE msg.kind = "dirty" /\ HandleDirty(msg.value)
      <3>1. msg = DirtyMsg(msg.value) /\ msg.value \in BOOLEAN
        BY <1>8, <2>1 DEF Messages, DirtyMsg, TakeMsg
      <3>. QED BY <2>1, <3>1 DEF HandleDirty, Falses
    <2>2. CASE msg.kind = "copy" /\ HandleCopy(msg.value)
      BY <1>6, <2>2 DEF HandleCopy, Falses, DirtyMsg, ReplyMsg
    <2>3. CASE msg.kind = "reply" /\ HandleReply(msg.value)
      <3>1. msg = ReplyMsg(msg.value)
        BY <1>8, <2>3 DEF Messages, ReplyMsg, TakeMsg
      <3>2. CASE msg.value = "saved"
        BY <2>3, <3>1, <3>2 DEF HandleReply, Falses
      <3>3. CASE msg.value # "saved"
        <4>1. dirty' = dirty /\ queue' = queue
          BY <2>3, <3>3 DEF HandleReply, Inv, Types
        <4>. QED BY <2>3, <3>1, <3>3, <4>1 DEF Falses, DirtyMsg, ReplyMsg
      <3>. QED BY <3>2, <3>3
    <2>4. CASE msg.kind = "take" /\ HandleTake
      BY <2>4 DEF HandleTake, Falses, DirtyMsg, ReplyMsg
    <2>. QED BY <2>1, <2>2, <2>3, <2>4 DEF Deliver, msg
  <1>10. Told'
    <2>1. ~dirty' => Has(inbox', DirtyMsg(TRUE)) \/ Discarded'
      BY <1>5, <1>7, <1>8, <1>9 DEF Told
    <2>. QED BY <1>8, <2>1 DEF Told
  <1>11. ASSUME CopySent PROVE CopySent'
    <2>1. /\ Followed(inbox', Stale(shown), CopyMsg(shown))
          /\ \A y \in Stale(shown) : msg = y \/ Has(inbox', y) => Has(inbox', CopyMsg(shown))
      BY <1>1, <1>11, OneLess DEF CopySent, msg
    <2>2. Has(inbox', DirtyMsg(TRUE)) => Has(inbox', CopyMsg(shown))
      BY <2>1 DEF Stale
    <2> SUFFICES ASSUME ~Has(inbox', CopyMsg(shown))
                 PROVE  After(queue', copy) = shown \/ (~dirty' /\ Discarded')
      BY <1>1, <2>1 DEF CopySent
    <2>3. msg # DirtyMsg(TRUE) /\ msg \notin Falses
      BY <1>8, <2>1, <2>2 DEF Stale
    <2>4. /\ dirty' = dirty
          /\ queue' = IF msg.kind = "copy" /\ dirty THEN Append(queue, WriteTask(msg.value))
                      ELSE queue
      BY <1>9, <2>3
    <2>5. CASE msg.kind = "copy"
      <3>1. msg = CopyMsg(msg.value) /\ msg.value \in Token
        BY <1>8, <2>5 DEF Messages, CopyMsg, TakeMsg
      <3>2. msg.value = shown
        BY <2>1, <3>1 DEF Stale
      <3>3. CASE dirty
        <4>1. queue' = Append(queue, WriteTask(shown))
          BY <2>4, <2>5, <3>2, <3>3
        <4>2. WriteTask(shown) \in Tasks /\ Done(WriteTask(shown)) = shown
          BY <3>1, <3>2 DEF Tasks, WriteTask, Done
        <4>. QED BY <4>1, <4>2, AfterOneMore DEF Inv, Types
      <3>4. CASE ~dirty
        <4>1. ~Has(inbox, DirtyMsg(TRUE))
          BY <1>8, <2>2, <2>3
        <4>. QED BY <1>5, <1>7, <2>4, <3>4, <4>1 DEF Told
      <3>. QED BY <3>3, <3>4 DEF Inv, Types
    <2>6. CASE msg.kind # "copy"
      <3>1. ~Has(inbox, CopyMsg(shown))
        BY <1>8, <2>6 DEF CopyMsg
      <3>2. queue' = queue
        BY <2>4, <2>6
      <3>. QED BY <1>7, <1>11, <2>4, <3>1, <3>2 DEF CopySent
    <2>. QED BY <2>5, <2>6
  <1>. QED BY <1>1, <1>5, <1>10, <1>11 DEF CopyComes

\* The queue empties, and the copy becomes what it was to become.
LEMMA KeptTask == ASSUME Inv, Kept, RunTask PROVE Kept'
  <1> USE DEF disk, renderer, GuardStates
  <1>1. UNCHANGED <<doc, shown, shownDirty, savedToken, timer, snap, save, restore, requests,
                    inbox, dirty, offer, closed, file>>
    BY DEF RunTask
  <1>2. After(queue', copy') = After(queue, copy)
    BY AfterOneLess DEF RunTask, Inv, Types, Done
  <1>3. /\ guard' \in [Guards -> GuardStates]
        /\ \A g \in Guards : \/ guard'[g] = guard[g]
                             \/ /\ guard[g].at = "clearing" /\ guard'[g].at = "leaving"
                                /\ guard'[g].choice = guard[g].choice
    BY DEF RunTask, Kept
  <1>4. Discarded => Discarded'
    BY <1>3 DEF Discarded
  <1>5. Rendered' /\ (Unsaved' <=> Unsaved)
    BY <1>1 DEF Kept, Rendered, Published, Unsaved
  <1>6. (Told => Told') /\ (CopySent => CopySent')
    BY <1>1, <1>2, <1>4 DEF Told, CopySent
  <1>. QED BY <1>1, <1>3, <1>5, <1>6 DEF Kept, CopyComes

\* A window that main takes for clean closes; another one asks first.
LEMMA Guarding ==
    ASSUME NEW others \in [Guards -> GuardStates],
           CloseWindow(others)
    PROVE  /\ guard' \in [Guards -> GuardStates]
           /\ ~dirty => closed'
           /\ closed' # closed => ~dirty
  BY DEF CloseWindow, GuardStates

\* What the user and the guards of the window do
LEMMA KeptClosing ==
    ASSUME Inv, Kept,
           \/ PressClose \/ PressQuit
           \/ \E g \in Guards, choice \in {"save", "discard", "cancel"} : Answer(g, choice)
           \/ \E g \in Guards : TimesOut(g) \/ Leave(g)
    PROVE  Kept'
  <1> USE DEF renderer, disk
  <1>1. UNCHANGED <<doc, shown, shownDirty, savedToken, timer, snap, save, restore, inbox,
                    offer, copy, file>>
    BY DEF PressClose, PressQuit, Answer, TimesOut, Leave
  <1>3. Rendered' /\ (Unsaved' <=> Unsaved)
    BY <1>1 DEF Kept, Rendered, Published, Unsaved
  <1>4. guard' \in [Guards -> GuardStates]
    <2>1. guard \in [Guards -> GuardStates]
      BY DEF Kept
    <2>2. CASE PressClose \/ PressQuit
      BY <2>1, <2>2, Guarding DEF PressClose, PressQuit, GuardStates
    <2>3. ASSUME NEW g \in Guards, Leave(g)
          PROVE  guard' \in [Guards -> GuardStates]
      BY <2>1, <2>3, Guarding DEF Leave, NoGuard, GuardStates
    <2>4. ASSUME NEW g \in Guards, NEW x \in GuardStates, guard' = [guard EXCEPT ![g] = x]
          PROVE  guard' \in [Guards -> GuardStates]
      BY <2>1, <2>4
    <2>5. ASSUME NEW g \in Guards
          PROVE  /\ NoGuard \in GuardStates
                 /\ [at |-> "saving", choice |-> "save"] \in GuardStates
                 /\ [Clearing(g) EXCEPT !.choice = "discard"] \in GuardStates
      BY <2>1 DEF GuardStates, NoGuard, Clearing
    <2>6. ASSUME NEW g \in Guards, TimesOut(g) \/ Answer(g, "cancel") \/ Answer(g, "save")
                                                \/ Answer(g, "discard")
          PROVE  \E x \in GuardStates : guard' = [guard EXCEPT ![g] = x]
      BY <2>5, <2>6 DEF TimesOut, Answer
    <2>. QED BY <2>2, <2>3, <2>4, <2>6
  <1> SUFFICES ASSUME ~closed', Unsaved PROVE Told' /\ CopyComes'
    BY <1>1, <1>3, <1>4 DEF Kept
  <1>5. ~closed /\ Told /\ CopyComes
    <2>1. ~closed
      BY DEF PressClose, PressQuit, Answer, TimesOut, Leave, UserActs
    <2>. QED BY <2>1 DEF Kept
  <1>6. ASSUME NEW g \in Guards, Answer(g, "discard") PROVE Told' /\ CopyComes'
    <2>1. guard' = [guard EXCEPT ![g] = [Clearing(g) EXCEPT !.choice = "discard"]] /\ ~dirty'
      BY <1>6 DEF Answer
    <2>2. guard'[g].at \in {"clearing", "leaving"} /\ guard'[g].choice = "discard"
      BY <2>1 DEF Clearing, Kept, GuardStates
    <2>3. Discarded'
      BY <2>2 DEF Discarded
    <2>4. Told' /\ (CopySent => CopySent')
      BY <1>1, <1>5, <2>1, <2>3 DEF Told, CopySent
    <2>. QED BY <1>1, <1>5, <2>4 DEF CopyComes
  <1>7. ASSUME \/ PressClose \/ PressQuit
               \/ \E g \in Guards : \/ Answer(g, "save") \/ Answer(g, "cancel")
                                   \/ TimesOut(g) \/ Leave(g)
        PROVE  Told' /\ CopyComes'
    <2>1. UNCHANGED <<queue, dirty>>
      BY <1>7 DEF PressClose, PressQuit, Answer, TimesOut, Leave
    <2>2. ~dirty => (Discarded => Discarded')
      <3>1. ASSUME PressClose \/ PressQuit \/ (\E g \in Guards : Leave(g)) PROVE dirty
        BY <3>1, Guarding DEF PressClose, PressQuit, Leave, CloseWindow
      <3>2. ASSUME NEW g \in Guards, Answer(g, "save") \/ Answer(g, "cancel") \/ TimesOut(g)
            PROVE  Discarded => Discarded'
        <4>1. /\ guard[g].at \in {"dialog", "saving"}
              /\ \A h \in Guards : h # g => guard'[h] = guard[h]
          BY <3>2 DEF Answer, TimesOut, Kept, GuardStates
        <4>. QED BY <4>1 DEF Discarded
      <3>. QED BY <1>7, <3>1, <3>2
    <2>3. Told' /\ (CopySent => CopySent')
      BY <1>1, <1>5, <2>1, <2>2 DEF Told, CopySent
    <2>. QED BY <1>1, <1>5, <2>3 DEF CopyComes
  <1>. QED BY <1>6, <1>7

-----------------------------------------------------------------------------
(* The copy on disk, until the session is overtaken *)

\* One more task comes after what the others make of the copy ...
LEMMA OrderlyOneMore ==
    ASSUME NEW q \in Seq(Tasks), NEW t \in Tasks, NEW c, NEW f,
           Orderly(q, c, f), Covers(t, After(q, c), f)
    PROVE  Orderly(Append(q, t), c, f)
  <1> DEFINE b == Append(q, t)
  <1>1. /\ b \in Seq(Tasks) /\ Len(b) = Len(q) + 1 /\ Len(q) \in Nat
        /\ \A i \in 1 .. Len(q) : b[i] = q[i]
        /\ b[Len(q) + 1] = t
    BY AppendProperties, LenProperties
  <1>2. DOMAIN q = 1 .. Len(q) /\ DOMAIN b = 1 .. Len(b)
    BY <1>1, LenProperties
  <1>3. q = <<>> <=> Len(q) = 0
    BY EmptySeq
  <1> HIDE DEF b
  <1> SUFFICES ASSUME NEW i \in DOMAIN b PROVE Covers(b[i], Prior(b, c, i), f)
    BY DEF Orderly, b
  <1>4. CASE i = Len(q) + 1
    <2>1. Prior(b, c, i) = After(q, c)
      BY <1>1, <1>3, <1>4 DEF Prior, After
    <2>. QED BY <1>1, <1>4, <2>1
  <1>5. CASE i # Len(q) + 1
    <2>1. i \in DOMAIN q /\ b[i] = q[i] /\ Prior(b, c, i) = Prior(q, c, i)
      BY <1>1, <1>2, <1>5 DEF Prior
    <2>. QED BY <2>1 DEF Orderly
  <1>. QED BY <1>4, <1>5

\* ... and the one that runs leaves the others theirs.
LEMMA OrderlyOneLess ==
    ASSUME NEW q \in Seq(Tasks), q # <<>>, NEW c, NEW f, Orderly(q, c, f)
    PROVE  Covers(Head(q), c, f) /\ Orderly(Tail(q), Done(Head(q)), f)
  <1> DEFINE t == Tail(q)
  <1>1. /\ t \in Seq(Tasks) /\ Len(t) = Len(q) - 1
        /\ \A i \in 1 .. Len(t) : t[i] = q[i + 1]
    BY HeadTailProperties
  <1>2. /\ Len(q) \in Nat \ {0} /\ Head(q) = q[1]
        /\ DOMAIN q = 1 .. Len(q) /\ DOMAIN t = 1 .. Len(t)
    BY <1>1, EmptySeq, LenProperties
  <1> HIDE DEF t
  <1>3. Covers(Head(q), c, f)
    <2>1. 1 \in DOMAIN q /\ Prior(q, c, 1) = c
      BY <1>2 DEF Prior
    <2>2. Covers(q[1], Prior(q, c, 1), f)
      BY <2>1 DEF Orderly
    <2>. QED BY <1>2, <2>1, <2>2
  <1>4. ASSUME NEW i \in DOMAIN t PROVE Covers(t[i], Prior(t, Done(Head(q)), i), f)
    <2>1. i \in Nat \ {0} /\ i + 1 \in DOMAIN q /\ t[i] = q[i + 1]
      BY <1>1, <1>2
    <2>2. i # 1 => t[i - 1] = q[i]
      BY <1>1, <1>2
    <2>3. Prior(t, Done(Head(q)), i) = Prior(q, c, i + 1)
      BY <1>2, <2>1, <2>2 DEF Prior
    <2>. QED BY <2>1, <2>3 DEF Orderly
  <1>. QED BY <1>3, <1>4 DEF Orderly, t

\* A message is sent after the copies that were: it is a later copy, or makes main forget
\* what is in the file, or does neither.
LEMMA SentOneMore ==
    ASSUME NEW box \in Seq(Messages), NEW m \in Messages, NEW x, NEW f, NEW top,
           Below(box, x, top), Growing(box, x, f),
           m.kind = "copy" => Within(top, m.value),
           m \in Falses => Within(top, f)
    PROVE  Growing(Append(box, m), x, f)
  <1> DEFINE b == Append(box, m)
  <1>1. /\ b \in Seq(Messages) /\ Len(b) = Len(box) + 1 /\ Len(box) \in Nat
        /\ \A i \in 1 .. Len(box) : b[i] = box[i]
        /\ b[Len(box) + 1] = m
    BY AppendProperties, LenProperties
  <1>2. DOMAIN box = 1 .. Len(box) /\ DOMAIN b = 1 .. Len(b)
    BY <1>1, LenProperties
  <1> HIDE DEF b
  <1>3. \A i \in DOMAIN b : i # Len(box) + 1 => i \in DOMAIN box /\ b[i] = box[i]
    BY <1>1, <1>2
  <1>4. ASSUME NEW y, Within(y, top) PROVE Meets(m, y, f)
    BY <1>4, Growth DEF Meets
  <1>5. Meets(m, x, f)
    BY <1>4 DEF Below, Meets
  <1>6. \A i \in DOMAIN box : box[i].kind = "copy" => Meets(m, box[i].value, f)
    BY <1>4 DEF Below
  <1>7. ASSUME NEW i \in DOMAIN b PROVE Meets(b[i], x, f)
    BY <1>1, <1>3, <1>5 DEF Growing
  <1>8. ASSUME NEW i \in DOMAIN b, NEW j \in DOMAIN b, i < j, b[i].kind = "copy"
        PROVE  Meets(b[j], b[i].value, f)
    <2>1. i \in DOMAIN box /\ b[i] = box[i]
      BY <1>1, <1>2, <1>3, <1>8
    <2>2. CASE j = Len(box) + 1
      BY <1>1, <1>6, <1>8, <2>1, <2>2
    <2>3. CASE j # Len(box) + 1
      <3>1. j \in DOMAIN box /\ b[j] = box[j]
        BY <1>3, <2>3
      <3>. QED BY <1>8, <2>1, <3>1 DEF Growing
    <2>. QED BY <2>2, <2>3
  <1>. QED BY <1>7, <1>8 DEF Growing, b

\* What is sent is of no later document than what it is taken from.
LEMMA BelowOneMore ==
    ASSUME NEW box \in Seq(Messages), NEW m \in Messages, NEW x, NEW top,
           Below(box, x, top), m.kind = "copy" => Within(m.value, top)
    PROVE  Below(Append(box, m), x, top)
  <1> DEFINE b == Append(box, m)
  <1>1. /\ b \in Seq(Messages) /\ Len(b) = Len(box) + 1 /\ Len(box) \in Nat
        /\ \A i \in 1 .. Len(box) : b[i] = box[i]
        /\ b[Len(box) + 1] = m
    BY AppendProperties, LenProperties
  <1>2. DOMAIN box = 1 .. Len(box) /\ DOMAIN b = 1 .. Len(b)
    BY <1>1, LenProperties
  <1> HIDE DEF b
  <1>3. \A i \in DOMAIN b : i # Len(box) + 1 => i \in DOMAIN box /\ b[i] = box[i]
    BY <1>1, <1>2
  <1>. QED BY <1>1, <1>3 DEF Below, b

\* Nor of a later one than one that came after it.
LEMMA BelowLater ==
    ASSUME NEW box, NEW x, NEW top, NEW later, Below(box, x, top), Within(top, later)
    PROVE  Below(box, x, later)
  BY Growth DEF Below

\* What main makes of the message at the head: the copy it is, or none, or no change.
LEMMA SentOneLess ==
    ASSUME NEW box \in Seq(Messages), box # <<>>, NEW x, NEW f, NEW top,
           Below(box, x, top), Growing(box, x, f)
    PROVE  /\ Meets(Head(box), x, f)
           /\ Below(Tail(box), x, top) /\ Growing(Tail(box), x, f)
           /\ Below(Tail(box), NoDoc, top) /\ Growing(Tail(box), NoDoc, f)
           /\ Head(box).kind = "copy" => /\ Below(Tail(box), Head(box).value, top)
                                         /\ Growing(Tail(box), Head(box).value, f)
  <1> DEFINE t == Tail(box)
  <1>1. /\ t \in Seq(Messages) /\ Len(t) = Len(box) - 1
        /\ \A i \in 1 .. Len(t) : t[i] = box[i + 1]
    BY HeadTailProperties
  <1>2. /\ Len(box) \in Nat \ {0} /\ Head(box) = box[1]
        /\ DOMAIN box = 1 .. Len(box) /\ DOMAIN t = 1 .. Len(t)
    BY <1>1, EmptySeq, LenProperties
  <1> HIDE DEF t
  <1>3. \A i \in DOMAIN t : /\ i \in Nat \ {0} /\ i + 1 \in DOMAIN box /\ t[i] = box[i + 1]
    BY <1>1, <1>2
  <1>4. 1 \in DOMAIN box
    BY <1>2
  <1>5. Meets(Head(box), x, f)
    BY <1>2, <1>4 DEF Growing
  <1>6. \A i, j \in DOMAIN t :
           i < j /\ t[i].kind = "copy" => Meets(t[j], t[i].value, f)
    <2> SUFFICES ASSUME NEW i \in DOMAIN t, NEW j \in DOMAIN t, i < j, t[i].kind = "copy"
                 PROVE  Meets(t[j], t[i].value, f)
      OBVIOUS
    <2>1. i + 1 < j + 1 /\ i + 1 \in DOMAIN box /\ j + 1 \in DOMAIN box
      BY <1>3
    <2>. QED BY <1>3, <2>1 DEF Growing
  <1>7. Below(t, x, top) /\ Growing(t, x, f)
    BY <1>3, <1>6 DEF Below, Growing
  <1>8. Below(t, NoDoc, top) /\ Growing(t, NoDoc, f)
    <2>1. NoDoc \notin Doc
      BY SessionAssumption DEF SessionAssumption
    <2>. QED BY <1>7, <2>1 DEF Below, Growing, Meets
  <1>9. ASSUME Head(box).kind = "copy"
        PROVE  Below(t, Head(box).value, top) /\ Growing(t, Head(box).value, f)
    <2>1. Within(Head(box).value, top)
      BY <1>2, <1>4, <1>9 DEF Below
    <2>2. \A j \in DOMAIN t : Meets(t[j], Head(box).value, f)
      <3> SUFFICES ASSUME NEW j \in DOMAIN t PROVE Meets(t[j], Head(box).value, f)
        OBVIOUS
      <3>1. 1 < j + 1 /\ j + 1 \in DOMAIN box /\ t[j] = box[j + 1]
        BY <1>3
      <3>. QED BY <1>2, <1>4, <1>9, <3>1 DEF Growing
    <2>. QED BY <1>6, <1>7, <2>1, <2>2 DEF Below, Growing
  <1>. QED BY <1>5, <1>7, <1>8, <1>9 DEF t

\* A file that holds more changes nothing of it.
LEMMA MoreSaved ==
    ASSUME NEW f, NEW g, \A d \in Doc : Within(d, f) => Within(d, g)
    PROVE  /\ \A q, c : Orderly(q, c, f) => Orderly(q, c, g)
           /\ \A box, x : Growing(box, x, f) => Growing(box, x, g)
  <1>1. \A t, x : Covers(t, x, f) => Covers(t, x, g)
    BY DEF Covers
  <1>2. \A m, x : Meets(m, x, f) => Meets(m, x, g)
    BY DEF Meets
  <1>3. \A q, c : Orderly(q, c, f) => Orderly(q, c, g)
    BY <1>1 DEF Orderly
  <1>4. \A box, x : Growing(box, x, f) => Growing(box, x, g)
    BY <1>2 DEF Growing
  <1>. QED BY <1>3, <1>4

\* When the copy is deleted, what was sent is still in order.
LEMMA Forgotten ==
    ASSUME NEW box, NEW x, NEW f, NEW top, Below(box, x, top), Growing(box, x, f)
    PROVE  Below(box, NoDoc, top) /\ Growing(box, NoDoc, f)
  BY SessionAssumption DEF SessionAssumption, Below, Growing, Meets

\* It holds at first.
LEMMA LastingStarts == ASSUME Init PROVE Lasting
  <1> USE LaunchDocuments
  <1>1. /\ doc = Opened /\ shown = Opened /\ savedToken = Opened /\ file = Opened /\ ~shownDirty
        /\ ~timer /\ snap = NoSnap /\ save.at = "off" /\ save = NoSave /\ requests = 0
        /\ guard = [g \in Guards |-> NoGuard] /\ restore.at = "none" /\ ~dirty
        /\ queue = <<>> /\ copy = offer /\ ~offered
        /\ offer # NoDoc => offer \in {Broken, Unopenable, Restored}
    BY SessionAssumption DEF SessionAssumption, Init, NoSave, NoRestore
  <1>2. /\ Len(inbox) = 2 /\ DOMAIN inbox = 1 .. 2
        /\ inbox[1] = DirtyMsg(FALSE) /\ inbox[2] = TakeMsg
    BY DEF Init
  <1>3. DirtyMsg(FALSE) # TakeMsg /\ DirtyMsg(FALSE).kind # "copy" /\ TakeMsg.kind # "copy"
    BY DEF DirtyMsg, TakeMsg
  <1>4. ASSUME NEW i \in DOMAIN inbox
        PROVE  /\ inbox[i] \in {DirtyMsg(FALSE), TakeMsg} /\ inbox[i].kind # "copy"
               /\ inbox[i] = TakeMsg => i = Len(inbox)
    <2>1. i = 1 \/ i = 2
      BY <1>2
    <2>. QED BY <1>2, <1>3, <2>1
  <1>5. Still /\ AtLaunch
    <2>1. Still
      BY <1>1 DEF Still, Unshown
    <2>2. offer # NoDoc =>
             /\ copy = offer /\ offer \in {Broken, Unopenable, Restored}
             /\ \A i \in DOMAIN inbox : /\ inbox[i] \in {DirtyMsg(FALSE), TakeMsg}
                                        /\ inbox[i] = TakeMsg => i = Len(inbox)
             /\ offered => inbox = <<>>
      BY <1>1, <1>4
    <2>. QED BY <1>1, <2>1, <2>2 DEF AtLaunch
  <1>6. Grown
    <2>1. Now = Opened /\ Within(Opened, Opened)
      BY <1>1, Takings, Growth DEF Now
    <2>. QED BY <1>1, <2>1 DEF Grown, Saved
  <1>7. Orderly(queue, copy, Saved)
    BY <1>1 DEF Orderly
  <1>8. ASSUME Launched
        PROVE  Below(inbox, After(queue, copy), Top) /\ Growing(inbox, After(queue, copy), Saved)
    <2>1. After(queue, copy) = NoDoc
      BY <1>1, <1>8 DEF After, Launched
    <2>2. \A i \in DOMAIN inbox : inbox[i].kind # "copy"
      BY <1>4
    <2>3. \A m : Meets(m, NoDoc, Saved)
      BY DEF Meets
    <2>. QED BY <2>1, <2>2, <2>3 DEF Below, Growing
  <1>. QED BY <1>5, <1>6, <1>7, <1>8 DEF Lasting

\* While the same project is open and what is taken of it only grows, what was copied and
\* what is to become of the copy stay in order.
LEMMA Onward ==
    ASSUME Types, Types', Lasting, Launched, Launched', Still',
           doc'.project = doc.project, Within(Now, Now'), ~Unshown' => Within(shown', doc'),
           UNCHANGED <<snap, save, queue, copy, file>>
    PROVE  /\ Still' /\ AtLaunch' /\ Grown' /\ Orderly(queue, copy, Saved)'
           /\ Saved' = Saved /\ After(queue, copy)' = After(queue, copy)
           /\ Below(inbox, After(queue, copy), Top') /\ Growing(inbox, After(queue, copy), Saved)
           /\ Within(Top, Now) /\ Within(Top, Top')
  <1>1. Saved' = Saved
    BY DEF Saved
  <1>2. AtLaunch'
    BY DEF AtLaunch, Launched
  <1>3. Grown'
    BY <1>1, Growth DEF Lasting, Grown
  <1>4. Orderly(queue, copy, Saved)' /\ After(queue, copy)' = After(queue, copy)
    BY <1>1 DEF Lasting
  <1>5. Within(Top, Now) /\ Within(Top, Top')
    BY Growth DEF Top, Lasting, Grown
  <1>6. Below(inbox, After(queue, copy), Top) /\ Growing(inbox, After(queue, copy), Saved)
    BY DEF Lasting
  <1>7. Below(inbox, After(queue, copy), Top')
    BY <1>5, <1>6, BelowLater
  <1>. QED BY <1>1, <1>2, <1>3, <1>4, <1>5, <1>6, <1>7

\* Edits and answers of simulations
LEMMA LastingEditing ==
    ASSUME Inv, Lasting, Smooth', EditModel \/ RunEnds
    PROVE  Lasting'
  <1> USE DEF main, disk, renderer
  <1>1. /\ Launched /\ ~Unshown
        /\ UNCHANGED <<shown, timer, snap, save, requests, guard, offer, restore, inbox, queue,
                       copy, file>>
    BY InStep DEF EditModel, RunEnds
  <1>2. Types /\ Types'
    BY Quietly DEF Inv
  <1>3. doc' \in Doc /\ doc'.project = doc.project /\ Within(doc, doc')
    <2>1. doc \in Doc /\ doc' \in Doc
      BY <1>2 DEF Types
    <2>2. doc.model \in Nat /\ doc.other \in Nat
      BY <2>1 DEF Doc
    <2>3. CASE EditModel
      BY <2>1, <2>2, <2>3 DEF EditModel, Doc, Within
    <2>4. CASE RunEnds
      BY <2>1, <2>2, <2>4 DEF RunEnds, Doc, Within
    <2>. QED BY <2>1, <2>3, <2>4
  <1>4. Within(shown, doc) /\ Within(shown, doc') /\ shown.project = doc.project
    BY <1>1, <1>3, Growth DEF Lasting, Grown, Unshown
  <1>5. Within(Now, Now')
    <2>1. Now = [shown EXCEPT !.model = doc.model] /\ Now' = [shown EXCEPT !.model = doc'.model]
      BY <1>1, <1>3, <1>4 DEF Now, Taken
    <2>2. doc.model <= doc'.model
      BY <1>2, <1>3, SessionAssumption DEF Within, Types, Doc, SessionAssumption
    <2>. QED BY <1>2, <1>3, <2>1, <2>2 DEF Within, Types, Doc
  <1>6. Launched' /\ ~Unshown' /\ Still'
    BY <1>1, <1>3, <1>4 DEF Launched, Unshown, Still
  <1>. QED BY <1>1, <1>2, <1>3, <1>4, <1>5, <1>6, Onward DEF Lasting

\* A render tells main of a clean document only when the file holds what was copied.
LEMMA LastingCommit ==
    ASSUME Types, Kept, NEW d \in Doc, d.project = doc.project, Commit(d),
           NEW x, NEW top, Below(inbox, x, top), Growing(inbox, x, Saved), Within(top, d)
    PROVE  Below(inbox', x, top) /\ Growing(inbox', x, Saved)
  <1> DEFINE m == DirtyMsg(d # savedToken)
  <1>1. inbox' = inbox \/ inbox' = Append(inbox, m)
    BY DEF Commit
  <1>2. inbox \in Seq(Messages) /\ m \in Messages /\ m.kind # "copy"
    BY SomeMessages DEF Types, DirtyMsg
  <1>3. m \in Falses => Within(top, Saved)
    <2> SUFFICES ASSUME m \in Falses PROVE Within(top, Saved)
      OBVIOUS
    <2>1. d = savedToken
      BY DEF Falses, DirtyMsg, ReplyMsg
    <2>2. d = file
      BY <2>1, LaunchDocuments DEF Kept
    <2>. QED BY <2>2 DEF Saved
  <1> HIDE DEF m
  <1>4. Below(Append(inbox, m), x, top) /\ Growing(Append(inbox, m), x, Saved)
    BY <1>2, <1>3, SentOneMore, BelowOneMore
  <1>. QED BY <1>1, <1>4

\* What is rendered
LEMMA LastingRendering ==
    ASSUME Inv, Kept, Lasting, Smooth', Render \/ EditScenario
    PROVE  Lasting'
  <1> USE DEF main, disk, renderer
  <1>1. Types /\ Types'
    BY Rendering DEF Inv
  <1>2. /\ Commit(doc') /\ shown' = doc' /\ UNCHANGED <<savedToken, snap, save, restore, requests,
                                                        guard, offer, queue, copy, file>>
    BY DEF Render, EditScenario, Commit
  <1>3. Launched
    <2>1. CASE EditScenario
      BY <2>1, InStep DEF EditScenario
    <2>2. CASE Render
      <3> SUFFICES ASSUME ~Launched PROVE FALSE
        OBVIOUS
      <3>1. doc = shown /\ shownDirty = FALSE /\ doc = savedToken
        BY <1>1 DEF Lasting, AtLaunch, Types
      <3>. QED BY <2>2, <3>1 DEF Render, Committed
    <2>. QED BY <2>1, <2>2
  <1>4. doc \in Doc /\ doc' \in Doc /\ doc'.project = doc.project /\ Within(doc, doc')
    <2>1. CASE EditScenario
      BY <1>1, <2>1, SessionAssumption DEF EditScenario, Types, Doc, Within, SessionAssumption
    <2>2. CASE Render
      BY <1>1, <2>2, Growth DEF Render, Types
    <2>. QED BY <2>1, <2>2
  <1>5. Within(Now, doc') /\ Now' = doc' /\ ~Unshown' /\ Within(shown', doc')
    <2>1. Within(Now, doc)
      <3>1. shown \in Doc /\ (doc.project = shown.project => Within(shown, doc))
        BY <1>1 DEF Types, Lasting, Grown, Unshown
      <3>. QED BY <1>4, <3>1, Takings DEF Now
    <2>2. Now' = doc'
      BY <1>2, <1>4, Takings, Growth DEF Now
    <2>. QED BY <1>2, <1>4, <2>1, <2>2, Growth DEF Unshown
  <1>6. Launched' /\ Still'
    BY <1>2, <1>3, <1>5 DEF Launched, Still
  <1>7. /\ AtLaunch' /\ Grown' /\ Orderly(queue, copy, Saved)'
        /\ Saved' = Saved /\ After(queue, copy)' = After(queue, copy)
        /\ Below(inbox, After(queue, copy), Top') /\ Growing(inbox, After(queue, copy), Saved)
        /\ Within(Top, Now) /\ Within(Top, Top')
    BY <1>1, <1>2, <1>3, <1>4, <1>5, <1>6, Onward
  <1>8. Within(Top', doc')
    BY <1>5, <1>7, Growth DEF Grown, Top
  <1>9. Below(inbox', After(queue, copy), Top') /\ Growing(inbox', After(queue, copy), Saved)
    BY <1>1, <1>2, <1>4, <1>7, <1>8, LastingCommit
  <1>. QED BY <1>6, <1>7, <1>9 DEF Lasting

\* The snapshot, from the timer to the message
LEMMA LastingSnapping ==
    ASSUME Inv, Lasting, TimerFires \/ SnapExported \/ SnapSent
    PROVE  Lasting'
  <1> USE DEF main, disk, renderer
  <1>1. UNCHANGED <<doc, shown, savedToken, shownDirty, save, restore, requests, guard, offer,
                    offered, queue, copy, file>>
    BY DEF TimerFires, SnapExported, SnapSent
  <1>2. timer \/ snap # NoSnap
    BY DEF TimerFires, SnapExported, SnapSent, NoSnap
  <1>3. Launched /\ ~Unshown
    BY <1>2 DEF Lasting, Still
  <1>4. Launched' /\ ~Unshown' /\ Now' = Now /\ Saved' = Saved
        /\ After(queue, copy)' = After(queue, copy)
    BY <1>1, <1>3 DEF Launched, Unshown, Now, Saved
  <1>5. Still' /\ AtLaunch' /\ Orderly(queue, copy, Saved)'
    BY <1>1, <1>4 DEF Still, AtLaunch, Launched, Lasting
  <1>6. /\ Below(inbox, After(queue, copy), Top) /\ Growing(inbox, After(queue, copy), Saved)
        /\ Within(Top, Now) /\ inbox \in Seq(Messages)
    BY <1>3, Growth DEF Lasting, Grown, Top, Inv, Types
  <1>7. ASSUME Within(Top, Top'), Within(Top', Now'), inbox' = inbox
        PROVE  Lasting'
    <2>1. Grown'
      <3>1. /\ save' = save /\ shown' = shown /\ doc' = doc
            /\ snap' # NoSnap => Within(snap'.doc, Now')
        BY <1>1, <1>7 DEF Top
      <3>. QED BY <1>3, <1>4, <3>1 DEF Lasting, Grown
    <2>2. Below(inbox, After(queue, copy), Top')
      BY <1>6, <1>7, BelowLater
    <2>. QED BY <1>4, <1>5, <1>6, <1>7, <2>1, <2>2 DEF Lasting
  <1>8. CASE TimerFires
    <2>1. snap' # NoSnap /\ snap'.doc = Now /\ snap = NoSnap /\ inbox' = inbox
      BY <1>3, <1>8 DEF TimerFires, NoSnap, Now, Taken, Unshown
    <2>2. Top = Now /\ Top' = Now
      BY <2>1 DEF Top
    <2>. QED BY <1>4, <1>7, <2>1, <2>2, Growth
  <1>9. CASE SnapExported
    <2>1. inbox' = inbox /\ snap # NoSnap
      BY <1>9 DEF SnapExported, NoSnap
    <2>2. CASE snap' = NoSnap
      <3>1. Top' = Now
        BY <1>4, <2>2 DEF Top
      <3>. QED BY <1>4, <1>6, <1>7, <2>1, <3>1, Growth
    <2>3. CASE snap' = [snap EXCEPT !.at = "parse"]
      <3>1. snap' # NoSnap /\ snap'.doc = snap.doc
        BY <2>3 DEF NoSnap, Inv, Types
      <3>2. Top' = Top
        BY <2>1, <3>1 DEF Top
      <3>. QED BY <1>4, <1>6, <1>7, <2>1, <3>2, Growth
    <2>. QED BY <1>9, <2>2, <2>3 DEF SnapExported
  <1>10. CASE SnapSent
    <2> DEFINE m == CopyMsg(snap.doc)
    <2>1. snap # NoSnap /\ snap' = NoSnap /\ inbox' = Append(inbox, m)
      BY <1>10 DEF SnapSent, NoSnap
    <2>2. m.kind = "copy" /\ m.value = snap.doc /\ m \in Messages /\ m \notin Falses
      BY SomeMessages DEF CopyMsg, Inv, Types
    <2> HIDE DEF m
    <2>3. Top = snap.doc /\ Top' = Now
      BY <1>4, <2>1 DEF Top
    <2>4. Below(inbox, After(queue, copy), Now)
      BY <1>6, BelowLater
    <2>5. Below(inbox', After(queue, copy), Now)
      BY <1>6, <2>1, <2>2, <2>3, <2>4, BelowOneMore
    <2>6. Growing(inbox', After(queue, copy), Saved)
      BY <1>6, <2>1, <2>2, <2>3, SentOneMore, Growth
    <2>7. Grown'
      <3>1. save' = save /\ shown' = shown /\ doc' = doc
        BY <1>1
      <3>. QED BY <1>3, <1>4, <2>1, <3>1 DEF Lasting, Grown
    <2>. QED BY <1>4, <1>5, <2>3, <2>5, <2>6, <2>7 DEF Lasting
  <1>. QED BY <1>8, <1>9, <1>10

\* A message that is neither a copy nor makes main forget something
LEMMA NoNews ==
    ASSUME NEW box \in Seq(Messages), NEW m \in Messages, NEW x, NEW f, NEW top,
           Below(box, x, top), Growing(box, x, f), m.kind # "copy", m \notin Falses
    PROVE  /\ Append(box, m) \in Seq(Messages)
           /\ Below(Append(box, m), x, top) /\ Growing(Append(box, m), x, f)
  <1>1. Append(box, m) \in Seq(Messages)
    BY OneMore
  <1>2. Below(Append(box, m), x, top)
    BY BelowOneMore
  <1>3. Growing(Append(box, m), x, f)
    BY SentOneMore
  <1>. QED BY <1>1, <1>2, <1>3

\* A save that is begun, given up or goes on
LEMMA LastingSaving ==
    ASSUME Inv, Lasting, Smooth',
           SaveCommand \/ AnswerRequest \/ SaveGivenUp \/ SaveExported
    PROVE  Lasting'
  <1> USE DEF main, disk, renderer
  <1>1. UNCHANGED <<doc, shown, savedToken, shownDirty, timer, snap, restore, guard, offer,
                    offered, queue, copy, file>>
    BY DEF SaveCommand, AnswerRequest, SaveGivenUp, SaveExported
  <1>2. Launched /\ ~Unshown
    <2>1. CASE SaveCommand
      BY <2>1, InStep DEF SaveCommand, LaunchOver, Launched, Unshown
    <2>2. ASSUME save # NoSave \/ requests # 0 PROVE Launched /\ ~Unshown
      BY <2>2 DEF Lasting, Still
    <2>3. CASE AnswerRequest
      BY <2>2, <2>3 DEF AnswerRequest
    <2>4. CASE SaveGivenUp \/ SaveExported
      BY <2>2, <2>4 DEF SaveGivenUp, SaveExported, NoSave
    <2>. QED BY <2>1, <2>3, <2>4
  <1>3. Launched' /\ ~Unshown' /\ Now' = Now /\ Top' = Top /\ Saved' = Saved
        /\ After(queue, copy)' = After(queue, copy)
    BY <1>1, <1>2 DEF Launched, Unshown, Now, Top, Saved
  <1>4. Still' /\ AtLaunch' /\ Orderly(queue, copy, Saved)'
    BY <1>1, <1>3 DEF Still, AtLaunch, Launched, Lasting
  <1>5. save'.at = "off" \/ save'.doc = Now \/ (save.at # "off" /\ save'.doc = save.doc)
    <2>1. CASE SaveCommand \/ AnswerRequest
      <3>1. \E reply \in BOOLEAN : StartSave(reply)
        BY <2>1 DEF SaveCommand, AnswerRequest
      <3>2. CASE LockFree
        BY <1>2, <3>1, <3>2 DEF StartSave, Now, Taken, Unshown
      <3>3. CASE ~LockFree
        BY <3>1, <3>3 DEF StartSave
      <3>. QED BY <3>2, <3>3
    <2>2. CASE SaveGivenUp
      BY <2>2 DEF SaveGivenUp, NoSave
    <2>3. CASE SaveExported
      BY <2>3 DEF SaveExported, Inv, Types
    <2>. QED BY <2>1, <2>2, <2>3
  <1>6. Grown'
    <2>1. snap' = snap /\ shown' = shown /\ doc' = doc
      BY <1>1
    <2>2. save'.at # "off" => Within(save'.doc, Now) /\ (Saved \in Doc => Within(Saved, save'.doc))
      BY <1>5, Growth DEF Lasting, Grown
    <2>. QED BY <1>2, <1>3, <2>1, <2>2 DEF Lasting, Grown
  <1>7. inbox' = inbox \/ inbox' = Append(inbox, ReplyMsg("notSaved"))
    <2>1. inbox \o <<>> = inbox /\ inbox \o <<ReplyMsg("notSaved")>> = Append(inbox, ReplyMsg("notSaved"))
      BY DEF Inv, Types
    <2>. QED BY <2>1 DEF SaveCommand, AnswerRequest, SaveGivenUp, SaveExported, StartSave, Reply
  <1>8. /\ Below(inbox, After(queue, copy), Top) /\ Growing(inbox, After(queue, copy), Saved)
        /\ inbox \in Seq(Messages)
    BY <1>2 DEF Lasting, Inv, Types
  <1>9. ReplyMsg("notSaved") \in Messages /\ ReplyMsg("notSaved").kind # "copy"
        /\ ReplyMsg("notSaved") \notin Falses
    BY SomeMessages DEF ReplyMsg, Outcomes
  <1>10. Below(inbox', After(queue, copy), Top) /\ Growing(inbox', After(queue, copy), Saved)
    BY <1>7, <1>8, <1>9, NoNews
  <1>. QED BY <1>3, <1>4, <1>6, <1>10 DEF Lasting

\* A file that was written holds what the file did and, if the document has not moved
\* since, all that was copied.
LEMMA LastingWritten ==
    ASSUME Inv, Lasting, Smooth', SaveWritten
    PROVE  Lasting'
  <1> USE DEF main, disk, renderer
  <1>1. /\ doc.other = shown.other /\ save.at = "write" /\ save # NoSave /\ file' = save.doc
        /\ UNCHANGED <<doc, shown, shownDirty, timer, snap, restore, requests, guard, offer,
                       offered, queue, copy>>
        /\ save' = NoSave
    <2>1. doc.other = shown.other
      BY InStep DEF SaveWritten
    <2>2. save.at = "write" /\ save # NoSave
      BY DEF SaveWritten, NoSave
    <2>. QED BY <2>1, <2>2 DEF SaveWritten
  <1>2. Launched /\ Launched' /\ ~Unshown /\ ~Unshown' /\ Now' = Now /\ Top' = Top
        /\ After(queue, copy)' = After(queue, copy)
    BY <1>1 DEF Lasting, Still, Launched, Unshown, Now, Top
  <1>3. doc \in Doc /\ Now = doc
    <2>1. doc \in Doc /\ shown \in Doc /\ doc.project = shown.project /\ Within(shown, doc)
      BY <1>2 DEF Inv, Types, Lasting, Grown, Unshown
    <2>2. Now = [shown EXCEPT !.model = doc.model]
      BY <2>1, Takings DEF Now
    <2>. QED BY <1>1, <2>1, <2>2 DEF Doc
  <1>4. /\ Within(save.doc, Now) /\ (Saved \in Doc => Within(Saved, save.doc))
        /\ Within(Top, Now) /\ Within(shown, doc)
    BY <1>1, <1>2, Growth DEF Lasting, Grown, Top
  <1>5. save.doc \in Doc /\ save.doc.project = doc.project
    BY <1>3, <1>4, Growth DEF Within
  <1>6. Saved' = save.doc
    BY <1>1, <1>5 DEF Saved
  <1>7. \A d \in Doc : Within(d, Saved) => Within(d, Saved')
    <2>1. ASSUME NEW d \in Doc, Within(d, Saved) PROVE Saved \in Doc
      BY <2>1 DEF Within
    <2>. QED BY <1>4, <1>6, <2>1, Growth
  <1>8. Still' /\ AtLaunch'
    BY <1>1, <1>2 DEF Still, AtLaunch, Launched
  <1>9. Grown'
    BY <1>1, <1>2, <1>4, <1>6, LaunchDocuments DEF Grown, NoSave, Lasting
  <1>10. Orderly(queue, copy, Saved)'
    BY <1>1, <1>7, MoreSaved DEF Lasting
  <1>11. /\ Below(inbox, After(queue, copy), Top) /\ Growing(inbox, After(queue, copy), Saved')
         /\ inbox \in Seq(Messages)
    BY <1>2, <1>7, MoreSaved DEF Lasting, Inv, Types
  <1>12. Unchanged => Within(Top, Saved')
    <2> SUFFICES ASSUME Unchanged PROVE Saved' = doc
      BY <1>3, <1>4
    <2>1. shown \in Doc /\ shown.project = doc.project /\ save.doc = shown
      BY <1>2 DEF Unchanged, Inv, Types, Unshown
    <2>. QED BY <1>1, <1>3, <1>6, <2>1 DEF Unchanged, Doc
  <1> DEFINE m == DirtyMsg(~Unchanged)
             box == Append(inbox, m)
             r == ReplyMsg(IF Unchanged THEN "saved" ELSE "notSaved")
  <1>13. m \in Messages /\ m.kind # "copy" /\ (m \in Falses => Unchanged)
    BY SomeMessages DEF DirtyMsg, ReplyMsg, Falses
  <1>14. r \in Messages /\ r.kind # "copy" /\ (r \in Falses => Unchanged)
    BY SomeMessages DEF DirtyMsg, ReplyMsg, Falses, Outcomes
  <1>15. inbox' = box \/ inbox' = Append(box, r)
    <2>1. box \in Seq(Messages)
      BY <1>11, <1>13, OneMore
    <2>2. inbox' = box \o Reply(IF Unchanged THEN "saved" ELSE "notSaved")
      BY DEF SaveWritten
    <2>3. box \o <<>> = box /\ box \o <<r>> = Append(box, r)
      <3> HIDE DEF box, r
      <3>. QED BY <2>1
    <2>. QED BY <2>2, <2>3 DEF Reply
  <1> HIDE DEF m, r
  <1>16. /\ box \in Seq(Messages)
         /\ Below(box, After(queue, copy), Top) /\ Growing(box, After(queue, copy), Saved')
    <2>1. box \in Seq(Messages)
      BY <1>11, <1>13, OneMore
    <2>2. Below(box, After(queue, copy), Top)
      BY <1>11, <1>13, BelowOneMore
    <2>3. Growing(box, After(queue, copy), Saved')
      BY <1>11, <1>12, <1>13, SentOneMore
    <2>. QED BY <2>1, <2>2, <2>3
  <1> HIDE DEF box
  <1>17. /\ Below(Append(box, r), After(queue, copy), Top)
         /\ Growing(Append(box, r), After(queue, copy), Saved')
    <2>1. Below(Append(box, r), After(queue, copy), Top)
      BY <1>14, <1>16, BelowOneMore
    <2>2. Growing(Append(box, r), After(queue, copy), Saved')
      BY <1>12, <1>14, <1>16, SentOneMore
    <2>. QED BY <2>1, <2>2
  <1>. QED BY <1>2, <1>8, <1>9, <1>10, <1>15, <1>16, <1>17 DEF Lasting

\* The launch copy, from the answer to its offer to the document it becomes: nothing is
\* sent or queued while it lasts.
LEMMA LastingRestoring ==
    ASSUME Inv, Kept, Lasting,
           \/ RestoreStarts \/ RestoreOpens \/ RestoreRefused \/ RestoreFails
           \/ \E choice \in {"restore", "discard"} : OfferAnswered(choice)
    PROVE  Lasting'
  <1> USE LaunchDocuments DEF main, disk, renderer
  <1>1. ~Launched
    BY DEF RestoreStarts, RestoreOpens, RestoreRefused, RestoreFails, OfferAnswered, Launched
  <1>2. /\ doc = Opened /\ shown = Opened /\ savedToken = Opened /\ ~shownDirty
        /\ queue = <<>> /\ ~timer /\ snap = NoSnap /\ save = NoSave /\ requests = 0 /\ ~dirty
        /\ \A g \in Guards : guard[g] = NoGuard
    BY <1>1 DEF Lasting, Still, AtLaunch
  <1>3. file = Opened /\ inbox = <<>> /\ offer' = NoDoc
    <2>1. file = Opened
      BY <1>2 DEF Kept
    <2>2. restore.at \in {"handed", "parsing"} => inbox = <<>> /\ offer = NoDoc
      BY DEF Lasting, AtLaunch, Inv, Untouched, NoRestore
    <2>3. offer # NoDoc /\ offered => inbox = <<>>
      BY DEF Lasting, AtLaunch
    <2>. QED BY <2>1, <2>2, <2>3
             DEF RestoreStarts, RestoreOpens, RestoreRefused, RestoreFails, OfferAnswered
  <1>4. /\ shown' = Opened /\ ~shownDirty' /\ ~timer' /\ snap' = NoSnap /\ save' = NoSave
        /\ requests' = 0 /\ ~dirty' /\ copy' = copy /\ file' = Opened
        /\ \A g \in Guards : guard'[g] = NoGuard
    <2>1. UNCHANGED <<shown, shownDirty, timer, snap, save, requests, dirty, copy, file,
                     guard>>
      BY DEF RestoreStarts, RestoreOpens, RestoreRefused, RestoreFails, OfferAnswered
    <2>. QED BY <1>2, <1>3, <2>1
  <1>5. Still'
    <2>1. Unshown' => inbox' = <<>>
      <3>1. Unshown' => doc' # Opened
        BY <1>4 DEF Unshown
      <3>2. RestoreOpens \/ doc' = doc
        BY DEF RestoreStarts, RestoreRefused, RestoreFails, OfferAnswered
      <3>. QED BY <1>2, <1>3, <3>1, <3>2 DEF RestoreOpens
    <2>. QED BY <1>4, <2>1 DEF Still
  <1>6. ASSUME doc' = Opened, savedToken' = Opened PROVE Grown' /\ Now' = Opened /\ Saved' = Opened
    <2>1. Now' = Opened /\ Saved' = Opened
      BY <1>4, <1>6, Takings, Growth DEF Now, Saved
    <2>2. Within(Opened, Opened) /\ NoSave.at = "off"
      BY Growth DEF NoSave
    <2>. QED BY <1>4, <1>6, <2>1, <2>2 DEF Grown
  <1>7. \A x, f, top : x \notin Doc => Below(<<>>, x, top) /\ Growing(<<>>, x, f)
    BY DEF Below, Growing
  <1>8. CASE OfferAnswered("restore") \/ RestoreStarts
    <2>1. /\ doc' = Opened /\ savedToken' = Opened /\ inbox' = <<>> /\ queue' = <<>>
      BY <1>2, <1>3, <1>8 DEF OfferAnswered, RestoreStarts
    <2>2. /\ restore'.at \in {"handed", "parsing"} /\ copy = restore'.bytes
          /\ restore'.at = "parsing" => restore'.from = shown
          /\ copy \in {Broken, Unopenable, Restored}
      <3>1. CASE OfferAnswered("restore")
        BY <3>1 DEF OfferAnswered, NoRestore, Lasting, AtLaunch
      <3>2. CASE RestoreStarts
        <4>1. restore.at = "handed" /\ restore' = [restore EXCEPT !.at = "parsing", !.from = shown]
          BY <3>2 DEF RestoreStarts
        <4>2. copy = restore.bytes /\ copy \in {Broken, Unopenable, Restored}
          BY <4>1 DEF Lasting, AtLaunch
        <4>. QED BY <1>8, <3>2, <4>1, <4>2
      <3>. QED BY <1>8, <3>1, <3>2
    <2>3. ~Launched' /\ AtLaunch'
      BY <1>2, <1>3, <1>4, <2>1, <2>2 DEF Launched, AtLaunch
    <2>4. Orderly(queue, copy, Saved)'
      BY <2>1 DEF Orderly
    <2>. QED BY <1>5, <1>6, <2>1, <2>3, <2>4 DEF Lasting
  <1>9. CASE OfferAnswered("discard")
    <2>1. /\ doc' = Opened /\ savedToken' = Opened /\ inbox' = <<>> /\ restore' = restore
          /\ queue' = Append(<<>>, ClearTask("offer"))
      BY <1>2, <1>3, <1>9 DEF OfferAnswered
    <2>2. restore.at = "none"
      BY <1>9 DEF OfferAnswered, Inv, Untouched, NoRestore
    <2>3. Launched' /\ AtLaunch'
      BY <1>3, <2>1, <2>2 DEF Launched, AtLaunch
    <2>4. /\ ClearTask("offer") \in Tasks /\ Done(ClearTask("offer")) = NoDoc
          /\ Covers(ClearTask("offer"), copy, Opened)
      BY SomeTasks DEF Covers, ClearTask
    <2>5. After(<<>>, copy) = copy /\ Orderly(<<>>, copy, Opened) /\ <<>> \in Seq(Tasks)
      BY DEF After, Orderly
    <2>6. Orderly(queue', copy, Opened)
      BY <2>1, <2>4, <2>5, OrderlyOneMore
    <2>7. After(queue', copy) = NoDoc
      BY <2>1, <2>4, <2>5, AfterOneMore
    <2>. QED BY <1>4, <1>5, <1>6, <1>7, <2>1, <2>3, <2>6, <2>7 DEF Lasting
  <1>10. CASE RestoreOpens
    <2>1. /\ doc' = Restored /\ inbox' = <<>> /\ queue' = <<>> /\ restore'.at = "done"
          /\ copy = Restored
      BY <1>2, <1>3, <1>10 DEF RestoreOpens, NoRestore, Lasting, AtLaunch
    <2>2. Launched' /\ AtLaunch'
      BY <1>3, <2>1 DEF Launched, AtLaunch
    <2>3. Unshown' /\ Now' = Restored /\ Top' = Restored /\ Saved' = NoDoc
      BY <1>4, <2>1 DEF Unshown, Now, Taken, Top, Saved
    <2>4. Grown'
      BY <1>4, <2>3 DEF Grown, NoSave
    <2>5. After(queue', copy') = Restored /\ Orderly(queue, copy, Saved)'
      BY <1>4, <2>1 DEF After, Orderly
    <2>6. Below(<<>>, Restored, Restored) /\ Growing(<<>>, Restored, NoDoc)
      BY Growth DEF Below, Growing
    <2>. QED BY <1>5, <2>1, <2>2, <2>3, <2>4, <2>5, <2>6 DEF Lasting
  <1>11. CASE RestoreRefused \/ RestoreFails
    <2>1. /\ doc' = Opened /\ savedToken' = Opened /\ queue' = <<>>
          /\ restore'.at \in {"done", "refused"}
      BY <1>2, <1>11 DEF RestoreRefused, RestoreFails, NoRestore
    <2>2. copy \notin Doc
      BY <1>11 DEF RestoreRefused, RestoreFails, Lasting, AtLaunch
    <2>3. Launched' /\ AtLaunch'
      BY <1>3, <2>1 DEF Launched, AtLaunch
    <2>4. After(queue', copy') = copy /\ Orderly(queue, copy, Saved)'
      BY <1>4, <2>1 DEF After, Orderly
    <2>5. inbox' = <<>> \/ inbox' = Append(<<>>, DirtyMsg(FALSE))
      BY <1>3, <1>11 DEF RestoreRefused, RestoreFails
    <2>6. /\ Below(<<>>, copy, Opened) /\ Growing(<<>>, copy, Opened)
          /\ <<>> \in Seq(Messages) /\ DirtyMsg(FALSE) \in Messages
          /\ DirtyMsg(FALSE).kind # "copy" /\ Within(Opened, Opened)
      <3>1. Below(<<>>, copy, Opened) /\ Growing(<<>>, copy, Opened)
        BY <1>7, <2>2
      <3>2. <<>> \in Seq(Messages) /\ DirtyMsg(FALSE) \in Messages
        BY DEF Messages, DirtyMsg
      <3>3. DirtyMsg(FALSE).kind # "copy" /\ Within(Opened, Opened)
        BY Growth DEF DirtyMsg
      <3>. QED BY <3>1, <3>2, <3>3
    <2>7. Below(inbox', copy, Opened) /\ Growing(inbox', copy, Opened)
      BY <2>5, <2>6, SentOneMore, BelowOneMore
    <2>8. Top' = Opened
      BY <1>4, <1>6, <2>1 DEF Top
    <2>. QED BY <1>5, <1>6, <2>1, <2>3, <2>4, <2>7, <2>8 DEF Lasting
  <1>. QED BY <1>8, <1>9, <1>10, <1>11

\* What a message puts into the queue
LEMMA Handling ==
    ASSUME Inv, Deliver, Launched
    PROVE  /\ inbox \in Seq(Messages) /\ inbox # <<>> /\ inbox' = Tail(inbox)
           /\ UNCHANGED <<renderer, requests, disk, offer>>
           /\ \A g \in Guards : guard[g].at # "saving" => guard'[g] = guard[g]
           /\ \/ queue' = queue
              \/ /\ Head(inbox) \in Falses
                 /\ \E by \in {"nobody", "all"} : queue' = Append(queue, ClearTask(by))
              \/ /\ Head(inbox).kind = "copy" /\ Head(inbox).value \in Token
                 /\ queue' = Append(queue, WriteTask(Head(inbox).value))
  <1> DEFINE msg == Head(inbox)
  <1>1. /\ inbox \in Seq(Messages) /\ inbox # <<>> /\ inbox' = Tail(inbox)
        /\ UNCHANGED <<renderer, requests, disk>> /\ offer = NoDoc
    BY DEF Deliver, Inv, Types, Launched
  <1>2. msg \in Messages
    BY <1>1, OneLess
  <1> HIDE DEF msg
  <1>3. \/ msg.kind = "dirty" /\ HandleDirty(msg.value)
        \/ msg.kind = "copy" /\ HandleCopy(msg.value)
        \/ msg.kind = "reply" /\ HandleReply(msg.value)
        \/ msg.kind = "take" /\ HandleTake
    BY DEF Deliver, msg
  <1>4. offer' = offer /\ \A g \in Guards : guard[g].at # "saving" => guard'[g] = guard[g]
    BY <1>3 DEF HandleDirty, HandleCopy, HandleReply, HandleTake
  <1>5. \/ queue' = queue
        \/ msg \in Falses /\ \E by \in {"nobody", "all"} : queue' = Append(queue, ClearTask(by))
        \/ msg.kind = "copy" /\ msg.value \in Token /\ queue' = Append(queue, WriteTask(msg.value))
    <2>1. CASE msg.kind = "dirty" /\ HandleDirty(msg.value)
      <3>1. msg = DirtyMsg(msg.value) /\ msg.value \in BOOLEAN
        BY <1>2, <2>1 DEF Messages, DirtyMsg, TakeMsg
      <3>2. queue' = IF msg.value THEN queue ELSE Append(queue, ClearTask("nobody"))
        BY <1>1, <2>1 DEF HandleDirty, Cleared
      <3>. QED BY <3>1, <3>2 DEF Falses
    <2>2. CASE msg.kind = "copy" /\ HandleCopy(msg.value)
      BY <1>2, <2>2 DEF HandleCopy, Messages, TakeMsg
    <2>3. CASE msg.kind = "reply" /\ HandleReply(msg.value)
      <3>1. msg = ReplyMsg(msg.value)
        BY <1>2, <2>3 DEF Messages, ReplyMsg, TakeMsg
      <3>2. queue' = queue \/ (msg.value = "saved" /\ queue' = Append(queue, ClearTask("all")))
        BY <1>1, <2>3 DEF HandleReply, Cleared
      <3>. QED BY <3>1, <3>2 DEF Falses
    <2>4. CASE msg.kind = "take" /\ HandleTake
      BY <2>4 DEF HandleTake
    <2>. QED BY <1>3, <2>1, <2>2, <2>3, <2>4
  <1>. QED BY <1>1, <1>4, <1>5 DEF msg

\* What main makes of a message
LEMMA LastingDelivering ==
    ASSUME Inv, Lasting, Deliver
    PROVE  Lasting'
  <1> USE DEF main, disk, renderer
  <1>1. CASE Launched
    <2> DEFINE msg == Head(inbox)
               x == After(queue, copy)
    <2>1. /\ inbox \in Seq(Messages) /\ inbox # <<>> /\ inbox' = Tail(inbox)
          /\ UNCHANGED <<renderer, requests, disk, offer>>
          /\ \A g \in Guards : guard[g].at # "saving" => guard'[g] = guard[g]
          /\ \/ queue' = queue
             \/ /\ msg \in Falses
                /\ \E by \in {"nobody", "all"} : queue' = Append(queue, ClearTask(by))
             \/ /\ msg.kind = "copy" /\ msg.value \in Token
                /\ queue' = Append(queue, WriteTask(msg.value))
      BY <1>1, Handling
    <2>2. /\ Launched' /\ (Unshown' <=> Unshown) /\ Now' = Now /\ Top' = Top /\ Saved' = Saved
          /\ copy' = copy
      BY <1>1, <2>1 DEF Launched, Unshown, Now, Top, Saved
    <2>3. Still'
      BY <2>1, <2>2 DEF Lasting, Still
    <2>4. AtLaunch'
      BY <2>2 DEF Launched, AtLaunch
    <2>5. Grown'
      BY <2>1, <2>2 DEF Lasting, Grown
    <2>6. Below(inbox, x, Top) /\ Growing(inbox, x, Saved) /\ Orderly(queue, copy, Saved)
          /\ queue \in Seq(Tasks)
      BY <1>1 DEF Lasting, Inv, Types
    <2> HIDE DEF x, msg
    <2>7. /\ Meets(msg, x, Saved)
          /\ Below(inbox', x, Top) /\ Growing(inbox', x, Saved)
          /\ Below(inbox', NoDoc, Top) /\ Growing(inbox', NoDoc, Saved)
          /\ msg.kind = "copy" => Below(inbox', msg.value, Top) /\ Growing(inbox', msg.value, Saved)
      BY <2>1, <2>6, SentOneLess DEF msg
    <2>8. /\ Orderly(queue', copy, Saved)
          /\ Below(inbox', After(queue', copy), Top) /\ Growing(inbox', After(queue', copy), Saved)
      <3>1. CASE queue' = queue
        BY <2>6, <2>7, <3>1 DEF x
      <3>2. ASSUME NEW by \in {"nobody", "all"}, msg \in Falses, queue' = Append(queue, ClearTask(by))
            PROVE  /\ Orderly(queue', copy, Saved) /\ Below(inbox', After(queue', copy), Top)
                   /\ Growing(inbox', After(queue', copy), Saved)
        <4>1. Covers(ClearTask(by), x, Saved)
          BY <2>7, <3>2 DEF Meets, Covers, ClearTask
        <4>2. ClearTask(by) \in Tasks /\ Done(ClearTask(by)) = NoDoc
          BY SomeTasks
        <4>3. Orderly(queue', copy, Saved) /\ After(queue', copy) = NoDoc
          BY <2>6, <3>2, <4>1, <4>2, OrderlyOneMore, AfterOneMore DEF x
        <4>. QED BY <2>7, <4>3
      <3>3. CASE msg.kind = "copy" /\ msg.value \in Token /\ queue' = Append(queue, WriteTask(msg.value))
        <4>1. Covers(WriteTask(msg.value), x, Saved)
          BY <2>7, <3>3 DEF Meets, Covers, WriteTask
        <4>2. WriteTask(msg.value) \in Tasks /\ Done(WriteTask(msg.value)) = msg.value
          BY <3>3, SomeTasks DEF WriteTask, Done
        <4>3. Orderly(queue', copy, Saved) /\ After(queue', copy) = msg.value
          BY <2>6, <3>3, <4>1, <4>2, OrderlyOneMore, AfterOneMore DEF x
        <4>. QED BY <2>7, <3>3, <4>3
      <3>. QED BY <2>1, <3>1, <3>2, <3>3
    <2>. QED BY <2>2, <2>3, <2>4, <2>5, <2>8 DEF Lasting
  <1>2. CASE ~Launched
    <2> DEFINE msg == Head(inbox)
    <2>1. /\ inbox \in Seq(Messages) /\ inbox # <<>> /\ inbox' = Tail(inbox)
          /\ UNCHANGED <<renderer, requests, disk>>
      BY DEF Deliver, Inv, Types
    <2>2. offer # NoDoc /\ restore.at \notin {"handed", "parsing"}
      BY <1>2, <2>1 DEF Launched, Lasting, AtLaunch
    <2>3. /\ \A i \in DOMAIN inbox : /\ inbox[i] \in {DirtyMsg(FALSE), TakeMsg}
                                     /\ inbox[i] = TakeMsg => i = Len(inbox)
          /\ offered => inbox = <<>>
          /\ copy = offer /\ offer \in {Broken, Unopenable, Restored}
      BY <2>2 DEF Lasting, AtLaunch
    <2>4. /\ msg = inbox[1] /\ 1 \in DOMAIN inbox /\ Len(inbox) \in Nat \ {0}
          /\ inbox' \in Seq(Messages) /\ Len(inbox') = Len(inbox) - 1
          /\ DOMAIN inbox' = 1 .. Len(inbox') /\ DOMAIN inbox = 1 .. Len(inbox)
          /\ \A i \in 1 .. Len(inbox') : inbox'[i] = inbox[i + 1]
      BY <2>1, HeadTailProperties, EmptySeq, LenProperties
    <2>5. \A i \in DOMAIN inbox' : /\ inbox'[i] \in {DirtyMsg(FALSE), TakeMsg}
                                   /\ inbox'[i] = TakeMsg => i = Len(inbox')
      <3> SUFFICES ASSUME NEW i \in DOMAIN inbox'
                   PROVE  /\ inbox'[i] \in {DirtyMsg(FALSE), TakeMsg}
                          /\ inbox'[i] = TakeMsg => i = Len(inbox')
        OBVIOUS
      <3>1. i \in Nat /\ i + 1 \in DOMAIN inbox /\ inbox'[i] = inbox[i + 1]
        BY <2>4
      <3>2. inbox[i + 1] \in {DirtyMsg(FALSE), TakeMsg}
            /\ (inbox[i + 1] = TakeMsg => i + 1 = Len(inbox))
        BY <2>3, <3>1
      <3>3. Len(inbox') = Len(inbox) - 1 /\ Len(inbox) \in Nat
        BY <2>4
      <3>4. inbox'[i] \in {DirtyMsg(FALSE), TakeMsg}
        BY <3>1, <3>2
      <3>5. inbox'[i] = TakeMsg => i = Len(inbox')
        BY <3>1, <3>2, <3>3
      <3>. QED BY <3>4, <3>5
    <2>6. \/ msg = DirtyMsg(FALSE) /\ HandleDirty(FALSE)
          \/ msg = TakeMsg /\ HandleTake
      <3>1. msg = DirtyMsg(FALSE) \/ msg = TakeMsg
        BY <2>3, <2>4
      <3> HIDE DEF msg
      <3>2. \/ msg.kind = "dirty" /\ HandleDirty(msg.value)
            \/ msg.kind = "copy" /\ HandleCopy(msg.value)
            \/ msg.kind = "reply" /\ HandleReply(msg.value)
            \/ msg.kind = "take" /\ HandleTake
        BY DEF Deliver, msg
      <3>3. /\ DirtyMsg(FALSE).kind = "dirty" /\ DirtyMsg(FALSE).value = FALSE
            /\ TakeMsg.kind = "take"
        BY DEF DirtyMsg, TakeMsg
      <3>. QED BY <3>1, <3>2, <3>3
    <2> HIDE DEF msg
    <2>7. queue' = queue /\ offer' = offer /\ guard' = guard /\ ~dirty'
      <3>1. ~dirty
        BY <1>2 DEF Lasting, Still
      <3>2. CASE HandleDirty(FALSE)
        BY <2>2, <3>2 DEF HandleDirty, Cleared
      <3>3. CASE HandleTake
        BY <3>1, <3>3 DEF HandleTake
      <3>. QED BY <2>6, <3>2, <3>3
    <2>8. offered' => inbox' = <<>>
      <3>1. CASE msg = TakeMsg
        <4>1. Len(inbox) = 1
          BY <2>3, <2>4, <3>1
        <4>. QED BY <2>4, <4>1, EmptySeq
      <3>2. CASE HandleDirty(FALSE)
        BY <2>1, <2>3, <3>2 DEF HandleDirty
      <3>. QED BY <2>6, <3>1, <3>2
    <2>9. AtLaunch'
      <3>1. queue = <<>> /\ doc = Opened /\ shown = Opened /\ savedToken = Opened /\ ~shownDirty
        BY <1>2 DEF Lasting, AtLaunch
      <3>2. /\ offer' # NoDoc /\ restore'.at \notin {"handed", "parsing"} /\ copy' = offer'
            /\ offer' \in {Broken, Unopenable, Restored}
        BY <2>1, <2>2, <2>3, <2>7
      <3>. QED BY <2>1, <2>5, <2>7, <2>8, <3>1, <3>2 DEF AtLaunch
    <2>10. Still' /\ ~Launched'
      <3>1. ~Unshown'
        BY <1>2, <2>1 DEF Lasting, AtLaunch, Unshown
      <3>. QED BY <1>2, <2>1, <2>2, <2>7, <3>1 DEF Lasting, Still, Launched
    <2>11. Grown' /\ Orderly(queue, copy, Saved)'
      <3>1. Now' = Now /\ Saved' = Saved /\ (Unshown' <=> Unshown)
        BY <2>1 DEF Now, Saved, Unshown
      <3>. QED BY <2>1, <2>7, <3>1 DEF Lasting, Grown
    <2>. QED BY <2>9, <2>10, <2>11 DEF Lasting
  <1>. QED BY <1>1, <1>2

\* The queue empties, and the copy becomes what it was to become.
LEMMA LastingTask == ASSUME Inv, Lasting, RunTask PROVE Lasting'
  <1> USE DEF main, disk, renderer
  <1>1. /\ UNCHANGED <<doc, shown, shownDirty, savedToken, timer, snap, save, restore, requests,
                       inbox, dirty, offer, offered, file>>
        /\ queue \in Seq(Tasks) /\ queue # <<>> /\ queue' = Tail(queue)
        /\ copy' = Done(Head(queue))
        /\ \A g \in Guards : guard[g].at # "clearing" => guard'[g] = guard[g]
    BY DEF RunTask, Inv, Types, Done
  <1>2. Launched /\ Launched' /\ AtLaunch'
    BY <1>1 DEF Lasting, AtLaunch, Launched
  <1>3. /\ (Unshown' <=> Unshown) /\ Now' = Now /\ Top' = Top /\ Saved' = Saved
    BY <1>1 DEF Unshown, Now, Top, Saved
  <1>4. Still'
    <2> SUFFICES ASSUME Unshown
                 PROVE  /\ ~timer' /\ snap' = NoSnap /\ save' = NoSave /\ requests' = 0 /\ ~dirty' /\ inbox' = <<>>
                        /\ \A g \in Guards : guard'[g] = NoGuard
      BY <1>2, <1>3 DEF Still
    <2>1. \A g \in Guards : guard'[g] = NoGuard
      BY <1>1 DEF Lasting, Still, NoGuard
    <2>. QED BY <1>1, <2>1 DEF Lasting, Still
  <1>5. Grown'
    BY <1>1, <1>3 DEF Lasting, Grown
  <1>6. After(queue', copy') = After(queue, copy) /\ Orderly(queue', copy', Saved)
    BY <1>1, AfterOneLess, OrderlyOneLess DEF Lasting
  <1>. QED BY <1>1, <1>2, <1>3, <1>4, <1>5, <1>6 DEF Lasting

\* What the user and the guards of the window do
LEMMA LastingClosing ==
    ASSUME Inv, Lasting,
           \/ PressClose \/ PressQuit
           \/ \E g \in Guards, choice \in {"save", "discard", "cancel"} : Answer(g, choice)
           \/ \E g \in Guards : TimesOut(g) \/ Leave(g)
    PROVE  Lasting'
  <1> USE DEF main, disk, renderer
  <1>1. UNCHANGED <<doc, shown, shownDirty, savedToken, timer, snap, save, restore, inbox, offer,
                    offered, copy, file>>
    BY DEF PressClose, PressQuit, Answer, TimesOut, Leave
  <1>2. /\ (Launched' <=> Launched) /\ (Unshown' <=> Unshown)
        /\ Now' = Now /\ Top' = Top /\ Saved' = Saved
    BY <1>1 DEF Launched, Unshown, Now, Top, Saved
  <1>3. (Launched /\ ~Unshown) \/ UNCHANGED <<requests, dirty, queue, guard>>
    <2>1. CASE PressClose \/ PressQuit
      <3>1. UNCHANGED <<requests, dirty, queue>> /\ (~dirty => guard' = guard)
        BY <2>1 DEF PressClose, PressQuit, CloseWindow
      <3>. QED BY <3>1 DEF Lasting, Still
    <2>2. ASSUME NEW g \in Guards, guard[g].at \in {"dialog", "saving", "leaving"}
          PROVE  Launched /\ ~Unshown
      BY <2>2 DEF Lasting, Still, NoGuard
    <2>. QED BY <2>1, <2>2 DEF Answer, TimesOut, Leave
  <1>4. Still'
    BY <1>1, <1>2, <1>3 DEF Lasting, Still
  <1>5. Grown'
    <2>1. shown' = shown /\ doc' = doc /\ snap' = snap /\ save' = save
      BY <1>1
    <2>. QED BY <1>2, <2>1 DEF Lasting, Grown
  <1>6. CASE UNCHANGED <<requests, dirty, queue, guard>>
    BY <1>1, <1>2, <1>4, <1>5, <1>6 DEF Lasting, AtLaunch
  <1> SUFFICES ASSUME Launched, ~Unshown PROVE Lasting'
    BY <1>3, <1>6
  <1>7. AtLaunch'
    BY <1>2 DEF AtLaunch, Launched
  <1>8. /\ Below(inbox, After(queue, copy), Top) /\ Growing(inbox, After(queue, copy), Saved)
        /\ Orderly(queue, copy, Saved) /\ queue \in Seq(Tasks)
    BY DEF Lasting, Inv, Types
  <1>10. queue' = queue \/ \E g \in Guards : queue' = Append(queue, ClearTask(g))
    <2>1. CASE PressClose \/ PressQuit \/ \E g \in Guards : TimesOut(g) \/ Leave(g)
      BY <2>1 DEF PressClose, PressQuit, TimesOut, Leave
    <2>2. ASSUME NEW g \in Guards, NEW choice \in {"save", "discard", "cancel"}, Answer(g, choice)
          PROVE  queue' = queue \/ queue' = Append(queue, ClearTask(g))
      BY <2>2 DEF Answer, Cleared
    <2>. QED BY <2>1, <2>2
  <1>11. CASE queue' = queue
    BY <1>1, <1>2, <1>4, <1>5, <1>7, <1>8, <1>11 DEF Lasting
  <1>9. ASSUME NEW g \in Guards, queue' = Append(queue, ClearTask(g)) PROVE Lasting'
    <2>1. ClearTask(g) \in Tasks /\ Done(ClearTask(g)) = NoDoc
      BY SomeTasks
    <2>2. Covers(ClearTask(g), After(queue, copy), Saved)
      BY DEF Covers, ClearTask, Guards
    <2>3. Orderly(queue', copy, Saved) /\ After(queue', copy) = NoDoc
      BY <1>8, <1>9, <2>1, <2>2, OrderlyOneMore, AfterOneMore
    <2>4. Below(inbox, NoDoc, Top) /\ Growing(inbox, NoDoc, Saved)
      BY <1>8, Forgotten
    <2>. QED BY <1>1, <1>2, <1>4, <1>5, <1>7, <2>3, <2>4 DEF Lasting
  <1>. QED BY <1>10, <1>11, <1>9

\* Whatever overtook the session is not forgotten.
LEMMA SlipsStay == ASSUME [Next]_vars PROVE slips \subseteq slips'
  <1>1. ASSUME NEW others, CloseWindow(others) PROVE slips \subseteq slips'
    BY <1>1 DEF CloseWindow, Slip
  <1>. QED
    BY <1>1 DEF vars, Next, EditModel, EditScenario, RunEnds, Render, TimerFires, SnapExported,
          SnapSent, SaveCommand, AnswerRequest, SaveGivenUp, SaveExported, SaveWritten,
          RestoreStarts, RestoreOpens, RestoreRefused, RestoreFails, Deliver, RunTask,
          OfferAnswered, PressClose, PressQuit, Answer, TimesOut, Leave, ChangeSlips, Slip

\* Until the session is overtaken, what is unsaved is told and copied, and what was copied
\* is there until it is in the file.
LEMMA AlwaysInStep == Spec => [](Inv /\ (Smooth => Kept /\ Lasting))
  <1>1. Init => Kept /\ Lasting
    BY KeptStarts, LastingStarts
  <1>2. Inv /\ (Smooth => Kept /\ Lasting) /\ [Next]_vars => (Smooth' => Kept' /\ Lasting')
    <2> SUFFICES ASSUME Inv, Smooth => Kept /\ Lasting, [Next]_vars, Smooth'
                 PROVE  Kept' /\ Lasting'
      OBVIOUS
    <2>1. Kept /\ Lasting
      BY SlipsStay DEF Smooth
    <2>2. CASE UNCHANGED vars
      <3>1. UNCHANGED <<doc, shown, shownDirty, savedToken, timer, snap, save, restore, inbox,
                        requests, dirty, offer, offered, queue, guard, closed, copy, file>>
        BY <2>2 DEF vars, renderer, main, disk
      <3>2. /\ (Launched' <=> Launched) /\ (Unshown' <=> Unshown) /\ (Published' <=> Published)
            /\ (Unsaved' <=> Unsaved) /\ Now' = Now /\ Top' = Top /\ Saved' = Saved
        BY <3>1 DEF Launched, Unshown, Published, Unsaved, Now, Top, Saved
      <3>3. Kept'
        BY <2>1, <3>1, <3>2 DEF Kept, Rendered, Told, Discarded, CopyComes, CopySent
      <3>4. Lasting'
        BY <2>1, <3>1, <3>2 DEF Lasting, Still, AtLaunch, Grown
      <3>. QED BY <3>3, <3>4
    <2>3. CASE Next
      <3>1. Kept'
        BY <2>1, <2>3, KeptEditing, KeptSnapping, KeptRendering, KeptSaving, KeptWritten,
           KeptRestoring, KeptDelivering, KeptTask, KeptClosing DEF Next
      <3>2. Lasting'
        BY <2>1, <2>3, LastingEditing, LastingSnapping, LastingRendering, LastingSaving,
           LastingWritten, LastingRestoring, LastingDelivering, LastingTask, LastingClosing
           DEF Next
      <3>. QED BY <3>1, <3>2
    <2>. QED BY <2>2, <2>3
  <1>. QED BY <1>1, <1>2, AlwaysInv, PTL DEF Spec

\* Autosave misses nothing: once nothing goes on without the user any more, what is unsaved
\* is in the recovery copy, although saves hold the file lock, edits throw snapshots away,
\* the offer of the launch copy holds writes back and main drops those it takes for late
\* (the autosave effect, copiar, lila:writeRecovery).  So until the user edits or saves
\* before a restored copy is shown, or one render hides a change behind the end of a save.
THEOREM AutosaveMissesNothing == Spec => []UnsavedWorkIsCopied
  <1>1. Inv /\ (Smooth => Kept /\ Lasting) => UnsavedWorkIsCopied
    <2> SUFFICES ASSUME Inv, Kept, AtRest, doc # savedToken PROVE copy = doc
      BY DEF UnsavedWorkIsCopied
    <2>1. /\ ~closed /\ doc = shown /\ Unsaved /\ ~timer /\ snap = NoSnap
          /\ inbox = <<>> /\ queue = <<>> /\ ~Discarded
      BY DEF AtRest, Committed, Unsaved, Discarded
    <2>2. CopySent
      BY <2>1 DEF Kept, CopyComes
    <2>. QED BY <2>1, <2>2 DEF CopySent, Has, After
  <1>. QED BY <1>1, AlwaysInStep, PTL

\* The window never closes on work that is not in the file, unless the user gave it up:
\* neither a save that an edit overtook, nor the answer to another request, nor the second
\* of two dialogs lets it through (confirmClose, decideClose, the close handler).  So
\* whatever the renderer does, as long as what it has to say of a change is sent and has
\* arrived.
THEOREM NothingIsLostSilently == Spec => NoSilentClose
  <1>1. Inv /\ (Smooth => Kept /\ Lasting) /\ [Next]_vars =>
           [slips' = {} /\ ~closed /\ closed' =>
              Within(doc, file) \/ \E g \in Guards : guard[g].choice = "discard"]_vars
    <2> SUFFICES ASSUME Inv, Smooth => Kept /\ Lasting, Next, slips' = {}, ~closed, closed'
                 PROVE  Within(doc, file) \/ \E g \in Guards : guard[g].choice = "discard"
      OBVIOUS
    <2>1. Kept
      BY SlipsStay DEF Smooth
    <2>2. ~Unheard /\ ~dirty
      <3>1. \E others : CloseWindow(others)
        BY DEF Next, EditModel, EditScenario, RunEnds, Render, TimerFires, SnapExported, SnapSent,
               SaveCommand, AnswerRequest, SaveGivenUp, SaveExported, SaveWritten,
               RestoreStarts, RestoreOpens, RestoreRefused, RestoreFails, Deliver, HandleDirty,
               HandleCopy, HandleReply, HandleTake, RunTask, OfferAnswered, PressClose, PressQuit,
               Answer, TimesOut, Leave, main
      <3>. QED BY <3>1 DEF CloseWindow, Slip, When
    <2>3. doc = shown /\ ~Has(inbox, DirtyMsg(TRUE)) /\ doc # NoDoc
      BY <2>2, Documents DEF Unheard, Has, Inv, Types
    <2>4. CASE Unsaved
      <3>1. Discarded
        BY <2>1, <2>2, <2>3, <2>4 DEF Kept, Told
      <3>. QED BY <3>1 DEF Discarded
    <2>5. CASE ~Unsaved
      <3>1. doc = savedToken
        BY <2>1, <2>3, <2>5 DEF Unsaved, Kept, Rendered
      <3>. QED BY <2>1, <2>3, <3>1 DEF Kept, Within
    <2>. QED BY <2>4, <2>5
  <1>. QED BY <1>1, AlwaysInStep, PTL DEF Spec, NoSilentClose

\* What the recovery copy holds only goes once it is in the project file, in a later copy,
\* or the user gave it up: renders, saves, timers, late writes and the restore of the
\* launch copy never make main delete more than the file holds (setDirty, clearRecovery,
\* queueRecovery, restaurarCopia).  So until the user edits or saves before a restored copy
\* is shown, or one render hides a change behind the end of a save.
THEOREM TheCopyLasts == Spec => CopyStaysInStep
  <1>1. Inv /\ (Smooth => Kept /\ Lasting) /\ [Next]_vars =>
           [Smooth' /\ copy \in Doc /\ copy' # copy => CopyIsPutAway]_vars
    <2> SUFFICES ASSUME Inv, Smooth => Kept /\ Lasting, Next, Smooth', copy \in Doc, copy' # copy
                 PROVE  Within(copy, copy') \/ Within(copy, file) \/ GivenUp
      BY DEF CopyIsPutAway
    <2>0. Lasting
      BY SlipsStay DEF Smooth
    <2>1. RunTask
      BY DEF Next, EditModel, EditScenario, RunEnds, Render, TimerFires, SnapExported, SnapSent,
             SaveCommand, AnswerRequest, SaveGivenUp, SaveExported, SaveWritten,
             RestoreStarts, RestoreOpens, RestoreRefused, RestoreFails, Deliver, OfferAnswered,
             PressClose, PressQuit, Answer, TimesOut, Leave, disk
    <2>2. queue \in Seq(Tasks) /\ queue # <<>> /\ copy' = Done(Head(queue))
      BY <2>1 DEF RunTask, Inv, Types, Done
    <2>3. Head(queue) \in Tasks /\ Covers(Head(queue), copy, Saved)
      BY <2>0, <2>2, AfterOneLess, OrderlyOneLess DEF Lasting
    <2> DEFINE task == Head(queue)
    <2> HIDE DEF task
    <2>4. CASE task.kind = "write"
      BY <2>2, <2>3, <2>4 DEF Covers, Done, task
    <2>5. CASE task.kind = "clear"
      <3>1. CASE task.value \in {"nobody", "all"}
        <4>1. Within(copy, Saved)
          BY <2>3, <2>5, <3>1 DEF Covers, task
        <4>. QED BY <4>1, Growth DEF Saved
      <3>2. CASE task.value \in Guards \cup {"offer"}
        BY <2>5, <3>2 DEF GivenUp, task
      <3>. QED BY <2>3, <2>5, <3>1, <3>2 DEF Tasks, task
    <2>. QED BY <2>3, <2>4, <2>5 DEF Tasks, task
  <1>. QED BY <1>1, AlwaysInStep, PTL DEF Spec, CopyStaysInStep
=============================================================================
