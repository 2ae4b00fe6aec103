-------------------------- MODULE ProjectFilesProofs --------------------------
(*****************************************************************************)
(* Theorems about the files Lila keeps.                                       *)
(*                                                                           *)
(* First the lock of a .lila, for any number of writers, any bound on         *)
(* crashes, any errors of the file system, with and without a leftover.  The  *)
(* exclusive create is enough while no lock file is old, and none grows old   *)
(* that was not left over: until then the lock is a mutex, and what goes      *)
(* wrong afterwards goes wrong in the take-over, and needs three writers or a *)
(* lapse.  Then the reload and the file of the session, and the theorems      *)
(* about every part, carried over to the specification of all.                *)
(*****************************************************************************)
EXTENDS ProjectFiles, SequenceTheorems, TLAPS

\* Types hold at first
LEMMA TypedInit == Init => TypeOK
  BY DEF Init, TypeOK, PCs, Files

\* Every step keeps the types, one action after the other
LEMMA TypedStep == TypeOK /\ [Next]_vars => TypeOK'
  <1> SUFFICES ASSUME TypeOK, [Next]_vars PROVE TypeOK'
    OBVIOUS
  <1>1. CASE UNCHANGED vars
    BY <1>1 DEF vars, TypeOK
  <1>2. ASSUME NEW f \in Files, Age(f) PROVE TypeOK'
    BY <1>2 DEF Age, TypeOK
  <1>2a. ASSUME NEW f \in Files, AgeAlive(f) PROVE TypeOK'
    BY <1>2a DEF AgeAlive, TypeOK, Lapses
  <1>3. ASSUME NEW w \in Writers, Step(w) \/ Fault(w) PROVE TypeOK'
    <2>1. CASE Create(w)
      BY <2>1 DEF Create, Goto, TypeOK, PCs, Files
    <2>2. CASE Fill(w) \/ Retry(w) \/ GiveUp(w) \/ Finish(w) \/ Crash(w)
      BY <2>2 DEF Fill, Retry, GiveUp, Finish, Crash, Goto, TypeOK, PCs, Files
    <2>2a. CASE Refused(w) \/ FillFails(w) \/ LinkFails(w) \/ DiscardFails(w) \/ ReleaseFails(w)
      BY <2>2a DEF Refused, FillFails, LinkFails, DiscardFails, ReleaseFails, Goto, TypeOK, PCs,
                   Files, Lapses
    <2>3. CASE Peek(w)
      BY <2>3 DEF Peek, Goto, TypeOK, PCs, Files, TokenOf
    <2>4. CASE Stat(w)
      BY <2>4 DEF Stat, Goto, TypeOK, PCs
    <2>5. CASE Move(w)
      BY <2>5 DEF Move, Goto, TypeOK, PCs
    <2>6. CASE Compare(w) \/ CheckOwn(w) \/ Unlink(w)
      BY <2>6 DEF Compare, CheckOwn, Unlink, Goto, TypeOK, PCs
    <2>7. CASE PutBack(w) \/ Discard(w)
      BY <2>7 DEF PutBack, Discard, Goto, TypeOK, PCs
    <2>. QED
      BY <1>3, <2>1, <2>2, <2>2a, <2>3, <2>4, <2>5, <2>6, <2>7 DEF Step, Fault
  <1>. QED BY <1>1, <1>2, <1>2a, <1>3 DEF Next

\* Every variable keeps its type.
THEOREM TypeCorrect == Spec => []TypeOK
  BY TypedInit, TypedStep, PTL DEF Spec

-----------------------------------------------------------------------------

\* While no lock is old nobody takes one over, and whoever holds it finds it at its path
\* with its own token; while nothing is left over nothing is old, and what is at that path
\* is the lock of somebody who holds it.
Orderly ==
    /\ old = {} => \A w \in Writers :
          /\ pc[w] \notin {"move", "compare", "putBack", "discard"}
          /\ pc[w] \in Holding => lock = w
          /\ pc[w] \in Holding \ {"fill"} => w \in filled
    /\ NothingLeftOver =>
          /\ old = {} /\ lock # Leftover
          /\ \A w \in Writers : lock = w => pc[w] \in Holding

Inv == TypeOK /\ Orderly

\* Orderly holds at first
LEMMA OrderlyInit == Init => Orderly
  BY LockAssumption DEF Init, Orderly, NothingLeftOver, Holding

\* What was left over stays so, and a lock never becomes young again
LEMMA LeftoversLast ==
    TypeOK /\ [Next]_vars => (NothingLeftOver' => NothingLeftOver) /\ old \subseteq old'
  <1> SUFFICES ASSUME TypeOK, [Next]_vars
               PROVE  (NothingLeftOver' => NothingLeftOver) /\ old \subseteq old'
    OBVIOUS
  <1>1. CASE UNCHANGED vars
    BY <1>1 DEF vars, NothingLeftOver
  <1>2. ASSUME NEW f \in Files, Age(f) \/ AgeAlive(f)
        PROVE  (NothingLeftOver' => NothingLeftOver) /\ old \subseteq old'
    BY <1>2 DEF Age, AgeAlive, NothingLeftOver
  <1>3. ASSUME NEW w \in Writers, Step(w) \/ Fault(w)
        PROVE  (NothingLeftOver' => NothingLeftOver) /\ old \subseteq old'
    <2>1. old' = old /\ filled \subseteq filled' /\ lapses \subseteq lapses' /\ pc[w] # "crashed"
      BY <1>3 DEF Step, Create, Fill, Peek, Stat, Move, Compare, PutBack, Discard, Retry,
                  GiveUp, Finish, CheckOwn, Unlink, Over,
                  Fault, Refused, FillFails, LinkFails, DiscardFails, ReleaseFails, Crash
    <2>2. \A v \in Writers : v # w => pc'[v] = pc[v]
      BY <1>3 DEF Step, Create, Fill, Peek, Stat, Move, Compare, PutBack, Discard, Retry,
                  GiveUp, Finish, CheckOwn, Unlink, Goto, TypeOK,
                  Fault, Refused, FillFails, LinkFails, DiscardFails, ReleaseFails, Crash
    <2>. QED BY <2>1, <2>2 DEF NothingLeftOver
  <1>. QED BY <1>1, <1>2, <1>3 DEF Next

\* What a writer does while nothing is old leaves everything in order
LEMMA OrderlyStep == Inv /\ [Next]_vars => Orderly'
  <1> SUFFICES ASSUME Inv, [Next]_vars PROVE Orderly'
    OBVIOUS
  <1>0. TypeOK /\ Orderly
    BY DEF Inv
  <1>1. CASE UNCHANGED vars
    BY <1>0, <1>1 DEF vars, Orderly, NothingLeftOver
  <1>2. ASSUME NEW f \in Files, Age(f) PROVE Orderly'
    \* its call is over: if nothing is left over, it left no lock
    <2>1. old' # {} /\ lock = f /\ f \in Files /\ pc[f] \in Over /\ UNCHANGED <<pc, filled, lapses>>
      BY <1>2 DEF Age
    <2>2. ASSUME NothingLeftOver' PROVE FALSE
      <3>1. NothingLeftOver
        BY <2>1, <2>2 DEF NothingLeftOver
      <3>2. f \in Writers /\ pc[f] \in Holding
        BY <1>0, <2>1, <3>1 DEF Orderly, Files
      <3>. QED BY <2>1, <3>2 DEF Holding, Over
    <2>. QED BY <2>1, <2>2 DEF Orderly
  <1>3. ASSUME NEW f \in Files, AgeAlive(f) PROVE Orderly'
    BY <1>3 DEF AgeAlive, Orderly, NothingLeftOver
  <1>4. ASSUME NEW w \in Writers, Step(w) \/ Fault(w) PROVE Orderly'
    <2>1. old' = old /\ (NothingLeftOver' => NothingLeftOver)
      BY <1>0, <1>4, LeftoversLast
      DEF Next, Step, Create, Fill, Peek, Stat, Move, Compare, PutBack, Discard, Retry,
          GiveUp, Finish, CheckOwn, Unlink,
          Fault, Refused, FillFails, LinkFails, DiscardFails, ReleaseFails, Crash
    <2>2. ASSUME old = {}, NEW v \in Writers
          PROVE  /\ pc'[v] \notin {"move", "compare", "putBack", "discard"}
                 /\ pc'[v] \in Holding => lock' = v
                 /\ pc'[v] \in Holding \ {"fill"} => v \in filled'
      <3>1. CASE Create(w)
        BY <1>0, <2>2, <3>1, LockAssumption DEF Create, Goto, Orderly, Holding, TypeOK
      <3>2. CASE Stat(w)
        BY <1>0, <2>2, <3>2 DEF Stat, Goto, Orderly, Holding, TypeOK
      <3>3. CASE Move(w) \/ Compare(w) \/ PutBack(w) \/ Discard(w) \/ LinkFails(w) \/ DiscardFails(w)
        BY <1>0, <2>2, <3>3
        DEF Move, Compare, PutBack, Discard, LinkFails, DiscardFails, Orderly
      <3>4. CASE CheckOwn(w)
        BY <1>0, <2>2, <3>4, LockAssumption
        DEF CheckOwn, TokenOf, Goto, Orderly, Holding, TypeOK
      <3>5. CASE Unlink(w)
        BY <1>0, <2>2, <3>5, LockAssumption DEF Unlink, Goto, Orderly, Holding, TypeOK
      <3>6. CASE Fill(w) \/ Peek(w) \/ Retry(w) \/ GiveUp(w) \/ Finish(w) \/ Crash(w)
        BY <1>0, <2>2, <3>6
        DEF Fill, Peek, Retry, GiveUp, Finish, Crash, Goto, Orderly, Holding, TypeOK
      <3>7. CASE Refused(w) \/ FillFails(w) \/ ReleaseFails(w)
        BY <1>0, <2>2, <3>7
        DEF Refused, FillFails, ReleaseFails, Goto, Orderly, Holding, TypeOK
      <3>. QED BY <1>4, <3>1, <3>2, <3>3, <3>4, <3>5, <3>6, <3>7 DEF Step, Fault
    <2>3. ASSUME NothingLeftOver', NEW v \in Writers
          PROVE  old' = {} /\ lock' # Leftover /\ (lock' = v => pc'[v] \in Holding)
      <3>1. NothingLeftOver /\ old = {} /\ lock # Leftover
        BY <1>0, <2>1, <2>3 DEF Orderly
      <3>2. \A u \in Writers : lock = u <=> pc[u] \in Holding
        BY <1>0, <3>1 DEF Orderly
      <3>3. CASE Create(w)
        BY <1>0, <2>1, <3>1, <3>2, <3>3, LockAssumption DEF Create, Goto, TypeOK, Holding
      <3>4. CASE Move(w) \/ Compare(w) \/ PutBack(w) \/ Discard(w) \/ LinkFails(w) \/ DiscardFails(w)
        BY <1>0, <3>1, <3>4
        DEF Move, Compare, PutBack, Discard, LinkFails, DiscardFails, Orderly
      <3>5. CASE CheckOwn(w)
        BY <1>0, <2>1, <3>1, <3>2, <3>5, LockAssumption
        DEF CheckOwn, TokenOf, Goto, Orderly, Holding, TypeOK
      <3>6. CASE Unlink(w)
        BY <1>0, <2>1, <3>1, <3>6, LockAssumption DEF Unlink
      <3>7. CASE Fill(w) \/ Peek(w) \/ Stat(w) \/ Retry(w) \/ GiveUp(w) \/ Finish(w) \/ Refused(w)
        BY <1>0, <2>1, <3>1, <3>2, <3>7
        DEF Fill, Peek, Stat, Retry, GiveUp, Finish, Refused, Goto, Holding, TypeOK
      <3>8. CASE FillFails(w) \/ ReleaseFails(w) \/ Crash(w)
        BY <1>0, <2>3, <3>8
        DEF FillFails, ReleaseFails, Crash, Goto, NothingLeftOver, TypeOK
      <3>. QED BY <1>4, <3>3, <3>4, <3>5, <3>6, <3>7, <3>8 DEF Step, Fault
    <2>. QED BY <2>1, <2>2, <2>3 DEF Orderly
  <1>. QED BY <1>1, <1>2, <1>3, <1>4 DEF Next

\* The inductive invariant behind what follows.
THEOREM AlwaysInv == Spec => []Inv
  BY TypedInit, TypedStep, OrderlyInit, OrderlyStep, PTL DEF Spec, Inv

\* As long as no lock looks like a leftover, whoever has crashed and whatever has failed,
\* two writers are never at their check-then-write together, however many there are.
THEOREM ExclusiveWhileFresh == Spec => [](old = {} => MutualExclusion)
  <1>1. Inv => (old = {} => MutualExclusion)
    BY DEF Inv, Orderly, Holding, MutualExclusion
  <1>. QED BY AlwaysInv, <1>1, PTL

\* Until a lock is left over no two writers work at once: withLilaLock needs its take-over
\* only for what a crash or a failed call has left.
THEOREM ExclusiveUntilALeftover == Spec => [](NothingLeftOver => MutualExclusion)
  <1>1. Inv => (NothingLeftOver => MutualExclusion)
    BY DEF Inv, Orderly, Holding, MutualExclusion
  <1>. QED BY AlwaysInv, <1>1, PTL

\* A lock outlives its call only after a crash, a token that could not be written, a release
\* that failed or a heartbeat that was late: none of the other errors of withLilaLock makes
\* anybody wait for a file that no one is writing.
THEOREM NothingIsLeftBehind == Spec => []NoOrphanLock
  <1>1. Inv => NoOrphanLock
    BY DEF Inv, Orderly, NoOrphanLock, Holding, Over
  <1>. QED BY AlwaysInv, <1>1, PTL

\* Nobody removes, replaces or takes over the lock of a writer at work, as long as no lock
\* has been left over.
THEOREM LivingLocksStay == Spec => LivingLockStays
  <1>1. Inv /\ [Next]_vars =>
          [NothingLeftOver => \A w \in Writers : pc[w] = "work" /\ lock = w => lock' = w]_vars
    <2> SUFFICES ASSUME Inv, [Next]_vars, NothingLeftOver, NEW v \in Writers,
                        pc[v] = "work", lock = v
                 PROVE  lock' = v
      BY DEF Inv
    <2>1. old = {} /\ lock # NoFile
      BY LockAssumption DEF Inv, Orderly
    <2>2. CASE UNCHANGED vars
      BY <2>2 DEF vars
    <2>3. ASSUME NEW f \in Files, Age(f) \/ AgeAlive(f) PROVE lock' = v
      BY <2>3 DEF Age, AgeAlive
    <2>4. ASSUME NEW w \in Writers, Step(w) \/ Fault(w) PROVE lock' = v
      <3>1. CASE Create(w)
        BY <2>1, <3>1 DEF Create
      <3>2. CASE Move(w) \/ PutBack(w)
        BY <2>1, <3>2 DEF Move, PutBack, Inv, Orderly
      <3>3. CASE Unlink(w)
        BY <2>1, <3>3 DEF Unlink, Inv, Orderly, Holding
      <3>. QED
        BY <2>4, <3>1, <3>2, <3>3
        DEF Step, Fill, Peek, Stat, Compare, Discard, Retry, GiveUp, Finish, CheckOwn,
            Fault, Refused, FillFails, LinkFails, DiscardFails, ReleaseFails, Crash
    <2>. QED BY <2>2, <2>3, <2>4 DEF Next
  <1>. QED BY AlwaysInv, <1>1, PTL DEF Spec, LivingLockStays

-----------------------------------------------------------------------------
(* Two writers, with leftovers, crashes and errors, as long as no living lock  *)
(* is late or lost (Trusted).  A writer that has looked at a lock and found it *)
(* old can only have looked at the leftover, or at the lock of the other       *)
(* writer, whose call is then over and creates no more.  With a third writer   *)
(* there would be somebody left to create a lock in between.                   *)

\* Who has created a lock, now or before, or will create none
Created == Holding \cup Over
IsAround(f) == lock = f \/ \E x \in Writers : aside[x] = f

\* What is old was left by somebody, what is around was created by somebody, and the
\* leftover of an earlier crash carries its token and is old.
Traces ==
    /\ old \subseteq {Leftover} \cup {w \in Writers : pc[w] \in Over}
    /\ \A w \in Writers : IsAround(w) => pc[w] \in Created
    /\ IsAround(Leftover) => Leftover \in filled /\ Leftover \in old

\* Whoever holds the lock is alone, and finds it at its path unless the other writer has
\* just moved it aside, by mistake, and is about to put it back, or ended there.
Alone(v, w) == pc[v] \in Holding =>
    /\ pc[w] \notin Holding
    /\ \/ lock = v
       \/ lock = NoFile /\ aside[w] = v /\ pc[w] \in {"compare", "putBack", "failed", "crashed"}

\* What w is about to take over is the leftover, or the call of the other writer is over.
Aware(v, w) ==
    /\ pc[w] = "stat" => seen[w] = Leftover \/ pc[v] \in Created
    /\ pc[w] \in {"move", "compare"} => seen[w] = Leftover \/ pc[v] \in Over

Paired == Traces /\ \A v, w \in Writers : v # w => Alone(v, w) /\ Aware(v, w)

\* Paired holds at first
LEMMA PairedInit == Init => Paired
  BY LockAssumption
  DEF Init, Paired, Traces, IsAround, Alone, Aware, Holding, Over, Created

\* The traces of locks that are gone stay true, for any number of writers
LEMMA TracesStep == ASSUME TypeOK, Traces, Trusted', [Next]_vars PROVE Traces'
  <1>1. CASE UNCHANGED vars
    BY <1>1 DEF vars, Traces, IsAround
  <1>2. ASSUME NEW f \in Files, Age(f) PROVE Traces'
    BY <1>2 DEF Age, Traces, IsAround, Files
  <1>2a. ASSUME NEW f \in Files, AgeAlive(f) PROVE FALSE
    BY <1>2a DEF AgeAlive, Trusted
  <1>3. ASSUME NEW w \in Writers, Step(w) \/ Fault(w) PROVE Traces'
    <2>1. /\ old' = old /\ filled \subseteq filled'
          /\ \A v \in Writers : pc[v] \in Created => pc'[v] \in Created
          /\ \A v \in Writers : pc[v] \in Over => pc'[v] = pc[v]
      BY <1>3 DEF TypeOK, Step, Create, Fill, Peek, Stat, Move, Compare, PutBack, Discard, Retry,
                  GiveUp, Finish, CheckOwn, Unlink, Goto,
                  Fault, Refused, FillFails, LinkFails, DiscardFails, ReleaseFails, Crash, Created, Holding, Over
    <2>2. ASSUME NEW f \in Files, IsAround(f)'
          PROVE  IsAround(f) \/ (f = w /\ pc'[w] = "fill")
      BY <1>3, <2>2, LockAssumption
      DEF IsAround, TypeOK, Step, Create, Fill, Peek, Stat, Move, Compare, PutBack, Discard, Retry,
          GiveUp, Finish, CheckOwn, Unlink, Goto,
          Fault, Refused, FillFails, LinkFails, DiscardFails, ReleaseFails, Crash, Files
    <2>3. old' \subseteq {Leftover} \cup {v \in Writers : pc'[v] \in Over}
      BY <2>1 DEF Traces
    <2>4. ASSUME NEW v \in Writers, IsAround(v)' PROVE pc'[v] \in Created
      BY <2>1, <2>2, <2>4 DEF Traces, Created, Holding, Files
    <2>5. ASSUME IsAround(Leftover)' PROVE Leftover \in filled' /\ Leftover \in old'
      BY <2>1, <2>2, <2>5, LockAssumption DEF Traces, Files
    <2>. QED BY <2>3, <2>4, <2>5 DEF Traces
  <1>. QED BY <1>1, <1>2, <1>2a, <1>3 DEF Next

\* A step of one of two writers leaves each alone with its lock
LEMMA AloneStep ==
    ASSUME TypeOK, Traces, NEW w, NEW u, w # u, Writers = {w, u},
           Alone(w, u), Alone(u, w), Aware(w, u), Aware(u, w), Trusted', Step(w) \/ Fault(w)
    PROVE  Alone(w, u)' /\ Alone(u, w)'
  <1>0. w \in Writers /\ u \in Writers /\ pc'[u] = pc[u]
    BY DEF TypeOK, Step, Create, Fill, Peek, Stat, Move, Compare, PutBack, Discard,
           Retry, GiveUp, Finish, CheckOwn, Unlink, Goto,
           Fault, Refused, FillFails, LinkFails, DiscardFails, ReleaseFails, Crash
  <1>1. CASE Create(w)
    BY <1>0, <1>1, LockAssumption DEF Create, Goto, TypeOK, Alone, Holding
  <1>2. CASE Fill(w) \/ Peek(w) \/ Retry(w) \/ GiveUp(w) \/ Finish(w) \/ Crash(w)
    BY <1>0, <1>2 DEF Fill, Peek, Retry, GiveUp, Finish, Crash, Goto, TypeOK, Alone, Holding
  <1>3. CASE Stat(w)
    BY <1>0, <1>3 DEF Stat, Goto, TypeOK, Alone, Holding
  <1>4. CASE Move(w)
    BY <1>0, <1>4, LockAssumption DEF Move, Goto, TypeOK, Alone, Holding
  <1>5. CASE Compare(w)
    \* a lock that is held was not the leftover that was seen
    <2>1. pc[u] \in Holding => seen[w] = Leftover
      BY <1>5 DEF Compare, Aware, Holding, Over
    <2>2. pc[u] \in Holding /\ aside[w] = u => TokenOf(u) # Leftover
      BY LockAssumption DEF TokenOf
    <2>. QED BY <1>0, <1>5, <2>1, <2>2 DEF Compare, Goto, TypeOK, Alone, Holding
  <1>6. CASE PutBack(w)
    BY <1>0, <1>6, LockAssumption DEF PutBack, Goto, TypeOK, Alone, Holding
  <1>7. CASE Discard(w)
    BY <1>0, <1>7, LockAssumption DEF Discard, Goto, TypeOK, Alone, Holding
  <1>8. CASE CheckOwn(w)
    BY <1>0, <1>8, LockAssumption DEF CheckOwn, Goto, TypeOK, Alone, Holding
  <1>9. CASE Unlink(w)
    BY <1>0, <1>9, LockAssumption DEF Unlink, Goto, TypeOK, Alone, Holding
  <1>10. CASE Refused(w) \/ FillFails(w) \/ DiscardFails(w) \/ ReleaseFails(w)
    BY <1>0, <1>10
    DEF Refused, FillFails, DiscardFails, ReleaseFails, Goto, TypeOK, Alone, Holding
  <1>11. ~LinkFails(w)
    BY DEF LinkFails, Trusted
  <1>. QED
    BY <1>1, <1>2, <1>3, <1>4, <1>5, <1>6, <1>7, <1>8, <1>9, <1>10, <1>11 DEF Step, Fault

\* ... and leaves whoever takes a lock over aware of the other
LEMMA AwareStep ==
    ASSUME TypeOK, Traces, NEW w, NEW u, w # u, Writers = {w, u},
           Alone(w, u), Alone(u, w), Aware(w, u), Aware(u, w), Trusted', Step(w) \/ Fault(w)
    PROVE  Aware(w, u)' /\ Aware(u, w)'
  <1>0. w \in Writers /\ u \in Writers /\ pc'[u] = pc[u]
    BY DEF TypeOK, Step, Create, Fill, Peek, Stat, Move, Compare, PutBack, Discard,
           Retry, GiveUp, Finish, CheckOwn, Unlink, Goto,
           Fault, Refused, FillFails, LinkFails, DiscardFails, ReleaseFails, Crash
  <1>1. seen'[u] = seen[u]
    BY <1>0 DEF TypeOK, Step, Create, Fill, Peek, Stat, Move, Compare, PutBack, Discard,
           Retry, GiveUp, Finish, CheckOwn, Unlink, Goto,
           Fault, Refused, FillFails, LinkFails, DiscardFails, ReleaseFails, Crash
  <1>2. /\ pc[w] \in Created => pc'[w] \in Created
        /\ pc[w] \in Over => pc'[w] \in Over
    BY <1>0 DEF TypeOK, Step, Create, Fill, Peek, Stat, Move, Compare, PutBack, Discard, Retry,
           GiveUp, Finish, CheckOwn, Unlink, Goto,
           Fault, Refused, FillFails, LinkFails, DiscardFails, ReleaseFails, Crash, Created, Holding, Over
  <1>3. Aware(w, u)'
    BY <1>0, <1>1, <1>2 DEF Aware
  <1>4. CASE Peek(w)
    \* w has created no lock itself, so what is there is the other writer's or the leftover
    <2>1. lock # w
      BY <1>0, <1>4 DEF Peek, Traces, IsAround, Created, Holding, Over
    <2>2. lock = u => pc[u] \in Created
      BY <1>0 DEF Traces, IsAround
    <2>3. lock = Leftover => TokenOf(lock) = Leftover
      BY DEF Traces, IsAround, TokenOf
    <2>4. lock \in {u, Leftover, NoFile}
      BY <2>1 DEF TypeOK, Files
    <2>5. Aware(u, w)'
      BY <1>0, <1>4, <2>2, <2>3, <2>4 DEF Peek, Goto, TypeOK, Aware
    <2>. QED BY <1>3, <2>5
  <1>5. CASE Stat(w)
    \* an old lock is that of a writer who has gone, or the leftover; and if that is not
    \* what w has seen, the other writer has created a lock, and does not hold one now
    <2>1. CASE lock \in old
      <3>0. lock = Leftover \/ (lock \in Writers /\ pc[lock] \in Over)
        BY <2>1 DEF Traces
      <3>1. lock \in {u, Leftover} /\ (lock = u => pc[u] \in Over)
        <4>1. pc[w] \notin Over
          BY <1>5 DEF Stat, Over
        <4>2. lock # w
          BY <1>0, <3>0, <4>1, LockAssumption
        <4>3. lock \in {u, Leftover}
          BY <3>0, <4>2
        <4>. QED BY <1>0, <3>0, <4>3, LockAssumption
      <3>2. lock = Leftover => pc[u] \notin Holding
        BY <1>0, LockAssumption DEF Alone
      <3>3. Aware(u, w)'
        BY <1>0, <1>5, <2>1, <3>1, <3>2, LockAssumption DEF Stat, Goto, TypeOK, Aware, Created
      <3>. QED BY <1>3, <3>3
    <2>2. CASE lock \notin old
      <3>1. pc'[w] \in {"open", "wait"}
        BY <1>0, <1>5, <2>2 DEF Stat, Goto, TypeOK
      <3>. QED BY <1>3, <3>1 DEF Aware
    <2>. QED BY <2>1, <2>2
  <1>6. CASE Move(w)
    BY <1>0, <1>3, <1>6 DEF Move, Goto, TypeOK, Aware
  <1>7. CASE ~(Peek(w) \/ Stat(w) \/ Move(w))
    <2>1. pc'[w] \notin {"stat", "move", "compare"}
      BY <1>0, <1>7 DEF TypeOK, Step, Create, Fill, Compare, PutBack, Discard, Retry,
           GiveUp, Finish, CheckOwn, Unlink, Goto,
           Fault, Refused, FillFails, LinkFails, DiscardFails, ReleaseFails, Crash
    <2>. QED BY <1>3, <2>1 DEF Aware
  <1>. QED BY <1>4, <1>5, <1>6, <1>7

\* Every step of two writers keeps Paired
LEMMA PairedStep ==
    ASSUME NEW a, NEW b, Writers = {a, b}, TypeOK, Paired, Trusted', [Next]_vars PROVE Paired'
  <1>1. Traces'
    BY TracesStep DEF Paired
  <1>2. CASE pc' = pc /\ lock' = lock /\ aside' = aside /\ seen' = seen
    BY <1>1, <1>2 DEF Paired, Alone, Aware
  <1>3. ASSUME NEW w \in Writers, Step(w) \/ Fault(w) PROVE Paired'
    <2>1. ASSUME NEW u \in Writers, u # w
          PROVE  Alone(w, u)' /\ Alone(u, w)' /\ Aware(w, u)' /\ Aware(u, w)'
      <3>1. Writers = {w, u}
        BY <2>1
      <3>2. Traces /\ Alone(w, u) /\ Alone(u, w) /\ Aware(w, u) /\ Aware(u, w)
        BY <2>1 DEF Paired
      <3>. QED BY <1>3, <2>1, <3>1, <3>2, AloneStep, AwareStep
    <2>2. \A u \in Writers : u # w => Alone(w, u)' /\ Alone(u, w)' /\ Aware(w, u)' /\ Aware(u, w)'
      BY <2>1
    <2>3. \A v, u \in Writers : v # u => v = w \/ u = w
      OBVIOUS
    <2>. QED BY <1>1, <2>2, <2>3 DEF Paired
  <1>4. \A f \in Files : ~AgeAlive(f)
    BY DEF AgeAlive, Trusted
  <1>. QED BY <1>2, <1>3, <1>4 DEF Next, Age, vars

\* A lock that was late or lost once is not trusted again
LEMMA TrustOnce == TypeOK /\ [Next]_vars => (Trusted' => Trusted)
  <1> SUFFICES ASSUME [Next]_vars PROVE lapses \subseteq lapses'
    BY DEF Trusted
  <1>1. CASE UNCHANGED vars
    BY <1>1 DEF vars
  <1>2. ASSUME NEW f \in Files, Age(f) \/ AgeAlive(f) PROVE lapses \subseteq lapses'
    BY <1>2 DEF Age, AgeAlive
  <1>3. ASSUME NEW w \in Writers, Step(w) \/ Fault(w) PROVE lapses \subseteq lapses'
    BY <1>3 DEF Step, Create, Fill, Peek, Stat, Move, Compare, PutBack, Discard, Retry,
                GiveUp, Finish, CheckOwn, Unlink,
                Fault, Refused, FillFails, LinkFails, DiscardFails, ReleaseFails, Crash
  <1>. QED BY <1>1, <1>2, <1>3 DEF Next

\* The inductive invariant of two writers
LEMMA AlwaysPaired ==
    ASSUME NEW CONSTANT a, NEW CONSTANT b, Writers = {a, b}
    PROVE  Spec => [](TypeOK /\ (Trusted => Paired))
  <1>1. Init => TypeOK /\ Paired
    BY TypedInit, PairedInit
  <1>2. TypeOK /\ (Trusted => Paired) /\ [Next]_vars => (TypeOK /\ (Trusted => Paired))'
    BY TypedStep, PairedStep, TrustOnce
  <1>. QED BY <1>1, <1>2, PTL DEF Spec

\* Who is alone with its lock works alone
LEMMA PairedExcludes == ASSUME Paired PROVE MutualExclusion
  BY DEF Paired, Alone, Holding, MutualExclusion

\* Two writers never interleave their check-then-write, whatever lock they find, whoever
\* crashes, whatever else fails and whenever, as long as no living lock is late and no link
\* fails: what else goes wrong in the take-over takes a third writer.
THEOREM TwoWritersExclude ==
    ASSUME NEW CONSTANT a, NEW CONSTANT b, Writers = {a, b}
    PROVE  Spec => [](Trusted => MutualExclusion)
  <1>1. (Trusted => Paired) => (Trusted => MutualExclusion)
    BY PairedExcludes
  <1>. QED BY AlwaysPaired, <1>1, PTL

-----------------------------------------------------------------------------
(* The refinement of FileMutex *)

Holder == IF Trusted /\ \E w \in Writers : pc[w] = "work"
          THEN CHOOSE w \in Writers : pc[w] = "work" ELSE NoFile

\* Who works is the holder, while the lock is to be trusted
LEMMA HolderWorks ==
    ASSUME Trusted => MutualExclusion
    PROVE  /\ \A w \in Writers : Trusted /\ pc[w] = "work" => Holder = w
           /\ ~(Trusted /\ \E w \in Writers : pc[w] = "work") => Holder = NoFile
  BY DEF MutualExclusion, Holder

\* Each step of a writer takes the mutex, gives it back, or leaves it alone
LEMMA MutexStep ==
    /\ TypeOK /\ (Trusted => MutualExclusion) /\ (Trusted => MutualExclusion)'
    /\ [Next]_vars
    => [Mutex!Next]_Holder
  <1> SUFFICES ASSUME TypeOK, Trusted => MutualExclusion, (Trusted => MutualExclusion)', [Next]_vars
               PROVE  Mutex!Next \/ Holder' = Holder
    BY DEF Holder
  <1>0. Trusted' => Trusted
    BY TrustOnce
  <1>1. (Trusted => MutualExclusion) /\ (Trusted => MutualExclusion)'
    OBVIOUS
  <1>2. /\ \A w \in Writers : Trusted /\ pc[w] = "work" => Holder = w
        /\ ~(Trusted /\ \E w \in Writers : pc[w] = "work") => Holder = NoFile
    BY <1>1, HolderWorks
  <1>3. /\ \A w \in Writers : Trusted' /\ pc'[w] = "work" => Holder' = w
        /\ ~(Trusted' /\ \E w \in Writers : pc'[w] = "work") => Holder' = NoFile
    BY <1>1 DEF MutualExclusion, Holder
  <1>4. CASE ~Trusted'
    \* what was held is given up
    <2>1. Holder' = NoFile
      BY <1>3, <1>4
    <2>2. CASE Trusted /\ \E w \in Writers : pc[w] = "work"
      <3>1. PICK w \in Writers : Holder = w
        BY <1>2, <2>2
      <3>. QED BY <2>1, <3>1 DEF Mutex!Next, Mutex!Release, Holder
    <2>. QED BY <1>2, <2>1, <2>2
  <1>5. CASE Trusted' /\ pc' = pc
    BY <1>0, <1>2, <1>3, <1>5
  <1>6. ASSUME NEW w \in Writers, Step(w) \/ Fault(w), Trusted'
        PROVE  Mutex!Next \/ Holder' = Holder
    <2>0. Trusted /\ MutualExclusion /\ MutualExclusion'
      BY <1>0, <1>1, <1>6
    <2>1. \A v \in Writers : v # w => pc'[v] = pc[v]
      BY <1>6 DEF TypeOK, Step, Create, Fill, Peek, Stat, Move, Compare, PutBack, Discard,
                  Retry, GiveUp, Finish, CheckOwn, Unlink, Goto,
                  Fault, Refused, FillFails, LinkFails, DiscardFails, ReleaseFails, Crash
    <2>2. CASE pc[w] = "work" /\ pc'[w] # "work"
      <3>1. Holder = w /\ Holder' = NoFile
        BY <1>2, <1>3, <2>0, <2>1, <2>2 DEF MutualExclusion
      <3>. QED BY <3>1 DEF Mutex!Next, Mutex!Release, Holder
    <2>3. CASE pc[w] # "work" /\ pc'[w] = "work"
      <3>1. Holder = NoFile /\ Holder' = w
        BY <1>2, <1>3, <1>6, <2>0, <2>1, <2>3 DEF MutualExclusion
      <3>. QED BY <3>1 DEF Mutex!Next, Mutex!Acquire, Holder
    <2>4. CASE pc[w] = "work" <=> pc'[w] = "work"
      <3>1. \A v \in Writers : pc'[v] = "work" <=> pc[v] = "work"
        BY <2>1, <2>4
      <3>. QED BY <1>2, <1>3, <1>6, <2>0, <3>1
    <2>. QED BY <2>2, <2>3, <2>4
  <1>. QED BY <1>4, <1>5, <1>6 DEF Next, vars, Age, AgeAlive

\* As long as no lock is left over the lock implements the mutex LilaFile is built on, for
\* any number of writers: it is held from the moment its token is written to the end of
\* work().
THEOREM LockIsAMutex == Spec /\ []NothingLeftOver => ImplementsMutex
  <1>1. Init => Mutex!Init
    BY DEF Init, Mutex!Init
  <1>2. Inv /\ NothingLeftOver => TypeOK /\ (Trusted => MutualExclusion)
    BY DEF Inv, Orderly, Holding, MutualExclusion
  <1>3. /\ TypeOK /\ (Trusted => MutualExclusion) /\ (Trusted => MutualExclusion)'
        /\ [Next]_vars
        => [Mutex!Next]_Holder
    BY MutexStep
  <1>. QED BY AlwaysInv, <1>1, <1>2, <1>3, PTL DEF Spec, ImplementsMutex, Mutex!Spec, Holder

\* For two writers the lock is that mutex through every crash, every leftover and every
\* error, up to a living lock that is late or lost.
THEOREM LockOfTwoIsAMutex ==
    ASSUME NEW CONSTANT a, NEW CONSTANT b, Writers = {a, b} PROVE Spec => ImplementsMutex
  <1>1. Init => Mutex!Init
    BY DEF Init, Mutex!Init
  <1>2. TypeOK /\ (Trusted => Paired) => TypeOK /\ (Trusted => MutualExclusion)
    BY PairedExcludes
  <1>3. /\ TypeOK /\ (Trusted => MutualExclusion) /\ (Trusted => MutualExclusion)'
        /\ [Next]_vars
        => [Mutex!Next]_Holder
    BY MutexStep
  <1>. QED BY AlwaysPaired, <1>1, <1>2, <1>3, PTL DEF Spec, ImplementsMutex, Mutex!Spec, Holder

-----------------------------------------------------------------------------
(* The open project and the other programs that write its files, for any      *)
(* number of files, of writes by others, edits and saves.                     *)

ReloadTypes ==
    /\ rDisk \in [Reload!Files -> Nat] /\ rLastSeen \in [Reload!Files -> Nat]
    /\ got \in [Reload!Files -> Nat] /\ shown \in [Reload!Files -> Nat]
    /\ slip \in [Reload!Files -> Reload!Slips]
    /\ op \in Reload!Ops /\ rAt \in Reload!Files

\* What the snapshot of a file that did not slip is of: the document on screen, or what
\* the reload, or the save, in progress has of it.
OfScreen(f) == slip[f] = "none" => rLastSeen[f] = shown[f]
OfWork(f) == slip[f] = "none" => rLastSeen[f] = got[f]
Vouches(f) ==
    /\ op \in {"free", "other", "check"} => OfScreen(f)
    /\ op \in {"read", "remember"} => IF f < rAt THEN OfWork(f) ELSE OfScreen(f)
    /\ op = "activate" => rAt = NFiles /\ OfWork(f)
    /\ op = "rename" /\ f >= rAt /\ slip[f] = "none" => rDisk[f] = shown[f]
    /\ op = "snapshot" /\ f < rAt => OfWork(f)

ReloadInv == ReloadTypes /\ \A f \in Reload!Files : Vouches(f)

\* The first file and the next one are files.
LEMMA NextFile ==
    ASSUME Reload!ReloadAssumption
    PROVE  1 \in Reload!Files /\ \A f \in Reload!Files : f # NFiles => f + 1 \in Reload!Files
  BY DEF Reload!ReloadAssumption, Reload!Files

\* A reload begins and nothing else moves, or nothing does.
LEMMA Reloading ==
    ASSUME Reload!ChangedOutside \/ Reload!PressReload
    PROVE  /\ UNCHANGED <<rDisk, rLastSeen, got, shown, slip>>
           /\ UNCHANGED <<op, rAt>> \/ (op = "free" /\ op' = "read" /\ rAt' = 1)
  <1>1. CASE Reload!ChangedOutside
    BY <1>1 DEF Reload!ChangedOutside, Reload!StartReload, Reload!onDisk, Reload!work
  <1>2. CASE Reload!PressReload
    BY <1>2 DEF Reload!PressReload, Reload!StartReload, Reload!onDisk, Reload!history
  <1>. QED BY <1>1, <1>2

\* What has been read or written of a file is what its snapshot is of, unless it slips.
LEMMA Snapshots ==
    ASSUME ReloadTypes, Reload!Snapshot
    PROVE  /\ rLastSeen' \in [Reload!Files -> Nat] /\ slip' \in [Reload!Files -> Reload!Slips]
           /\ slip'[rAt] = "none" => rLastSeen'[rAt] = got[rAt]
           /\ \A f \in Reload!Files \ {rAt} : rLastSeen'[f] = rLastSeen[f] /\ slip'[f] = slip[f]
  BY DEF ReloadTypes, Reload!Snapshot, Reload!Slips

\* Every step keeps the types.
LEMMA ReloadTyped ==
    ASSUME Reload!ReloadAssumption, ReloadInv, [Reload!Next]_Reload!vars
    PROVE  ReloadTypes'
  <1> USE DEF ReloadInv, ReloadTypes, Reload!onDisk, Reload!watcher, Reload!screen, Reload!work,
              Reload!history, Reload!Ops
  <1>1. ASSUME NEW f \in Reload!Files, Reload!ForeignWrite(f) PROVE ReloadTypes'
    <2>1. slip' \in [Reload!Files -> Reload!Slips]
      BY <1>1 DEF Reload!ForeignWrite, Reload!Slips
    <2>2. rDisk' \in [Reload!Files -> Nat]
      BY <1>1 DEF Reload!ForeignWrite
    <2>. QED BY <1>1, <2>1, <2>2 DEF Reload!ForeignWrite
  <1>2. ASSUME NEW f \in Reload!Files, Reload!Notified(f) PROVE ReloadTypes'
    BY <1>2 DEF Reload!Notified
  <1>3. CASE Reload!Settle \/ \E files \in settling : \E f \in files : Reload!CheckFile(files, f)
    BY <1>3 DEF Reload!Settle, Reload!CheckFile
  <1>4. CASE Reload!ChangedOutside \/ Reload!PressReload
    BY <1>4, Reloading, NextFile
  <1>5. CASE Reload!KeepMine \/ Reload!Edit \/ Reload!StartOther \/ Reload!EndOther \/ Reload!StartSave
    BY <1>5 DEF Reload!KeepMine, Reload!Edit, Reload!StartOther, Reload!EndOther, Reload!StartSave
  <1>6. CASE Reload!ReadFile \/ Reload!Activate \/ Reload!GiveUp
    BY <1>6 DEF Reload!ReadFile, Reload!Activate, Reload!GiveUp, Reload!Slips
  <1>7. CASE Reload!RememberFile
    <2>1. rAt' \in Reload!Files /\ op' \in Reload!Ops /\ Reload!Snapshot /\ UNCHANGED <<rDisk, got, shown>>
      BY <1>7, NextFile DEF Reload!RememberFile
    <2>. QED BY <2>1, Snapshots
  <1>8. CASE Reload!CheckSave
    BY <1>8, NextFile DEF Reload!CheckSave
  <1>9. CASE Reload!RenameFile
    <2>1. rAt' \in Reload!Files /\ op' \in Reload!Ops /\ UNCHANGED <<rLastSeen, shown, slip>>
      BY <1>9, NextFile DEF Reload!RenameFile
    <2>2. rDisk' \in [Reload!Files -> Nat] /\ got' \in [Reload!Files -> Nat]
      BY <1>9 DEF Reload!RenameFile
    <2>. QED BY <2>1, <2>2
  <1>10. CASE Reload!SnapshotFile
    <2>1. rAt' \in Reload!Files /\ op' \in Reload!Ops /\ Reload!Snapshot /\ UNCHANGED <<rDisk, got>>
      BY <1>10, NextFile DEF Reload!SnapshotFile
    <2>2. shown' \in [Reload!Files -> Nat]
      BY <1>10 DEF Reload!SnapshotFile
    <2>. QED BY <2>1, <2>2, Snapshots
  <1>11. CASE UNCHANGED Reload!vars
    BY <1>11 DEF Reload!vars
  <1>. QED BY <1>1, <1>2, <1>3, <1>4, <1>5, <1>6, <1>7, <1>8, <1>9, <1>10, <1>11 DEF Reload!Next

\* Every step leaves each snapshot to what it vouches for.
LEMMA ReloadKept ==
    ASSUME Reload!ReloadAssumption, ReloadInv, ReloadTypes', [Reload!Next]_Reload!vars, NEW k \in Reload!Files
    PROVE  Vouches(k)'
  <1> USE DEF OfScreen, OfWork, Reload!onDisk, Reload!watcher, Reload!screen, Reload!work,
              Reload!history
  <1>a. ReloadTypes /\ Vouches(k)
    BY DEF ReloadInv
  <1>b. NFiles \in Nat \ {0} /\ rAt \in 1 .. NFiles /\ k \in 1 .. NFiles
    BY <1>a DEF Reload!ReloadAssumption, ReloadTypes, Reload!Files
  <1>1. ASSUME NEW f \in Reload!Files, Reload!ForeignWrite(f) PROVE Vouches(k)'
    BY <1>1, <1>a, <1>b DEF Reload!ForeignWrite, ReloadTypes, Vouches
  <1>2. ASSUME NEW f \in Reload!Files, Reload!Notified(f) PROVE Vouches(k)'
    BY <1>2, <1>a DEF Reload!Notified, Vouches
  <1>3. CASE Reload!Settle \/ \E files \in settling : \E f \in files : Reload!CheckFile(files, f)
    BY <1>3, <1>a DEF Reload!Settle, Reload!CheckFile, Vouches
  <1>4. CASE Reload!ChangedOutside \/ Reload!PressReload
    <2>1. UNCHANGED <<rDisk, rLastSeen, got, shown, slip>>
      BY <1>4, Reloading
    <2>2. UNCHANGED <<op, rAt>> \/ (op = "free" /\ op' = "read" /\ rAt' = 1)
      BY <1>4, Reloading
    <2>. QED BY <1>a, <1>b, <2>1, <2>2 DEF Vouches
  <1>5. CASE Reload!KeepMine \/ Reload!Edit \/ Reload!StartOther \/ Reload!EndOther \/ Reload!StartSave
    <2>1. UNCHANGED <<rDisk, rLastSeen, got, shown, slip, rAt>>
      BY <1>5 DEF Reload!KeepMine, Reload!Edit, Reload!StartOther, Reload!EndOther,
                  Reload!StartSave
    <2>2. UNCHANGED op \/ {op, op'} \subseteq {"free", "other", "check"}
      BY <1>5 DEF Reload!KeepMine, Reload!Edit, Reload!StartOther, Reload!EndOther,
                  Reload!StartSave
    <2>. QED BY <1>a, <2>1, <2>2 DEF Vouches
  <1>6. CASE Reload!ReadFile
    BY <1>6, <1>a, <1>b DEF Reload!ReadFile, ReloadTypes, Vouches
  <1>7. CASE Reload!Activate \/ Reload!GiveUp
    BY <1>7, <1>a, <1>b DEF Reload!Activate, Reload!GiveUp, ReloadTypes, Vouches, Reload!Files
  <1>8. CASE Reload!RememberFile
    <2>1. op = "remember" /\ Reload!Snapshot /\ UNCHANGED <<rDisk, got, shown>>
      BY <1>8 DEF Reload!RememberFile
    <2>2. CASE k = rAt
      <3>1. slip'[k] = "none" => rLastSeen'[k] = got'[k]
        BY <1>a, <2>1, <2>2, Snapshots
      <3>. QED BY <1>8, <1>b, <2>2, <3>1 DEF Reload!RememberFile, Vouches
    <2>3. CASE k # rAt
      <3>1. rLastSeen'[k] = rLastSeen[k] /\ slip'[k] = slip[k]
        BY <1>a, <2>1, <2>3, Snapshots
      <3>. QED BY <1>8, <1>a, <1>b, <2>1, <2>3, <3>1 DEF Reload!RememberFile, Vouches
    <2>. QED BY <2>2, <2>3
  <1>9. CASE Reload!CheckSave
    BY <1>9, <1>a, <1>b DEF Reload!CheckSave, Reload!Unchanged, Vouches
  <1>10. CASE Reload!RenameFile
    BY <1>10, <1>a, <1>b DEF Reload!RenameFile, ReloadTypes, Vouches, Reload!Files
  <1>11. CASE Reload!SnapshotFile
    <2>1. op = "snapshot" /\ Reload!Snapshot /\ UNCHANGED <<rDisk, got>>
      BY <1>11 DEF Reload!SnapshotFile
    <2>2. CASE k = rAt
      <3>1. slip'[k] = "none" => rLastSeen'[k] = got'[k]
        BY <1>a, <2>1, <2>2, Snapshots
      <3>. QED BY <1>11, <1>b, <2>1, <2>2, <3>1 DEF Reload!SnapshotFile, Vouches
    <2>3. CASE k # rAt
      <3>1. rLastSeen'[k] = rLastSeen[k] /\ slip'[k] = slip[k]
        BY <1>a, <2>1, <2>3, Snapshots
      <3>. QED BY <1>11, <1>a, <1>b, <2>1, <2>3, <3>1 DEF Reload!SnapshotFile, Vouches
    <2>. QED BY <2>2, <2>3
  <1>12. CASE UNCHANGED Reload!vars
    BY <1>12, <1>a DEF Reload!vars, Vouches
  <1>. QED BY <1>1, <1>2, <1>3, <1>4, <1>5, <1>6, <1>7, <1>8, <1>9, <1>10, <1>11, <1>12
    DEF Reload!Next

\* The invariant holds in every reachable state.
LEMMA AlwaysReloadInv == ASSUME Reload!ReloadAssumption PROVE Reload!Spec => []ReloadInv
  <1>1. Reload!Init => ReloadInv
    BY DEF Reload!ReloadAssumption, Reload!Init, ReloadInv, ReloadTypes, Vouches, OfScreen,
           OfWork, Reload!Zero, Reload!Slips, Reload!Ops, Reload!Files
  <1>2. ReloadInv /\ [Reload!Next]_Reload!vars => ReloadInv'
    BY ReloadTyped, ReloadKept DEF ReloadInv
  <1>. QED BY <1>1, <1>2, PTL DEF Reload!Spec

-----------------------------------------------------------------------------

\* A save overwrites nothing the document on screen does not come from, but what came
\* after its check, what came between the read or the rename of a file and its snapshot,
\* and what a reload read and gave up (assertPathsUnchanged, rememberSnapshot).
THEOREM SavesOverwriteWhatWasSeen ==
    ASSUME Reload!ReloadAssumption
    PROVE  Reload!Spec => Reload!NothingUnseenIsOverwritten
  <1>1. ReloadInv => [\A f \in Reload!Files : Reload!Renamed(f) /\ rDisk[f] # shown[f] => slip[f] # "none"]_Reload!vars
    <2> SUFFICES ASSUME ReloadInv, NEW f \in Reload!Files, op = "rename", rAt = f, slip[f] = "none"
                 PROVE  rDisk[f] = shown[f]
      BY DEF Reload!Renamed
    <2>. QED BY DEF Reload!ReloadAssumption, ReloadInv, ReloadTypes, Vouches, Reload!Files
  <1>. QED BY AlwaysReloadInv, <1>1, PTL DEF Reload!Spec, Reload!NothingUnseenIsOverwritten

-----------------------------------------------------------------------------
(* The file of the session, for any number of changes and sessions, of        *)
(* crashes, and of writes that fail or never settle.                          *)

SessionTypes ==
    /\ file \in Nat /\ state \in Nat /\ made \in Nat /\ tail \in Nat
    /\ queue \in Seq(Nat) /\ inFlight \subseteq Nat

\* What is queued is newer than what is being written, which is newer than the file,
\* and everything was made; one write is under way at most.
Queued ==
    /\ file <= made
    /\ \A s \in inFlight : file < s /\ s <= made /\ \A t \in inFlight : s = t
    /\ \A i \in 1 .. Len(queue) :
          /\ file < queue[i] /\ queue[i] <= made
          /\ \A s \in inFlight : s < queue[i]
          /\ \A j \in 1 .. Len(queue) : i < j => queue[i] < queue[j]

\* The last write queued is the last to begin, and the one the state was made with.
LastIsLast ==
    /\ queue # <<>> => queue[Len(queue)] = tail
    /\ queue = <<>> /\ inFlight # {} => tail \in inFlight
    /\ queue = <<>> /\ inFlight = {} /\ tail # 0 => file = tail \/ failed = tail
    /\ tail # 0 => state = tail
    /\ tail = 0 => queue = <<>> /\ inFlight = {} /\ state = file

SessionInv ==
    /\ SessionTypes /\ Queued
    /\ IF sPhase = "down" THEN queue = <<>> /\ inFlight = {} /\ tail = 0
                         ELSE LastIsLast /\ temps = inFlight

\* A write more at the end of the queue
LEMMA WriteQueued ==
    ASSUME SessionInv, Session!Persist, sPhase # "down", UNCHANGED <<Session!disk, inFlight>>
    PROVE  SessionTypes' /\ Queued' /\ LastIsLast'
  <1> DEFINE n == Len(queue)
             m == made + 1
  <1>1. n \in Nat /\ m \in Nat /\ queue \in Seq(Nat)
    BY LenProperties DEF SessionInv, SessionTypes
  <1>2. /\ queue' \in Seq(Nat) /\ queue' # <<>> /\ Len(queue') = n + 1
        /\ \A i \in 1 .. n : queue'[i] = queue[i]
        /\ queue'[n + 1] = m
    BY <1>1, AppendProperties DEF Session!Persist
  <1>3. made' = m /\ state' = m /\ tail' = m /\ file' = file /\ inFlight' = inFlight
    BY DEF Session!Persist, Session!disk
  <1> HIDE DEF n
  <1>4. SessionTypes'
    BY <1>1, <1>2, <1>3 DEF SessionInv, SessionTypes
  <1>5. Queued'
    <2>1. file' <= made' /\ \A s \in inFlight' : file' < s /\ s <= made' /\ \A t \in inFlight' : s = t
      BY <1>3 DEF SessionInv, SessionTypes, Queued
    <2>2. ASSUME NEW i \in 1 .. n
          PROVE  /\ queue[i] \in Nat /\ file < queue[i] /\ queue[i] <= made
                 /\ \A s \in inFlight : s < queue[i]
                 /\ \A j \in 1 .. n : i < j => queue[i] < queue[j]
      BY <1>1, ElementOfSeq DEF SessionInv, Queued, n
    <2>3. ASSUME NEW i \in 1 .. n + 1
          PROVE  /\ file' < queue'[i] /\ queue'[i] <= made'
                 /\ \A s \in inFlight' : s < queue'[i]
                 /\ \A j \in 1 .. n + 1 : i < j => queue'[i] < queue'[j]
      <3>1. CASE i \in 1 .. n
        BY <1>1, <1>2, <1>3, <2>2, <3>1 DEF SessionInv, SessionTypes
      <3>2. CASE i = n + 1
        BY <1>1, <1>2, <1>3, <3>2 DEF SessionInv, SessionTypes, Queued
      <3>. QED BY <1>1, <3>1, <3>2
    <2>. QED BY <1>2, <2>1, <2>3 DEF Queued
  <1>6. LastIsLast'
    BY <1>1, <1>2, <1>3 DEF SessionInv, SessionTypes, LastIsLast
  <1>. QED BY <1>4, <1>5, <1>6

\* The oldest write of the queue begins.
LEMMA WriteBegins == ASSUME SessionInv, Session!BeginWrite PROVE SessionInv'
  <1> DEFINE n == Len(queue)
             h == Head(queue)
  <1>1. n \in Nat \ {0} /\ queue \in Seq(Nat)
    BY EmptySeq DEF SessionInv, SessionTypes, Session!BeginWrite
  <1>2. /\ queue' \in Seq(Nat) /\ Len(queue') = n - 1 /\ h \in Nat
        /\ \A i \in 1 .. Len(queue') : queue'[i] = queue[i + 1]
    BY <1>1, HeadTailProperties DEF Session!BeginWrite
  <1>3. h = queue[1]
    BY <1>1, LenProperties
  <1>4. queue' # <<>> => Len(queue') \in Nat \ {0}
    BY <1>2, EmptySeq
  <1>5. queue' = <<>> => Len(queue') = 0
    BY EmptySeq
  <1>6. /\ inFlight = {} /\ inFlight' = {h} /\ sPhase' = sPhase /\ sPhase # "down"
        /\ UNCHANGED <<file, state, made, tail, failed>>
        /\ temps' = temps \cup {h} /\ queue # <<>>
    BY DEF Session!BeginWrite, Session!MayBegin
  <1> HIDE DEF n, h
  <1>7. SessionTypes'
    BY <1>2, <1>6 DEF SessionInv, SessionTypes
  <1>8. Queued'
    <2>1. ASSUME NEW i \in 1 .. n
          PROVE  /\ queue[i] \in Nat /\ file < queue[i] /\ queue[i] <= made
                 /\ \A j \in 1 .. n : i < j => queue[i] < queue[j]
      BY <1>1, ElementOfSeq DEF SessionInv, Queued, n
    <2>2. file' <= made' /\ \A s \in inFlight' : file' < s /\ s <= made' /\ \A t \in inFlight' : s = t
      BY <1>1, <1>3, <1>6, <2>1 DEF SessionInv, SessionTypes, Queued
    <2>3. ASSUME NEW i \in 1 .. Len(queue')
          PROVE  /\ file' < queue'[i] /\ queue'[i] <= made'
                 /\ \A s \in inFlight' : s < queue'[i]
                 /\ \A j \in 1 .. Len(queue') : i < j => queue'[i] < queue'[j]
      <3>1. i + 1 \in 1 .. n /\ queue'[i] = queue[i + 1] /\ 1 \in 1 .. n /\ 1 < i + 1
        BY <1>1, <1>2
      <3>2. ASSUME NEW j \in 1 .. Len(queue') PROVE j + 1 \in 1 .. n /\ queue'[j] = queue[j + 1]
        BY <1>1, <1>2
      <3>3. h < queue[i + 1]
        BY <1>3, <2>1, <3>1
      <3>4. \A j \in 1 .. Len(queue') : i < j => queue[i + 1] < queue[j + 1]
        BY <1>1, <1>2, <2>1, <3>1, <3>2
      <3>. QED BY <1>6, <2>1, <3>1, <3>2, <3>3, <3>4
    <2>. QED BY <2>2, <2>3 DEF Queued
  <1>9. LastIsLast'
    <2>1. queue[n] = tail /\ tail # 0 /\ state = tail
      BY <1>6 DEF SessionInv, LastIsLast, n
    <2>2. CASE queue' # <<>>
      BY <1>1, <1>2, <1>4, <1>6, <2>1, <2>2 DEF LastIsLast
    <2>3. CASE queue' = <<>>
      <3>1. h = tail
        BY <1>1, <1>2, <1>3, <1>5, <2>1, <2>3
      <3>. QED BY <1>6, <2>1, <2>3, <3>1 DEF LastIsLast
    <2>. QED BY <2>2, <2>3
  <1>. QED BY <1>6, <1>7, <1>8, <1>9 DEF SessionInv

\* A write settles, one way or the other.
LEMMA WriteEnds ==
    ASSUME SessionInv, NEW s \in inFlight, Session!WriteLands(s) \/ Session!WriteFails(s)
    PROVE  SessionInv'
  <1>1. /\ inFlight = {s} /\ inFlight' = {} /\ temps' = {} /\ sPhase # "down" /\ sPhase' = sPhase
        /\ UNCHANGED <<state, made, queue, tail>>
        /\ file' \in {file, s} /\ s \in Nat /\ file < s /\ s <= made
    <2>1. s \in Nat /\ file < s /\ s <= made /\ inFlight = {s}
      BY DEF SessionInv, SessionTypes, Queued
    <2>. QED BY <2>1 DEF SessionInv, Session!WriteLands, Session!WriteFails
  <1>2. SessionTypes'
    BY <1>1 DEF SessionInv, SessionTypes
  <1>3. Queued'
    BY <1>1 DEF SessionInv, SessionTypes, Queued
  <1>4. LastIsLast'
    BY <1>1 DEF SessionInv, LastIsLast, Session!WriteLands, Session!WriteFails
  <1>. QED BY <1>1, <1>2, <1>3, <1>4 DEF SessionInv

\* Every step keeps the invariant.
LEMMA SessionKept == ASSUME SessionInv, [Session!Next]_Session!vars PROVE SessionInv'
  <1> USE DEF SessionInv, Session!writer, Session!disk
  <1>1. CASE Session!Launch
    <2>1. Len(queue) = 0
      BY <1>1 DEF Session!Launch
    <2>. QED BY <1>1, <2>1 DEF Session!Launch, Session!Swept, SessionTypes, Queued, LastIsLast
  <1>2. CASE Session!Change \/ Session!SaveBounds \/ Session!CloseWindow
    <2>1. sPhase # "down" /\ sPhase' # "down" /\ Session!Persist /\ UNCHANGED <<Session!disk, inFlight>>
      BY <1>2 DEF Session!Change, Session!SaveBounds, Session!CloseWindow
    <2>. QED BY <2>1, WriteQueued
  <1>3. CASE Session!MoveWindow \/ Session!WaitOn
    BY <1>3 DEF Session!MoveWindow, Session!WaitOn, SessionTypes, Queued, LastIsLast
  <1>4. CASE Session!BeginWrite
    BY <1>4, WriteBegins
  <1>5. CASE \E s \in inFlight : Session!WriteLands(s) \/ Session!WriteFails(s)
    BY <1>5, WriteEnds
  <1>6. CASE Session!QuitDrained \/ Session!QuitLimit \/ Session!Crash
    <2>1. Session!Die
      BY <1>6 DEF Session!QuitDrained, Session!QuitLimit, Session!Crash
    <2>2. <<>> \in Seq(Nat) /\ Len(<<>>) = 0
      BY EmptySeq
    <2>. QED BY <2>1, <2>2 DEF Session!Die, SessionTypes, Queued
  <1>7. CASE UNCHANGED Session!vars
    BY <1>7 DEF Session!vars, SessionTypes, Queued, LastIsLast
  <1>. QED BY <1>1, <1>2, <1>3, <1>4, <1>5, <1>6, <1>7 DEF Session!Next

\* The invariant holds in every reachable state.
LEMMA AlwaysSessionInv == Session!Spec => []SessionInv
  <1>1. Session!Init => SessionInv
    BY EmptySeq DEF Session!Init, SessionInv, SessionTypes, Queued
  <1>2. SessionInv /\ [Session!Next]_Session!vars => SessionInv'
    BY SessionKept
  <1>. QED BY <1>1, <1>2, PTL DEF Session!Spec

-----------------------------------------------------------------------------

\* The file never goes back to an older state and no temporary file of a dead session
\* outlives the next launch: the queue keeps the writes in the order of the changes
\* (createSessionStateWriter, sweepOrphanTemps).
THEOREM NothingStale == Session!Spec => Session!NothingStaleOnDisk
  <1>1. SessionInv /\ [Session!Next]_Session!vars => [file' >= file]_Session!vars
    <2> SUFFICES ASSUME SessionInv, Session!Next PROVE file' >= file
      BY DEF Session!vars
    <2>1. ASSUME NEW s \in inFlight, Session!WriteLands(s) PROVE file' >= file
      BY <2>1 DEF SessionInv, SessionTypes, Queued, Session!WriteLands
    <2>2. ASSUME ~ \E s \in inFlight : Session!WriteLands(s) PROVE file' = file
      BY <2>2 DEF Session!Next, Session!Launch, Session!Change, Session!MoveWindow,
                  Session!SaveBounds, Session!CloseWindow, Session!BeginWrite,
                  Session!WriteFails,
                  Session!WaitOn, Session!QuitDrained, Session!QuitLimit, Session!Crash, Session!Die, Session!disk
    <2>. QED BY <2>1, <2>2 DEF SessionInv, SessionTypes
  <1>2. SessionInv => Session!NoOrphans
    BY DEF SessionInv, Session!NoOrphans
  <1>. QED BY AlwaysSessionInv, <1>1, <1>2, PTL DEF Session!Spec, Session!NothingStaleOnDisk,
                                                    Session!FileNeverGoesBack

\* A quit that waited for the queue leaves the last state on disk, unless that very
\* write failed (idle, will-quit).
THEOREM QuitKeepsTheLast == Session!Spec => Session!QuitLosesNothing
  <1>1. SessionInv => [Session!Quits /\ Session!Settled(sSeen) /\ Session!Drained => file = state \/ failed = state]_Session!vars
    <2> SUFFICES ASSUME SessionInv, sPhase # "down", Session!Settled(tail) PROVE file = state \/ failed = state
      BY DEF Session!Quits, Session!Drained
    <2>1. queue = <<>>
      <3> SUFFICES ASSUME queue # <<>> PROVE FALSE
        OBVIOUS
      <3>1. Len(queue) \in DOMAIN queue
        BY EmptySeq, LenProperties DEF SessionInv, SessionTypes
      <3>. QED BY <3>1 DEF SessionInv, SessionTypes, LastIsLast, Session!Settled
    <2>2. inFlight = {}
      BY <2>1 DEF SessionInv, SessionTypes, LastIsLast, Session!Settled
    <2>. QED BY <2>1, <2>2 DEF SessionInv, LastIsLast
  <1>. QED BY AlwaysSessionInv, <1>1, PTL DEF Session!Spec, Session!QuitLosesNothing

-----------------------------------------------------------------------------
(* The parts of ProjectFiles keep their promises side by side.                *)

\* A step of the whole is a step of the folder or leaves it alone
LEMMA FolderRuns ==
    /\ FilesInit => Folder!Init
    /\ [FilesNext]_allVars => [Folder!Next]_Folder!vars
  <1>1. FilesInit => Folder!Init
    BY DEF FilesInit
  <1>2. [FilesNext]_allVars => [Folder!Next]_Folder!vars
    BY DEF FilesNext, allVars, folderVars, Folder!vars, Folder!save, Folder!counts
  <1>. QED BY <1>1, <1>2

\* ... of the writers of the .lila
LEMMA LilaRuns ==
    /\ FilesInit => Lila!Init
    /\ [FilesNext]_allVars => [Lila!Next]_Lila!vars
  <1>1. FilesInit => Lila!Init
    BY DEF FilesInit
  <1>2. [FilesNext]_allVars => [Lila!Next]_Lila!vars
    BY DEF FilesNext, allVars, lilaVars, Lila!vars
  <1>. QED BY <1>1, <1>2

\* ... of the reload
LEMMA ReloadRuns ==
    /\ FilesInit => Reload!Init
    /\ [FilesNext]_allVars => [Reload!Next]_Reload!vars
  <1>1. FilesInit => Reload!Init
    BY DEF FilesInit
  <1>2. [FilesNext]_allVars => [Reload!Next]_Reload!vars
    BY DEF FilesNext, allVars, reloadVars, Reload!vars, Reload!screen, Reload!work,
           Reload!onDisk, Reload!history, Reload!watcher
  <1>. QED BY <1>1, <1>2

\* ... of the session
LEMMA SessionRuns ==
    /\ FilesInit => Session!Init
    /\ [FilesNext]_allVars => [Session!Next]_Session!vars
  <1>1. FilesInit => Session!Init
    BY DEF FilesInit
  <1>2. [FilesNext]_allVars => [Session!Next]_Session!vars
    BY DEF FilesNext, allVars, sessionVars, Session!vars, Session!disk, Session!writer
  <1>. QED BY <1>1, <1>2

\* A save of the folder that reports success has written everything, and one that reports a
\* plain failure has left every file as it was (commitWithRollback).
THEOREM FolderAllOrNothing == FilesSpec => []AllOrNothing
  BY FilesAssumption, FolderRuns, Folder!SavesAreAllOrNothing, PTL
  DEF FilesSpec, Folder!Spec, AllOrNothing

\* Whichever rename or undo of a save fails, and wherever the process dies, what a file of the
\* folder held is at its place or set aside (rollbackCommit, lila-recovery.json).
THEOREM FolderLosesNothing == FilesSpec => []RecoveryIsPossible
  BY FilesAssumption, FolderRuns, Folder!NothingIsLost, PTL
  DEF FilesSpec, Folder!Spec, RecoveryIsPossible

\* The save that makes the folder a repository can die anywhere (writeRepositoryFolder).
THEOREM FolderSurvivesFirstSave == FilesSpec => []FirstSaveIsCrashSafe
  BY FilesAssumption, FolderRuns, Folder!FirstSaveSurvivesCrashes, PTL
  DEF FilesSpec, Folder!Spec, FirstSaveIsCrashSafe

\* A run is only stored in a file whose model is the one it was taken on (saveLilaRun).
THEOREM LilaRunsMatch == FilesSpec => RunsMatchTheModel
  BY FilesAssumption, LilaRuns, Lila!RunsOnTheirModel, PTL
  DEF FilesSpec, Lila!Spec, RunsMatchTheModel

\* An agent keeps whatever the file holds when it stores its run (saveLilaRun).
THEOREM LilaAgentsKeep == FilesSpec => AgentsTakeNothingBack
  BY FilesAssumption, LilaRuns, Lila!AgentsKeepWhatIsThere, PTL
  DEF FilesSpec, Lila!Spec, AgentsTakeNothingBack

\* A save of the open project overwrites no version that nobody has seen (assertPathsUnchanged).
THEOREM ReloadOverwritesSeen == FilesSpec => NothingUnseenIsOverwritten
  BY FilesAssumption, ReloadRuns, SavesOverwriteWhatWasSeen, PTL
  DEF FilesSpec, Reload!Spec, NothingUnseenIsOverwritten

\* A late write never replaces a later state of the session (createSessionStateWriter).
THEOREM SessionNeverStale == FilesSpec => NothingStaleOnDisk
  BY FilesAssumption, SessionRuns, NothingStale, PTL
  DEF FilesSpec, Session!Spec, NothingStaleOnDisk
=============================================================================
