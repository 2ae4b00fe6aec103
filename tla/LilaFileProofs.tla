---------------------------- MODULE LilaFileProofs ----------------------------
(* Theorems about the writers of a .lila file, for any number of agents and   *)
(* windows, any number of tries and saves, and any number of crashes.         *)
EXTENDS LilaFile, TLAPS

Inside == {"check", "write", "unlock"}
PCs == {"stat", "read", "lock", "check", "write", "unlock", "remember", "editing",
        "saved", "failed", "stale", "crashed"}

\* What an agent relies on when it writes: nobody else is between the check and the
\* end of a save, no identity it compares with is from the future, what it holds in
\* memory is what the file held under that identity, and its run is on that model.
Types ==
    /\ disk.id \in Nat
    /\ pc \in [Parties -> PCs]
    /\ known \in [Parties -> Nat]
    /\ DOMAIN base = Parties
    /\ attempt \in [Parties -> Nat]
    /\ DOMAIN runOn = Agents
Exclusive(w) == pc[w] \in Inside => holder = w
NotAhead(w) == known[w] <= disk.id
Opened(a) ==
    /\ pc[a] \in {"lock", "check"} /\ known[a] = disk.id => base[a] = ContentOf(disk)
    /\ pc[a] = "write" => base[a] = ContentOf(disk)
SameModel(a) == pc[a] \in {"lock", "check", "write"} => base[a].rev = runOn[a]

Inv ==
    /\ Types
    /\ \A w \in Parties : Exclusive(w) /\ NotAhead(w)
    /\ \A a \in Agents : Opened(a) /\ SameModel(a)

\* The initial state satisfies the invariant.
LEMMA Starts == ASSUME WritersAssumption, Init PROVE Inv
  BY DEF WritersAssumption, Init, Inv, Types, Exclusive, NotAhead, Opened, SameModel, Inside,
         PCs, Parties

\* Every step keeps the types.
LEMMA Typed == ASSUME WritersAssumption, Inv, [Next]_vars PROVE Types'
  <1> USE DEF Inv, Types, PCs, Goto
  <1>1. ASSUME NEW a \in Agents, AgentStep(a) PROVE Types'
    <2>1. a \in Parties
      BY DEF Parties
    <2>2. CASE AgentStat(a) \/ AgentRead(a)
      BY <2>1, <2>2 DEF AgentStat, AgentRead
    <2>3. CASE AgentBusy(a) \/ AgentLock(a) \/ AgentUnlock(a)
      BY <2>1, <2>3 DEF AgentBusy, AgentLock, AgentUnlock, TryAgain
    <2>4. CASE AgentCheck(a) \/ AgentWrite(a)
      BY <2>1, <2>4 DEF AgentCheck, AgentWrite, TryAgain
    <2>. QED BY <1>1, <2>2, <2>3, <2>4 DEF AgentStep
  <1>2. ASSUME NEW d \in Desktops, DesktopStep(d) PROVE Types'
    <2>1. d \in Parties
      BY DEF Parties
    <2>2. CASE DesktopRead(d) \/ DesktopRemember(d)
      BY <2>1, <2>2 DEF DesktopRead, DesktopRemember
    <2>3. CASE DesktopSave(d)
      BY <2>1, <2>3 DEF DesktopSave
    <2>4. CASE DesktopBusy(d) \/ DesktopLock(d) \/ DesktopUnlock(d)
      BY <2>1, <2>4 DEF DesktopBusy, DesktopLock, DesktopUnlock
    <2>5. CASE DesktopCheck(d) \/ DesktopWrite(d)
      BY <2>1, <2>5 DEF DesktopCheck, DesktopWrite
    <2>. QED BY <1>2, <2>2, <2>3, <2>4, <2>5 DEF DesktopStep
  <1>3. ASSUME NEW w \in Parties, Crash(w) PROVE Types'
    BY <1>3 DEF Crash
  <1>4. CASE UNCHANGED vars
    BY <1>4 DEF vars
  <1>. QED BY <1>1, <1>2, <1>3, <1>4 DEF Next

\* Who is between the check and the end of a save has the lock, and gives it up with it.
LEMMA Excluded ==
    ASSUME WritersAssumption, Inv, [Next]_vars, NEW v \in Parties
    PROVE  Exclusive(v)'
  <1> USE DEF Inv, Types, Exclusive, Inside, Goto
  <1>1. ASSUME NEW a \in Agents, AgentStep(a) PROVE Exclusive(v)'
    <2>1. a \in Parties
      BY DEF Parties
    <2>2. CASE AgentStat(a) \/ AgentRead(a) \/ AgentBusy(a) \/ AgentWrite(a)
      BY <2>1, <2>2 DEF AgentStat, AgentRead, AgentBusy, AgentWrite, TryAgain
    <2>3. CASE AgentLock(a)
      BY <2>1, <2>3 DEF AgentLock, Lock!Acquire, WritersAssumption
    <2>4. CASE AgentCheck(a)
      BY <2>1, <2>4 DEF AgentCheck, TryAgain, Lock!Release
    <2>5. CASE AgentUnlock(a)
      BY <2>1, <2>5 DEF AgentUnlock, Lock!Release
    <2>. QED BY <1>1, <2>2, <2>3, <2>4, <2>5 DEF AgentStep
  <1>2. ASSUME NEW d \in Desktops, DesktopStep(d) PROVE Exclusive(v)'
    <2>1. d \in Parties
      BY DEF Parties
    <2>2. CASE DesktopRead(d) \/ DesktopRemember(d) \/ DesktopSave(d) \/ DesktopBusy(d)
               \/ DesktopWrite(d)
      BY <2>1, <2>2 DEF DesktopRead, DesktopRemember, DesktopSave, DesktopBusy, DesktopWrite
    <2>3. CASE DesktopLock(d)
      BY <2>1, <2>3 DEF DesktopLock, Lock!Acquire, WritersAssumption
    <2>4. CASE DesktopCheck(d)
      BY <2>1, <2>4 DEF DesktopCheck, Lock!Release
    <2>5. CASE DesktopUnlock(d)
      BY <2>1, <2>5 DEF DesktopUnlock, Lock!Release
    <2>. QED BY <1>2, <2>2, <2>3, <2>4, <2>5 DEF DesktopStep
  <1>3. ASSUME NEW w \in Parties, Crash(w) PROVE Exclusive(v)'
    BY <1>3 DEF Crash
  <1>4. CASE UNCHANGED vars
    BY <1>4 DEF vars
  <1>. QED BY <1>1, <1>2, <1>3, <1>4 DEF Next

\* The number of the last write only grows, and only with one.
LEMMA NumbersGrow ==
    ASSUME WritersAssumption, Inv, [Next]_vars
    PROVE  \/ disk' = disk
           \/ /\ disk'.id = disk.id + 1
              /\ \E w \in Parties : pc[w] = "write" /\ pc'[w] = "unlock" /\ holder = w
                                   /\ UNCHANGED <<holder, known, base, attempt, runOn>>
                                   /\ \A v \in Parties \ {w} : pc'[v] = pc[v]
  <1> USE DEF Inv, Types, Exclusive, Inside, Goto
  <1>1. ASSUME NEW a \in Agents, AgentWrite(a)
        PROVE  /\ disk'.id = disk.id + 1
               /\ \E w \in Parties : pc[w] = "write" /\ pc'[w] = "unlock" /\ holder = w
                                    /\ UNCHANGED <<holder, known, base, attempt, runOn>>
                                    /\ \A v \in Parties \ {w} : pc'[v] = pc[v]
    BY <1>1 DEF AgentWrite, Parties
  <1>2. ASSUME NEW d \in Desktops, DesktopWrite(d)
        PROVE  /\ disk'.id = disk.id + 1
               /\ \E w \in Parties : pc[w] = "write" /\ pc'[w] = "unlock" /\ holder = w
                                    /\ UNCHANGED <<holder, known, base, attempt, runOn>>
                                    /\ \A v \in Parties \ {w} : pc'[v] = pc[v]
    BY <1>2 DEF DesktopWrite, Parties
  <1>3. ASSUME NEW a \in Agents, AgentStep(a), ~AgentWrite(a) PROVE disk' = disk
    BY <1>3 DEF AgentStep, AgentStat, AgentRead, AgentBusy, AgentLock, AgentCheck, AgentUnlock
  <1>4. ASSUME NEW d \in Desktops, DesktopStep(d), ~DesktopWrite(d) PROVE disk' = disk
    BY <1>4 DEF DesktopStep, DesktopRead, DesktopRemember, DesktopSave, DesktopBusy,
                DesktopLock, DesktopCheck, DesktopUnlock
  <1>5. ASSUME NEW w \in Parties, Crash(w) PROVE disk' = disk
    BY <1>5 DEF Crash
  <1>. QED BY <1>1, <1>2, <1>3, <1>4, <1>5 DEF Next, vars

\* What a writer compares with is never newer than the file.
LEMMA NeverAhead ==
    ASSUME WritersAssumption, Inv, [Next]_vars, NEW v \in Parties
    PROVE  NotAhead(v)'
  <1> USE DEF Inv, Types, NotAhead
  <1>1. known'[v] = known[v] \/ (known'[v] = disk.id /\ disk' = disk)
    <2>1. ASSUME NEW a \in Agents, AgentStep(a)
          PROVE  known'[v] = known[v] \/ (known'[v] = disk.id /\ disk' = disk)
      BY <2>1 DEF AgentStep, AgentStat, AgentRead, AgentBusy, AgentLock, AgentCheck, AgentWrite,
                  AgentUnlock
    <2>2. ASSUME NEW d \in Desktops, DesktopStep(d)
          PROVE  known'[v] = known[v] \/ (known'[v] = disk.id /\ disk' = disk)
      BY <2>2 DEF DesktopStep, DesktopRead, DesktopRemember, DesktopSave, DesktopBusy,
                  DesktopLock, DesktopCheck, DesktopWrite, DesktopUnlock
    <2>. QED BY <2>1, <2>2 DEF Next, Crash, vars
  <1>2. disk' = disk \/ disk'.id = disk.id + 1
    BY NumbersGrow
  <1>. QED BY <1>1, <1>2

\* What an agent holds in memory under the identity of the file is what is in the file:
\* another write gives the file a number it does not know, and there is none while it
\* writes itself.
LEMMA StaysOpened ==
    ASSUME WritersAssumption, Inv, [Next]_vars, NEW k \in Agents
    PROVE  Opened(k)'
  <1> USE DEF Inv, Types, Opened, ContentOf
  <1>. k \in Parties
    BY DEF Parties
  <1>1. CASE disk' # disk
    <2>1. PICK w \in Parties : /\ disk'.id = disk.id + 1
                               /\ pc[w] = "write" /\ pc'[w] = "unlock" /\ holder = w
                               /\ UNCHANGED <<known, base>>
                               /\ \A v \in Parties \ {w} : pc'[v] = pc[v]
      BY <1>1, NumbersGrow
    <2>2. known'[k] # disk'.id
      BY <2>1 DEF NotAhead
    <2>3. pc'[k] # "write"
      BY <2>1 DEF Exclusive, Inside
    <2>. QED BY <2>2, <2>3
  <1>2. CASE disk' = disk
    <2>1. ASSUME NEW a \in Agents, AgentStep(a), a # k PROVE UNCHANGED <<pc[k], known[k], base[k]>>
      BY <2>1 DEF AgentStep, AgentStat, AgentRead, AgentBusy, AgentLock, AgentCheck, AgentWrite,
                  AgentUnlock, TryAgain, Goto
    <2>2. ASSUME NEW d \in Desktops, DesktopStep(d) PROVE UNCHANGED <<pc[k], known[k], base[k]>>
      <3>1. d # k
        BY DEF WritersAssumption
      <3>. QED BY <2>2, <3>1 DEF DesktopStep, DesktopRead, DesktopRemember, DesktopSave,
                     DesktopBusy, DesktopLock, DesktopCheck, DesktopWrite, DesktopUnlock, Goto
    <2>3. CASE AgentRead(k)
      BY <1>2, <2>3 DEF AgentRead, Goto
    <2>4. CASE AgentCheck(k)
      BY <1>2, <2>4 DEF AgentCheck, TryAgain, Goto
    <2>5. CASE AgentStat(k) \/ AgentBusy(k) \/ AgentUnlock(k)
      BY <1>2, <2>5 DEF AgentStat, AgentBusy, AgentUnlock, TryAgain, Goto
    <2>6. CASE AgentLock(k)
      BY <1>2, <2>6 DEF AgentLock, Goto
    <2>7. CASE AgentWrite(k)
      BY <1>2, <2>7 DEF AgentWrite, Goto
    <2>8. ASSUME NEW w \in Parties, Crash(w) PROVE Opened(k)'
      BY <1>2, <2>8 DEF Crash, Goto
    <2>9. CASE UNCHANGED vars
      BY <2>9 DEF vars
    <2>. QED BY <1>2, <2>1, <2>2, <2>3, <2>4, <2>5, <2>6, <2>7, <2>8, <2>9 DEF Next, AgentStep
  <1>. QED BY <1>1, <1>2

\* From its read to its write an agent works on the model its run was taken on.
LEMMA StaysOnModel ==
    ASSUME WritersAssumption, Inv, [Next]_vars, NEW k \in Agents
    PROVE  SameModel(k)'
  <1> USE DEF Inv, Types, SameModel, ContentOf
  <1>. k \in Parties
    BY DEF Parties
  <1>1. ASSUME NEW a \in Agents, AgentStep(a), a # k PROVE UNCHANGED <<pc[k], base[k], runOn[k]>>
    BY <1>1 DEF AgentStep, AgentStat, AgentRead, AgentBusy, AgentLock, AgentCheck, AgentWrite,
                AgentUnlock, TryAgain, Goto
  <1>2. ASSUME NEW d \in Desktops, DesktopStep(d) PROVE UNCHANGED <<pc[k], base[k], runOn[k]>>
    <2>1. d # k
      BY DEF WritersAssumption
    <2>. QED BY <1>2, <2>1 DEF DesktopStep, DesktopRead, DesktopRemember, DesktopSave,
                   DesktopBusy, DesktopLock, DesktopCheck, DesktopWrite, DesktopUnlock, Goto
  <1>3. CASE AgentRead(k)
    BY <1>3 DEF AgentRead, Goto
  <1>4. CASE AgentStat(k) \/ AgentBusy(k) \/ AgentLock(k)
    BY <1>4 DEF AgentStat, AgentBusy, AgentLock, TryAgain, Goto
  <1>5. CASE AgentCheck(k)
    BY <1>5 DEF AgentCheck, TryAgain, Goto
  <1>6. CASE AgentWrite(k) \/ AgentUnlock(k)
    BY <1>6 DEF AgentWrite, AgentUnlock, Goto
  <1>7. ASSUME NEW w \in Parties, Crash(w) PROVE SameModel(k)'
    BY <1>7 DEF Crash, Goto
  <1>8. CASE UNCHANGED vars
    BY <1>8 DEF vars
  <1>. QED BY <1>1, <1>2, <1>3, <1>4, <1>5, <1>6, <1>7, <1>8 DEF Next, AgentStep

\* The invariant holds in every reachable state.
LEMMA AlwaysInv == ASSUME WritersAssumption PROVE Spec => []Inv
  <1>1. Inv /\ [Next]_vars => Inv'
    BY Typed, Excluded, NeverAhead, StaysOpened, StaysOnModel DEF Inv
  <1>. QED BY Starts, <1>1, PTL DEF Spec

-----------------------------------------------------------------------------

\* The step in which an agent stores its run is its own write, on top of the file it read.
LEMMA StoresItsOwn ==
    ASSUME WritersAssumption, Inv, Next, NEW a \in Agents, Stores(a)
    PROVE  AgentWrite(a) /\ base[a] = ContentOf(disk) /\ base[a].rev = runOn[a]
  <1>. a \in Parties
    BY DEF Parties
  <1>1. ASSUME NEW b \in Agents, AgentStep(b) PROVE AgentWrite(a)
    BY <1>1 DEF Stores, Inv, Types, AgentStep, AgentStat, AgentRead, AgentBusy, AgentLock,
                AgentCheck, AgentWrite, AgentUnlock, TryAgain, Goto
  <1>2. ASSUME NEW d \in Desktops, DesktopStep(d) PROVE FALSE
    <2>1. d # a
      BY DEF WritersAssumption
    <2>. QED BY <1>2, <2>1 DEF Stores, Inv, Types, DesktopStep, DesktopRead, DesktopRemember,
                   DesktopSave, DesktopBusy, DesktopLock, DesktopCheck, DesktopWrite,
                   DesktopUnlock, Goto
  <1>3. ASSUME NEW w \in Parties, Crash(w) PROVE FALSE
    BY <1>3 DEF Stores, Inv, Types, Crash, Goto
  <1>4. Opened(a) /\ SameModel(a) /\ pc[a] = "write"
    BY DEF Inv, Stores
  <1>. QED BY <1>1, <1>2, <1>3, <1>4 DEF Next, Opened, SameModel

\* A run is only ever stored in a file whose model is the one it was taken on: the
\* comparison under the lock voids a try whose file has changed (saveLilaRun).
THEOREM RunsOnTheirModel == ASSUME WritersAssumption PROVE Spec => RunsMatchTheModel
  <1>1. ASSUME Inv, [Next]_vars
        PROVE  [\A a \in Agents : Stores(a) => disk.rev = runOn[a] /\ disk'.rev = runOn[a]]_vars
    <2>1. CASE UNCHANGED vars
      BY <2>1
    <2>2. ASSUME Next, NEW a \in Agents, Stores(a)
          PROVE  disk.rev = runOn[a] /\ disk'.rev = runOn[a]
      <3>1. AgentWrite(a) /\ base[a] = ContentOf(disk) /\ base[a].rev = runOn[a]
        BY <1>1, <2>2, StoresItsOwn
      <3>. QED BY <3>1 DEF AgentWrite, ContentOf
    <2>. QED BY <1>1, <2>1, <2>2
  <1>. QED BY AlwaysInv, <1>1, PTL DEF Spec, RunsMatchTheModel

\* An agent keeps whatever the file holds when it stores its run, the edits of a window
\* and the runs of other agents alike (saveLilaRun, expectedVersion).
THEOREM AgentsKeepWhatIsThere == ASSUME WritersAssumption PROVE Spec => AgentsTakeNothingBack
  <1>1. ASSUME Inv, [Next]_vars
        PROVE  [(\E a \in Agents : Stores(a)) => disk.changes \subseteq disk'.changes]_vars
    <2>1. CASE UNCHANGED vars
      BY <2>1
    <2>2. ASSUME Next, NEW a \in Agents, Stores(a) PROVE disk.changes \subseteq disk'.changes
      <3>1. AgentWrite(a) /\ base[a] = ContentOf(disk)
        BY <1>1, <2>2, StoresItsOwn
      <3>. QED BY <3>1 DEF AgentWrite, ContentOf
    <2>. QED BY <1>1, <2>1, <2>2
  <1>. QED BY AlwaysInv, <1>1, PTL DEF Spec, AgentsTakeNothingBack
=============================================================================
