--------------------------- MODULE ProjectFolderProofs ---------------------------
(* Theorems about a project folder, for any folders, files and orders of them, *)
(* and any number of saves, edits, failures and crashes.                      *)
EXTENDS ProjectFolder, TLAPS

Forward == phase \in {"look", "aside", "place"}
Back == phase \in {"unplace", "restore"}

Types ==
    /\ folder \in Folders
    /\ disk \in [Paths -> Nat] /\ prev \in [Paths -> Nat] /\ start \in [Paths -> Nat]
    /\ fresh \in Nat /\ FirstFresh <= fresh
    /\ next \in Nat
    /\ writes \subseteq Paths /\ moved \subseteq writes /\ placed \subseteq writes \ Retired
    /\ WasRepository \/ Manifest \notin touched

\* The file is as the journal says.
AsJournalled(p) ==
    /\ p \notin touched =>
          /\ p \in moved => prev[p] = start[p]
          /\ disk[p] = IF p \in placed THEN Content(p)
                       ELSE IF p \in moved THEN NoContent ELSE start[p]
    /\ p \in moved => prev[p] # NoContent
    /\ p \in placed => disk[p] # NoContent
    /\ p \notin moved /\ p \in placed => start[p] = NoContent
    /\ p \notin moved \cup placed /\ start[p] # NoContent => disk[p] # NoContent

\* The loop of the commit is through with the file.
Passed(p) == p \in writes => p \in moved \cup placed /\ (p \notin Retired => p \in placed)

\* It has not come to it.
Ahead(p) == p \notin moved \cup placed

\* The undo has taken away what was placed, and not put back what was moved.
HalfUndone(p) ==
    /\ p \notin touched =>
          /\ p \in moved => prev[p] = start[p]
          /\ disk[p] = IF p \in moved THEN NoContent ELSE start[p]
    /\ p \in moved => prev[p] # NoContent
    /\ p \notin moved /\ start[p] # NoContent => disk[p] # NoContent

\* The undo is through with it.
Undone(p) ==
    /\ p \notin touched =>
          \/ disk[p] = start[p]
          \/ p \in pending /\ (start[p] # NoContent => start[p] \in {disk[p], prev[p]})
    /\ pending = {} /\ start[p] # NoContent => disk[p] # NoContent

\* What the step the commit is at relies on
AtStep ==
    /\ phase = "aside" => Dest \in writes /\ Dest \notin moved /\ disk[Dest] # NoContent
    /\ phase = "place" => /\ Dest \in writes \ Retired
                          /\ Dest \notin moved => start[Dest] = NoContent
    /\ phase \in {"look", "aside"} /\ next <= Len(Order) => Ahead(Dest)
    /\ phase = "place" => Dest \notin placed
    /\ Forward => next > 0 /\ next <= Len(Order) + 1 /\ \A p \in Paths : AsJournalled(p)
    /\ phase \in {"aside", "place", "unplace"} => next <= Len(Order)
    /\ phase = "restore" => next > 0 /\ next <= Len(Order) /\ HalfUndone(Dest)
    /\ phase = "unplace" /\ next > 0 => AsJournalled(Dest)

\* The files before and after it, and what holds of them all
InCommit ==
    /\ new \in Nat /\ new >= FirstFresh
    /\ Manifest \in writes
    /\ writes \cap Retired # {} => ~RepositoryOn(start)
    /\ \A p \in Paths \ writes : p \notin Retired => disk[p] # NoContent
    /\ \A p \in writes \cap Retired : start[p] # NoContent
    /\ \A k \in DOMAIN Order :
          /\ k < next => Passed(Order[k]) /\ AsJournalled(Order[k])
          /\ Forward /\ k > next => Ahead(Order[k])
          /\ Back /\ k > next => Undone(Order[k])

\* How a save ends
Ended ==
    /\ phase = "failed" => \A p \in Paths \ touched : disk[p] = start[p]
    /\ phase = "recovery" => \A p \in Paths : Undone(p)
    /\ phase \in {"remember", "saved"} =>
          \A p \in writes \ touched : disk[p] = IF p \in Retired THEN NoContent ELSE Content(p)
    /\ phase = "torn" => OldContentSurvives /\ FirstSaveIsCrashSafe

Inv == Types /\ Ended /\ (Committing => AtStep /\ InCommit)

-----------------------------------------------------------------------------

\* What the assumption says of the folder that is opened
Shape ==
    /\ Len(Order) \in Nat /\ DOMAIN Order = 1 .. Len(Order)
    /\ \A k \in DOMAIN Order : Order[k] \in Paths
    /\ \A p \in Paths : \E k \in DOMAIN Order : p = Order[k]
    /\ \A i, j \in DOMAIN Order : Order[i] = Order[j] => i = j
    /\ \A i, j \in DOMAIN Order : Order[i] = Manifest =>
          IF i < j THEN Order[j] \in Retired ELSE Order[j] \notin Retired
    /\ Manifest \in Paths /\ Manifest \notin Runs /\ Manifest \notin Retired
    /\ Runs \subseteq Paths /\ Retired \subseteq Paths /\ Runs \cap Retired = {}
    /\ Before \in [Paths -> 0 .. FirstFresh - 1]
    /\ WasRepository \in BOOLEAN /\ (WasRepository <=> Retired = {})
    /\ folder.oldFiles \subseteq Paths /\ folder.newFiles \subseteq Paths \ Retired
    /\ ~WasRepository => folder.oldFiles \subseteq Retired

\* What the assumption says of the folder that is saved
LEMMA FolderShape == ASSUME FolderAssumption, folder \in Folders PROVE Shape
  <1> DEFINE o == folder.order
  <1>1. /\ o \in Seq(ToSet(o))
        /\ \A i, j \in DOMAIN o : o[i] = o[j] => i = j
        /\ ManifestInPlace(folder)
        /\ folder.runs \subseteq ToSet(o) /\ folder.retired \subseteq ToSet(o) \ folder.runs
        /\ Manifest \in ToSet(o) \ (folder.runs \cup folder.retired)
        /\ folder.before \in [ToSet(o) -> 0 .. FirstFresh - 1]
        /\ folder.wasRepository \in BOOLEAN
        /\ folder.wasRepository <=> folder.retired = {}
        /\ folder.oldFiles \subseteq ToSet(o) /\ folder.newFiles \subseteq ToSet(o) \ folder.retired
        /\ ~folder.wasRepository => folder.oldFiles \subseteq folder.retired
    BY DEF FolderAssumption
  <1>2. \A p : p \in ToSet(o) <=> \E k \in DOMAIN o : p = o[k]
    BY DEF ToSet
  <1>3. Len(o) \in Nat /\ DOMAIN o = 1 .. Len(o)
    BY <1>1
  <1> HIDE DEF o
  <1>4. \A i, j \in DOMAIN o : o[i] = Manifest =>
           IF i < j THEN o[j] \in folder.retired ELSE o[j] \notin folder.retired
    BY <1>1 DEF ManifestInPlace, o
  <1>. QED BY <1>1, <1>2, <1>3, <1>4 DEF Shape, Order, Paths, Runs, Retired, Before, WasRepository, o

\* The folder stays the same, and with it all that is read off it.
SameShape ==
    /\ folder' = folder /\ Order' = Order /\ Paths' = Paths /\ Runs' = Runs
    /\ Retired' = Retired /\ Before' = Before /\ WasRepository' = WasRepository

\* It stays the same
LEMMA SameFolder == ASSUME [Next]_vars PROVE SameShape
  <1>1. folder' = folder
    BY DEF Next, vars, Open, Read, Snapshot, Refuse, TempFails, Save, Look, Aside, Place, Clean,
           Remember, Fail, Unplace, Restore, UndoFails, RolledBack, Edit, Crash
  <1>. QED BY <1>1 DEF SameShape, Order, Paths, Runs, Retired, Before, WasRepository

\* The invariant holds at first
LEMMA Starts == ASSUME FolderAssumption, Init PROVE Inv
  <1>1. Shape
    BY FolderShape DEF Init
  <1>2. Before \in [Paths -> Nat] /\ [p \in Paths |-> NoContent] \in [Paths -> Nat]
    BY <1>1 DEF Shape, NoContent, FirstFresh
  <1>3. Types
    BY <1>2 DEF Types, Init, FirstFresh
  <1>. QED BY <1>3 DEF Inv, Ended, Init, Committing

-----------------------------------------------------------------------------
(* A crash in the middle of the save that makes a repository of the folder    *)

\* While a save is under way, the folder can be opened if it is the one that makes it a
\* repository: the new manifest finds the files it needs, and so does the old one.
LEMMA MidwayReadable ==
    ASSUME Inv, Shape, Committing, writes \cap Retired # {}, ReadableOn(start), pending = {}
    PROVE  Readable
  <1>1. AtStep /\ InCommit /\ Types
    BY DEF Inv
  <1>2. ~WasRepository /\ ~RepositoryOn(start) /\ Manifest \notin touched
    BY <1>1 DEF Shape, InCommit, Types
  <1>3. PICK m \in DOMAIN Order : Order[m] = Manifest
    BY DEF Shape
  <1>4. start[Manifest] = NoContent \/ start[Manifest] = Before[Manifest]
    BY <1>2 DEF RepositoryOn
  <1>5. Content(Manifest) >= FirstFresh /\ Content(Manifest) # NoContent
    BY <1>1 DEF Content, InCommit, Shape, NoContent, FirstFresh
  <1>6. Content(Manifest) # Before[Manifest]
    BY <1>5, <1>1 DEF Shape, FirstFresh
  <1>7. m \in Nat /\ next \in Nat
    BY <1>1 DEF Shape, Types
  <1>8. CASE RepositoryOn(disk)
    <2>1. disk[Manifest] # NoContent /\ disk[Manifest] # start[Manifest]
      BY <1>2, <1>4, <1>8 DEF RepositoryOn
    <2>2. ~(m > next)
      <3>1. CASE Forward
        BY <1>1, <1>2, <1>3, <2>1, <3>1 DEF AtStep, InCommit, Ahead, AsJournalled, Shape
      <3>2. CASE Back
        BY <1>1, <1>2, <1>3, <2>1, <3>2 DEF InCommit, Undone
      <3>. QED BY <3>1, <3>2 DEF Committing, Forward, Back
    <2>3. ASSUME NEW p \in folder.newFiles PROVE disk[p] # NoContent
      <3>1. p \in Paths /\ p \notin Retired
        BY DEF Shape
      <3>2. PICK k \in DOMAIN Order : p = Order[k]
        BY <3>1 DEF Shape
      <3>3. k \in Nat /\ ~(m < k)
        BY <1>3, <3>1, <3>2 DEF Shape
      <3>4. CASE k = m
        BY <1>3, <2>1, <3>2, <3>4
      <3>5. CASE k < m
        <4>1. k < next
          BY <1>7, <2>2, <3>3, <3>5
        <4>2. CASE p \in writes
          BY <1>1, <3>1, <3>2, <4>1, <4>2 DEF InCommit, Passed, AsJournalled
        <4>3. CASE p \notin writes
          BY <1>1, <3>1, <4>3 DEF InCommit
        <4>. QED BY <4>2, <4>3
      <3>. QED BY <1>7, <3>3, <3>4, <3>5
    <2>. QED BY <1>2, <1>8, <2>3 DEF Readable, ReadableOn, Needed
  <1>9. CASE ~RepositoryOn(disk)
    <2>1. disk[Manifest] = NoContent \/ disk[Manifest] = Before[Manifest]
      BY <1>2, <1>9 DEF RepositoryOn
    <2>2. ~(m < next)
      BY <1>1, <1>2, <1>3, <1>5, <1>6, <2>1 DEF InCommit, Passed, AsJournalled, Shape
    <2>3. ASSUME NEW p \in folder.oldFiles PROVE disk[p] # NoContent
      <3>1. p \in Paths /\ p \in Retired /\ start[p] # NoContent
        BY <1>2 DEF Shape, ReadableOn, Needed
      <3>2. PICK k \in DOMAIN Order : p = Order[k]
        BY <3>1 DEF Shape
      <3>3. k \in Nat /\ m < k
        BY <1>3, <3>1, <3>2 DEF Shape
      <3>4. k > next
        BY <1>7, <2>2, <3>3
      <3>5. CASE Forward
        BY <1>1, <3>1, <3>2, <3>4, <3>5 DEF AtStep, InCommit, Ahead, AsJournalled
      <3>6. CASE Back
        BY <1>1, <3>1, <3>2, <3>4, <3>6 DEF InCommit, Undone
      <3>. QED BY <3>5, <3>6 DEF Committing, Forward, Back
    <2>. QED BY <1>2, <1>9, <2>3 DEF Readable, ReadableOn, Needed
  <1>. QED BY <1>8, <1>9

\* While a save is under way, and once it was given up, what a file held is not lost.
LEMMA MidwaySurvives ==
    ASSUME Inv, Shape, Committing \/ phase \in {"torn", "failed", "recovery"}
    PROVE  OldContentSurvives
  <1>1. ASSUME Committing, NEW p \in writes \ touched, start[p] # NoContent
        PROVE  start[p] \in {disk[p], prev[p]}
    <2>1. AtStep /\ InCommit /\ Types
      BY <1>1 DEF Inv
    <2>2. PICK k \in DOMAIN Order : p = Order[k]
      BY <2>1 DEF Shape, Types
    <2>3. k \in Nat /\ next \in Nat
      BY <2>1 DEF Shape, Types
    <2>4. CASE Forward \/ k < next \/ (phase = "unplace" /\ k = next)
      <3>1. AsJournalled(p)
        BY <2>1, <2>2, <2>3, <2>4 DEF AtStep, InCommit, Dest, Shape, Types
      <3>. QED BY <1>1, <3>1 DEF AsJournalled
    <2>5. CASE phase = "restore" /\ k = next
      <3>1. HalfUndone(p)
        BY <2>1, <2>2, <2>5 DEF AtStep, Dest
      <3>. QED BY <1>1, <3>1 DEF HalfUndone
    <2>6. CASE Back /\ k > next
      BY <1>1, <2>1, <2>2, <2>6 DEF InCommit, Undone
    <2>. QED BY <1>1, <2>3, <2>4, <2>5, <2>6 DEF Committing, Forward, Back
  <1>2. CASE phase \in {"torn", "failed", "recovery"}
    BY <1>2 DEF Inv, Ended, OldContentSurvives, Undone, Types
  <1>. QED BY <1>1, <1>2 DEF OldContentSurvives

-----------------------------------------------------------------------------
(* The steps                                                                  *)

\* Opening, reading, refusing and remembering leave the files alone.
LEMMA Reads ==
    ASSUME Inv, Open \/ Read \/ Snapshot \/ Refuse \/ Remember
    PROVE  Inv'
  <1>1. /\ UNCHANGED <<folder, disk, prev, touched, save, fresh>>
        /\ phase' \in {"reading", "unreadable", "open", "snapshot", "refused", "remember", "saved"}
        /\ phase' \in {"remember", "saved"} => phase = "remember"
        /\ next \in Nat => next' \in Nat
    BY DEF Open, Read, Snapshot, Refuse, Remember, Begin, counts
  <1>2. Types'
    BY <1>1 DEF Inv, Types, Paths, Order, Retired, WasRepository, save
  <1>3. Ended'
    BY <1>1 DEF Inv, Ended, Content, Runs, Retired, save
  <1>. QED BY <1>1, <1>2, <1>3 DEF Inv, Committing

\* A temporary file cannot be written
LEMMA FailsEarly == ASSUME Inv, Shape, TempFails PROVE Inv'
  <1>1. Types'
    BY DEF TempFails, Begin, Inv, Types, Paths, Order, WasRepository
  <1>2. Ended'
    BY DEF TempFails, Ended, Paths, Order
  <1>. QED BY <1>1, <1>2 DEF TempFails, Inv, Committing

\* The commit begins
LEMMA Saves == ASSUME Inv, Shape, Save, SameShape PROVE Inv'
  <1>1. Types
    BY DEF Inv
  <1>2. /\ phase' = "look" /\ next' = 1 /\ new' = fresh /\ fresh' = fresh + 1 /\ disk' = disk
        /\ writes' = ToWrite /\ moved' = {} /\ placed' = {} /\ pending' = {} /\ touched' = {}
        /\ prev' = [p \in Paths |-> NoContent] /\ start' = disk
    BY DEF Save
  <1>3. writes' \subseteq Paths /\ Manifest \in writes'
    BY <1>2 DEF ToWrite, Shape
  <1>4. Types'
    BY <1>1, <1>2, <1>3 DEF Types, SameShape, NoContent, FirstFresh
  <1>5. \A p \in Paths : AsJournalled(p)'
    BY <1>2 DEF AsJournalled
  <1>6. AtStep'
    BY <1>2, <1>5 DEF AtStep, Forward, Ahead, SameShape, Dest, Shape
  <1>7. /\ \A p \in Paths \ writes' : p \notin Retired => disk[p] # NoContent
        /\ \A p \in writes' \cap Retired : disk[p] # NoContent
        /\ writes' \cap Retired # {} => ~RepositoryOn(disk)
    BY <1>2 DEF ToWrite, IsRepository
  <1>8. InCommit'
    <2>1. RepositoryOn(start)' = RepositoryOn(disk)
      BY <1>2 DEF RepositoryOn, SameShape
    <2>2. \A k \in DOMAIN Order : k > 0 /\ ~(k < 1)
      BY DEF Shape
    <2>. QED BY <1>1, <1>2, <1>3, <1>7, <2>1, <2>2 DEF InCommit, Types, SameShape, Forward, Back, Ahead
  <1>. QED BY <1>2, <1>4, <1>6, <1>8 DEF Inv, Ended

\* In a step of the commit or of its undo, what holds of the other files goes on holding.
LEMMA OtherFiles ==
    ASSUME Inv, Shape, SameShape, Committing, next \in DOMAIN Order,
           UNCHANGED <<touched, writes, new, start>>,
           disk' \in [Paths -> Nat], prev' \in [Paths -> Nat],
           \A p \in Paths \ {Dest} :
               /\ disk'[p] = disk[p] /\ prev'[p] = prev[p]
               /\ (p \in moved' <=> p \in moved) /\ (p \in placed' <=> p \in placed)
               /\ pending' # pending => pending' # {} /\ (p \in pending => p \in pending')
    PROVE  \A k \in DOMAIN Order : k # next =>
               /\ AsJournalled(Order[k]) => AsJournalled(Order[k])'
               /\ Passed(Order[k]) => Passed(Order[k])'
               /\ Ahead(Order[k]) => Ahead(Order[k])'
               /\ Undone(Order[k]) => Undone(Order[k])'
  <1> TAKE k \in DOMAIN Order
  <1> HAVE k # next
  <1>1. Order[k] \in Paths \ {Dest} /\ Order[k]' = Order[k]
    BY DEF Shape, SameShape, Dest
  <1> DEFINE p == Order[k]
  <1>2. p \in Paths \ {Dest} /\ p' = p /\ Content(p)' = Content(p)
    BY <1>1 DEF Content, SameShape
  <1> HIDE DEF p
  <1>3. AsJournalled(p) => AsJournalled(p)'
    BY <1>2 DEF AsJournalled
  <1>4. Passed(p) => Passed(p)'
    BY <1>2 DEF Passed, SameShape
  <1>5. Ahead(p) => Ahead(p)'
    BY <1>2 DEF Ahead
  <1>6. Undone(p) => Undone(p)'
    BY <1>2 DEF Undone
  <1>. QED BY <1>3, <1>4, <1>5, <1>6 DEF p

\* And so what holds of all files while a save is under way does, if it does where the step was.
LEMMA StaysInCommit ==
    ASSUME Inv, Shape, SameShape, Committing, Committing', next \in DOMAIN Order,
           UNCHANGED <<touched, writes, new, start>>,
           disk' \in [Paths -> Nat], prev' \in [Paths -> Nat],
           \A p \in Paths \ {Dest} :
               /\ disk'[p] = disk[p] /\ prev'[p] = prev[p]
               /\ (p \in moved' <=> p \in moved) /\ (p \in placed' <=> p \in placed)
               /\ pending' # pending => pending' # {} /\ (p \in pending => p \in pending'),
           Dest \in writes \/ disk'[Dest] = disk[Dest],
           (Forward /\ Forward') \/ (Back /\ Back'),
           \/ next' = next
           \/ /\ Forward /\ next' = next + 1
              /\ \A p \in Paths : p = Dest => Passed(p)' /\ AsJournalled(p)'
           \/ /\ Back /\ next' = next - 1
              /\ \A p \in Paths : p = Dest => Undone(p)'
    PROVE  InCommit'
  <1>1. InCommit /\ Types
    BY DEF Inv
  <1>2. RepositoryOn(start)' = RepositoryOn(start)
    BY DEF RepositoryOn, SameShape
  <1>3. \A p \in Paths \ writes : p \notin Retired => disk'[p] # NoContent
    BY <1>1 DEF InCommit
  <1>4. Dest' = Order[next'] /\ next \in Nat
    BY <1>1 DEF Dest, SameShape, Types
  <1>5. ASSUME NEW k \in DOMAIN Order
        PROVE  /\ k < next' => Passed(Order[k])' /\ AsJournalled(Order[k])'
               /\ Forward' /\ k > next' => Ahead(Order[k])'
               /\ Back' /\ k > next' => Undone(Order[k])'
    <2>1. k \in Nat
      BY DEF Shape
    <2>2. CASE k # next
      <3>1. /\ k < next => Passed(Order[k]) /\ AsJournalled(Order[k])
            /\ Forward /\ k > next => Ahead(Order[k])
            /\ Back /\ k > next => Undone(Order[k])
        BY <1>1 DEF InCommit
      <3>2. /\ AsJournalled(Order[k]) => AsJournalled(Order[k])'
            /\ Passed(Order[k]) => Passed(Order[k])'
            /\ Ahead(Order[k]) => Ahead(Order[k])'
            /\ Undone(Order[k]) => Undone(Order[k])'
        BY <2>2, OtherFiles
      <3>3. (k < next' => k < next) /\ (k > next' => k > next)
        BY <1>4, <2>1, <2>2
      <3>. QED BY <3>1, <3>2, <3>3 DEF Forward, Back
    <2>3. CASE k = next
      <3> DEFINE p == Order[k]
      <3>1. p \in Paths /\ p = Dest /\ p' = p
        BY <2>3 DEF Dest, SameShape, Shape
      <3> HIDE DEF p
      <3>2. (k < next' => Forward /\ next' = next + 1) /\ (k > next' => Back /\ next' = next - 1)
        BY <1>4, <2>1, <2>3
      <3>3. /\ k < next' => Passed(p)' /\ AsJournalled(p)'
            /\ k > next' => Undone(p)'
        <4>1. CASE k < next'
          BY <1>4, <2>1, <2>3, <3>1, <3>2, <4>1 DEF Forward, Back, Passed, AsJournalled, Content
        <4>2. CASE k > next'
          BY <1>4, <2>1, <2>3, <3>1, <3>2, <4>2 DEF Forward, Back, Undone
        <4>. QED BY <4>1, <4>2, <3>2, <1>4, <2>1
      <3>. QED BY <3>2, <3>3 DEF p, Forward, Back
    <2>. QED BY <2>2, <2>3
  <1>. QED BY <1>1, <1>2, <1>3, <1>5 DEF InCommit, SameShape

\* It looks whether the next destination exists
LEMMA Looks == ASSUME Inv, Shape, Look, SameShape PROVE Inv'
  <1>1. Types /\ AtStep /\ InCommit /\ Forward /\ next <= Len(Order) /\ next > 0 /\ next \in Nat
    BY DEF Inv, Look, Committing, Forward, AtStep, Types
  <1>2. UNCHANGED <<disk, prev, touched, writes, moved, placed, new, pending, start, fresh>>
    BY DEF Look, save, counts
  <1>3. next \in DOMAIN Order /\ Dest \in Paths /\ Ahead(Dest) /\ AsJournalled(Dest)
    BY <1>1 DEF Shape, Dest, AtStep, Look
  <1>4. /\ phase' \in {"look", "aside", "place"}
        /\ \/ Dest \in writes /\ next' = next /\ phase' \in {"aside", "place"}
              /\ (phase' = "aside" <=> disk[Dest] # NoContent)
           \/ Dest \notin writes /\ next' = next + 1 /\ phase' = "look"
    BY DEF Look
  <1>5. Types' /\ \A p \in Paths : AsJournalled(p)' /\ (Ahead(p)' <=> Ahead(p)) /\ (Passed(p)' <=> Passed(p))
    BY <1>1, <1>2, <1>4 DEF Types, SameShape, AtStep, AsJournalled, Ahead, Passed, Content
  <1>6. Forward'
    BY <1>4 DEF Forward
  <1>7. AtStep'
    <2>1. CASE next' = next
      <3>1. Dest' = Dest /\ Dest \in writes
        BY <1>4, <2>1, <1>1 DEF Dest, SameShape
      <3>2. ASSUME phase' = "place"
            PROVE  Dest \notin Retired /\ start[Dest] = NoContent
        BY <1>1, <1>3, <1>4, <2>1, <3>1, <3>2 DEF Ahead, AsJournalled, InCommit
      <3>. QED BY <1>1, <1>2, <1>3, <1>4, <1>5, <1>6, <2>1, <3>1, <3>2 DEF AtStep, SameShape, Ahead, Shape
    <2>2. CASE next' = next + 1 /\ phase' = "look"
      <3>1. next' <= Len(Order) => Ahead(Order[next'])
        BY <1>1, <2>2 DEF InCommit, Shape
      <3>2. next' <= Len(Order) => Ahead(Dest)'
        BY <1>2, <3>1 DEF Ahead, Dest, SameShape
      <3>. QED BY <1>1, <1>5, <1>6, <2>2, <3>2 DEF AtStep, SameShape
    <2>. QED BY <1>1, <1>4, <2>1, <2>2
  <1>8. InCommit'
    <2>1. disk' \in [Paths -> Nat] /\ prev' \in [Paths -> Nat] /\ Committing'
      BY <1>1, <1>2, <1>4 DEF Types, Committing
    <2>2. Dest \notin writes => \A p \in Paths : p = Dest => Passed(p)' /\ AsJournalled(p)'
      BY <1>2, <1>5 DEF Passed
    <2>. QED BY <1>1, <1>2, <1>3, <1>4, <1>6, <2>1, <2>2, StaysInCommit DEF Look, Committing
  <1>9. Ended'
    BY <1>4 DEF Ended
  <1>. QED BY <1>5, <1>7, <1>8, <1>9 DEF Inv

\* What is at its place is set aside.
LEMMA Asides == ASSUME Inv, Shape, Aside, SameShape PROVE Inv'
  <1>1. /\ Types /\ AtStep /\ InCommit /\ Forward /\ Committing
        /\ next \in DOMAIN Order /\ next \in Nat /\ next > 0 /\ next <= Len(Order)
    <2>1. Types /\ AtStep /\ InCommit /\ Forward /\ Committing
      BY DEF Inv, Aside, Committing, Forward
    <2>2. next \in Nat /\ next > 0 /\ next <= Len(Order)
      BY <2>1 DEF Aside, AtStep, Types
    <2>. QED BY <2>1, <2>2 DEF Shape
  <1>2. /\ Dest \in writes /\ Dest \in Paths /\ Ahead(Dest) /\ AsJournalled(Dest)
        /\ disk[Dest] # NoContent
    BY <1>1 DEF Aside, AtStep, Types
  <1>3. /\ UNCHANGED <<touched, writes, placed, new, pending, start, fresh>>
        /\ prev' = [prev EXCEPT ![Dest] = disk[Dest]] /\ disk' = [disk EXCEPT ![Dest] = NoContent]
        /\ moved' = moved \cup {Dest}
        /\ \/ Dest \in Retired /\ phase' = "look" /\ next' = next + 1
           \/ Dest \notin Retired /\ phase' = "place" /\ next' = next
    BY DEF Aside, counts
  <1>4. disk' \in [Paths -> Nat] /\ prev' \in [Paths -> Nat] /\ Forward' /\ Committing'
    BY <1>1, <1>2, <1>3 DEF Types, NoContent, Forward, Committing
  <1>5. Types'
    BY <1>1, <1>2, <1>3, <1>4 DEF Types, SameShape
  <1>6. \A p \in Paths : p = Dest => /\ AsJournalled(p)' /\ p \in moved' /\ p \notin placed'
    BY <1>1, <1>2, <1>3 DEF AsJournalled, Ahead, Types
  <1>7. InCommit'
    <2>1. \A p \in Paths : p = Dest /\ p \in Retired => Passed(p)'
      BY <1>6, <1>3 DEF Passed, SameShape
    <2>. QED BY <1>1, <1>2, <1>3, <1>4, <1>6, <2>1, StaysInCommit DEF Types
  <1>8. \A p \in Paths : AsJournalled(p)'
    <2>1. ASSUME NEW p \in Paths, p # Dest PROVE AsJournalled(p)'
      BY <1>1, <1>2, <1>3, <2>1 DEF AtStep, AsJournalled, Types, Content, SameShape
    <2>. QED BY <1>6, <2>1
  <1>9. AtStep'
    <2>1. CASE phase' = "look" /\ next' = next + 1
      <3>1. next' <= Len(Order) => next' \in DOMAIN Order /\ next' > next /\ Order[next'] # Dest
                                   /\ Order[next'] \in Paths
        BY <1>1, <2>1 DEF Shape, Dest
      <3>2. next' <= Len(Order) => Order[next'] \notin moved \cup placed
        BY <1>1, <3>1 DEF InCommit, Ahead
      <3>3. next' <= Len(Order) => Ahead(Dest)'
        BY <1>3, <3>1, <3>2 DEF Ahead, Dest, SameShape
      <3>. QED BY <1>1, <1>4, <1>8, <2>1, <3>3 DEF AtStep, SameShape, Shape
    <2>2. CASE phase' = "place" /\ next' = next /\ Dest \notin Retired
      <3>1. Dest' = Dest
        BY <2>2 DEF Dest, SameShape
      <3>. QED BY <1>1, <1>2, <1>3, <1>4, <1>6, <1>8, <2>2, <3>1 DEF AtStep, SameShape, Shape
    <2>. QED BY <1>3, <2>1, <2>2
  <1>. QED BY <1>3, <1>5, <1>7, <1>9 DEF Inv, Ended

\* The new file gets to its place.
LEMMA Places == ASSUME Inv, Shape, Place, SameShape PROVE Inv'
  <1>1. /\ Types /\ AtStep /\ InCommit /\ Forward /\ Committing
        /\ next \in DOMAIN Order /\ next \in Nat /\ next > 0 /\ next <= Len(Order)
    <2>1. Types /\ AtStep /\ InCommit /\ Forward /\ Committing
      BY DEF Inv, Place, Committing, Forward
    <2>2. next \in Nat /\ next > 0 /\ next <= Len(Order)
      BY <2>1 DEF Place, AtStep, Types
    <2>. QED BY <2>1, <2>2 DEF Shape
  <1>2. /\ Dest \in writes /\ Dest \in Paths /\ AsJournalled(Dest) /\ Dest \notin Retired
        /\ Dest \notin placed /\ (Dest \notin moved => start[Dest] = NoContent)
    BY <1>1 DEF Place, AtStep, Types
  <1>3. /\ UNCHANGED <<touched, writes, moved, prev, new, pending, start, fresh>>
        /\ disk' = [disk EXCEPT ![Dest] = Content(Dest)] /\ placed' = placed \cup {Dest}
        /\ phase' = "look" /\ next' = next + 1
    BY DEF Place, counts
  <1>4. Content(Dest) # NoContent /\ Content(Dest) \in Nat
    BY <1>1 DEF InCommit, Content, RunContent, NoContent, FirstFresh, Types
  <1>5. disk' \in [Paths -> Nat] /\ prev' \in [Paths -> Nat] /\ Forward' /\ Committing'
    BY <1>1, <1>2, <1>3, <1>4 DEF Types, Forward, Committing
  <1>6. Types'
    BY <1>1, <1>2, <1>3, <1>5 DEF Types, SameShape
  <1>7. \A p \in Paths : p = Dest => AsJournalled(p)' /\ Passed(p)'
    <2>1. ASSUME NEW p \in Paths, p = Dest PROVE AsJournalled(p)' /\ Passed(p)'
      <3>1. /\ AsJournalled(p) /\ (p \notin moved => start[p] = NoContent)
            /\ Content(p) # NoContent /\ Content(p)' = Content(p) /\ disk'[p] = Content(p)
            /\ p \in placed' /\ p \notin placed
        BY <1>1, <1>2, <1>3, <1>4, <2>1 DEF Types, Content, SameShape
      <3>. QED BY <1>3, <3>1 DEF AsJournalled, Passed
    <2>. QED BY <2>1
  <1>8. InCommit'
    BY <1>1, <1>2, <1>3, <1>5, <1>7, StaysInCommit DEF Types
  <1>9. \A p \in Paths : AsJournalled(p)'
    <2>1. ASSUME NEW p \in Paths, p # Dest PROVE AsJournalled(p)'
      BY <1>1, <1>2, <1>3, <2>1 DEF AtStep, AsJournalled, Types, Content, SameShape
    <2>. QED BY <1>7, <2>1
  <1>10. AtStep'
    <2>1. next' <= Len(Order) => next' \in DOMAIN Order /\ next' > next /\ Order[next'] # Dest
                                 /\ Order[next'] \in Paths
      BY <1>1, <1>3 DEF Shape, Dest
    <2>2. next' <= Len(Order) => Order[next'] \notin moved \cup placed
      BY <1>1, <2>1 DEF InCommit, Ahead
    <2>3. next' <= Len(Order) => Ahead(Dest)'
      BY <1>3, <2>1, <2>2 DEF Ahead, Dest, SameShape
    <2>. QED BY <1>1, <1>3, <1>5, <1>9, <2>3 DEF AtStep, SameShape, Shape
  <1>. QED BY <1>3, <1>6, <1>8, <1>10 DEF Inv, Ended

\* The commit is complete.
LEMMA Cleans == ASSUME Inv, Shape, Clean, SameShape PROVE Inv'
  <1>1. Types /\ AtStep /\ InCommit /\ Forward /\ next \in Nat /\ next > Len(Order)
    BY DEF Inv, Clean, Committing, Forward, Types
  <1>2. /\ UNCHANGED <<folder, disk, touched, writes, moved, placed, new, pending, start, fresh>>
        /\ prev' = [p \in Paths |-> NoContent] /\ phase' = "remember" /\ next' = 1
    BY DEF Clean, save, counts
  <1>3. Types'
    BY <1>1, <1>2 DEF Types, SameShape, NoContent
  <1>4. ASSUME NEW p \in writes \ touched
        PROVE  disk[p] = IF p \in Retired THEN NoContent ELSE Content(p)
    <2>1. PICK k \in DOMAIN Order : p = Order[k]
      BY <1>1 DEF Shape, Types
    <2>2. k \in Nat /\ k < next
      BY <1>1 DEF Shape
    <2>3. Passed(p) /\ AsJournalled(p)
      BY <1>1, <2>1, <2>2 DEF InCommit
    <2>. QED BY <1>1, <2>3 DEF Passed, AsJournalled, Types
  <1>5. Ended'
    BY <1>2, <1>4 DEF Ended, Content, SameShape
  <1>. QED BY <1>2, <1>3, <1>5 DEF Inv, Committing

\* A rename fails.
LEMMA Fails == ASSUME Inv, Shape, Fail, SameShape PROVE Inv'
  <1>1. Types /\ AtStep /\ InCommit /\ Forward /\ next \in Nat /\ phase \in {"aside", "place"}
    BY DEF Inv, Fail, Committing, Forward, Types
  <1>2. next > 0 /\ next <= Len(Order) /\ next \in DOMAIN Order /\ \A p \in Paths : AsJournalled(p)
    BY <1>1 DEF AtStep, Shape
  <1>3. /\ UNCHANGED <<disk, prev, next, touched, writes, moved, placed, new, pending, start, fresh>>
        /\ phase' = "unplace"
    BY DEF Fail, save
  <1>4. Types'
    BY <1>1, <1>3 DEF Types, SameShape
  <1>5. \A p \in Paths : /\ AsJournalled(p)' /\ (Passed(p)' <=> Passed(p))
                         /\ (Ahead(p) => Undone(p)')
    BY <1>2, <1>3 DEF AsJournalled, Passed, Ahead, Undone, Content, SameShape
  <1>6. Back' /\ ~Forward' /\ ~Back
    BY <1>1, <1>3 DEF Back, Forward
  <1>7. AtStep'
    <2>1. \A p \in Paths : p = Dest => AsJournalled(p)'
      BY <1>5
    <2>2. Dest' = Dest /\ Dest \in Paths
      BY <1>2, <1>3 DEF Dest, SameShape, Shape
    <2>3. AsJournalled(Dest)'
      BY <1>2, <1>3, <2>2 DEF AsJournalled, Content, SameShape
    <2>. QED BY <1>2, <1>3, <1>6, <2>3 DEF AtStep, SameShape, Shape
  <1>8. InCommit'
    <2>1. RepositoryOn(start)' = RepositoryOn(start)
      BY <1>3 DEF RepositoryOn, SameShape
    <2>2. ASSUME NEW k \in DOMAIN Order
          PROVE  /\ k < next' => Passed(Order[k])' /\ AsJournalled(Order[k])'
                 /\ k > next' => Undone(Order[k])'
      <3> DEFINE p == Order[k]
      <3>1. p \in Paths /\ p' = p
        BY DEF Shape, SameShape
      <3>2. (k < next => Passed(p)) /\ (k > next => Ahead(p))
        BY <1>1 DEF InCommit
      <3> HIDE DEF p
      <3>3. (k < next' => Passed(p)' /\ AsJournalled(p)') /\ (k > next' => Undone(p)')
        BY <1>2, <1>3, <3>1, <3>2 DEF AsJournalled, Passed, Ahead, Undone, Content, SameShape
      <3>. QED BY <3>3 DEF p
    <2>. QED BY <1>1, <1>3, <1>6, <2>1, <2>2 DEF InCommit, SameShape
  <1>. QED BY <1>3, <1>4, <1>7, <1>8 DEF Inv, Ended

\* What the undo needs to know of the file it is at
LEMMA AtUndo ==
    ASSUME Inv, Shape, Back, next > 0
    PROVE  /\ Types /\ AtStep /\ InCommit /\ Committing
           /\ next \in DOMAIN Order /\ next \in Nat /\ next <= Len(Order) /\ Dest \in Paths
           /\ phase = "unplace" => AsJournalled(Dest)
           /\ phase = "restore" => HalfUndone(Dest)
           /\ Dest \in moved \cup placed => Dest \in writes
           /\ Dest \notin writes => Dest \notin moved \cup placed
  <1>1. Types /\ AtStep /\ InCommit /\ Committing
    BY DEF Inv, Back, Committing
  <1>2. next \in Nat /\ next <= Len(Order)
    BY <1>1 DEF Back, AtStep, Types
  <1>3. next \in DOMAIN Order /\ Dest \in Paths
    BY <1>2 DEF Dest, Shape
  <1>4. (phase = "unplace" => AsJournalled(Dest)) /\ (phase = "restore" => HalfUndone(Dest))
    BY <1>1 DEF AtStep
  <1>. QED BY <1>1, <1>2, <1>3, <1>4 DEF Types

\* The undo goes on to the file before.
LEMMA OneDown ==
    ASSUME Inv, Shape, SameShape, Back, next > 0, next' = next - 1, phase' = "unplace",
           \A k \in DOMAIN Order : k # next => (AsJournalled(Order[k]) => AsJournalled(Order[k])')
    PROVE  AtStep'
  <1>1. next \in DOMAIN Order /\ next \in Nat /\ next <= Len(Order)
    BY AtUndo
  <1>2. next' > 0 => next' \in DOMAIN Order /\ next' < next
    BY <1>1 DEF Shape
  <1>3. ASSUME NEW k \in DOMAIN Order, k = next' PROVE AsJournalled(Order[k])'
    <2>1. AsJournalled(Order[k])
      BY <1>1, <1>2, <1>3, AtUndo DEF InCommit
    <2>. QED BY <1>1, <1>3, <2>1
  <1>4. next' > 0 => AsJournalled(Dest)'
    BY <1>2, <1>3 DEF Dest, SameShape, AsJournalled, Content
  <1>. QED BY <1>1, <1>4 DEF AtStep, SameShape, Shape, Forward

\* What was placed is taken away again.
LEMMA Unplaces == ASSUME Inv, Shape, Unplace, SameShape PROVE Inv'
  <1>1. Back /\ next > 0 /\ phase = "unplace"
    BY DEF Unplace, Back
  <1>2. /\ Types /\ AtStep /\ InCommit /\ Committing
        /\ next \in DOMAIN Order /\ next \in Nat /\ next <= Len(Order) /\ Dest \in Paths
        /\ AsJournalled(Dest) /\ (Dest \in moved \cup placed => Dest \in writes)
    BY <1>1, AtUndo
  <1>3. /\ UNCHANGED <<prev, next, touched, writes, moved, placed, new, pending, start, fresh>>
        /\ disk' = IF Dest \in placed THEN [disk EXCEPT ![Dest] = NoContent] ELSE disk
        /\ phase' = "restore"
    BY DEF Unplace, save, counts
  <1>4. disk' \in [Paths -> Nat] /\ prev' \in [Paths -> Nat] /\ Back' /\ Committing' /\ ~Forward'
    BY <1>2, <1>3 DEF Types, NoContent, Back, Committing, Forward
  <1>5. Types'
    BY <1>2, <1>3, <1>4 DEF Types, SameShape
  <1>6. InCommit'
    BY <1>1, <1>2, <1>3, <1>4, StaysInCommit DEF Types
  <1>7. HalfUndone(Dest)'
    <2>1. Dest' = Dest
      BY <1>3 DEF Dest, SameShape
    <2>. QED BY <1>2, <1>3, <2>1 DEF HalfUndone, AsJournalled, Types
  <1>8. AtStep'
    BY <1>1, <1>2, <1>3, <1>4, <1>7 DEF AtStep, SameShape
  <1>. QED BY <1>3, <1>5, <1>6, <1>8 DEF Inv, Ended

\* What was set aside is put back.
LEMMA Restores == ASSUME Inv, Shape, Restore, SameShape PROVE Inv'
  <1>1. Back /\ next > 0 /\ phase = "restore"
    <2>1. Back /\ phase = "restore"
      BY DEF Restore, Back
    <2>. QED BY <2>1 DEF Inv, AtStep, Back, Committing
  <1>2. /\ Types /\ AtStep /\ InCommit /\ Committing
        /\ next \in DOMAIN Order /\ next \in Nat /\ next <= Len(Order) /\ Dest \in Paths
        /\ HalfUndone(Dest) /\ (Dest \in moved \cup placed => Dest \in writes)
    BY <1>1, AtUndo
  <1>3. /\ UNCHANGED <<touched, writes, moved, placed, new, pending, start, fresh>>
        /\ IF Dest \in moved
           THEN /\ disk' = [disk EXCEPT ![Dest] = prev[Dest]]
                /\ prev' = [prev EXCEPT ![Dest] = NoContent]
           ELSE UNCHANGED <<disk, prev>>
        /\ phase' = "unplace" /\ next' = next - 1
    BY DEF Restore, save, counts
  <1>4. disk' \in [Paths -> Nat] /\ prev' \in [Paths -> Nat] /\ Back' /\ Committing'
    <2>1. prev[Dest] \in Nat /\ NoContent \in Nat
      BY <1>2 DEF Types, NoContent
    <2>2. disk' \in [Paths -> Nat] /\ prev' \in [Paths -> Nat]
      BY <1>2, <1>3, <2>1 DEF Types
    <2>. QED BY <1>3, <2>2 DEF Back, Committing
  <1>5. Types'
    BY <1>1, <1>2, <1>3, <1>4 DEF Types, SameShape
  <1>6. \A p \in Paths : p = Dest => Undone(p)'
    BY <1>2, <1>3 DEF Undone, HalfUndone, Types
  <1>7. InCommit'
    BY <1>1, <1>2, <1>3, <1>4, <1>6, StaysInCommit DEF Types
  <1>8. \A k \in DOMAIN Order : k # next => (AsJournalled(Order[k]) => AsJournalled(Order[k])')
    BY <1>2, <1>3, <1>4, OtherFiles DEF Types
  <1>9. AtStep'
    BY <1>1, <1>3, <1>8, OneDown
  <1>. QED BY <1>3, <1>5, <1>7, <1>9 DEF Inv, Ended

\* One of the two fails, and the undo goes on.
LEMMA UndosFail == ASSUME Inv, Shape, UndoFails, SameShape PROVE Inv'
  <1>1. /\ Back /\ next > 0
        /\ \/ phase = "unplace" /\ Dest \in placed
           \/ phase = "restore" /\ Dest \in moved
    <2>1. /\ Back
          /\ \/ phase = "unplace" /\ next > 0 /\ Dest \in placed
             \/ phase = "restore" /\ Dest \in moved
      BY DEF UndoFails, Back
    <2>. QED BY <2>1 DEF Inv, AtStep, Back, Committing
  <1>2. /\ Types /\ AtStep /\ InCommit /\ Committing
        /\ next \in DOMAIN Order /\ next \in Nat /\ next <= Len(Order) /\ Dest \in Paths
        /\ (phase = "unplace" => AsJournalled(Dest)) /\ (phase = "restore" => HalfUndone(Dest))
    BY <1>1, AtUndo
  <1>3. /\ UNCHANGED <<disk, prev, touched, writes, moved, placed, new, start, fresh>>
        /\ pending' = pending \cup {Dest} /\ phase' = "unplace" /\ next' = next - 1
    BY DEF UndoFails
  <1>4. disk' \in [Paths -> Nat] /\ prev' \in [Paths -> Nat] /\ Back' /\ Committing'
    BY <1>2, <1>3 DEF Types, Back, Committing
  <1>5. Types'
    BY <1>1, <1>2, <1>3, <1>4 DEF Types, SameShape
  <1>6. \A p \in Paths : p = Dest => Undone(p)'
    BY <1>1, <1>2, <1>3 DEF Undone, HalfUndone, AsJournalled, Types
  <1>7. InCommit'
    BY <1>1, <1>2, <1>3, <1>4, <1>6, StaysInCommit DEF Types
  <1>8. \A k \in DOMAIN Order : k # next => (AsJournalled(Order[k]) => AsJournalled(Order[k])')
    BY <1>2, <1>3, <1>4, OtherFiles DEF Types
  <1>9. AtStep'
    BY <1>1, <1>3, <1>8, OneDown
  <1>. QED BY <1>3, <1>5, <1>7, <1>9 DEF Inv, Ended

\* The undo is through.
LEMMA RollsBack == ASSUME Inv, Shape, RolledBack, SameShape PROVE Inv'
  <1>1. Types /\ InCommit /\ Back /\ next = 0
    BY DEF Inv, RolledBack, Back, Committing
  <1>2. /\ UNCHANGED <<disk, prev, next, touched, writes, moved, placed, new, pending, start, fresh>>
        /\ phase' = IF pending = {} THEN "failed" ELSE "recovery"
    BY DEF RolledBack, save, counts
  <1>3. Types'
    BY <1>1, <1>2 DEF Types, SameShape
  <1>4. ASSUME NEW p \in Paths PROVE Undone(p)
    <2>1. PICK k \in DOMAIN Order : p = Order[k]
      BY DEF Shape
    <2>. QED BY <1>1, <2>1 DEF InCommit, Shape
  <1>5. Ended'
    BY <1>2, <1>4 DEF Ended, Undone, SameShape
  <1>. QED BY <1>2, <1>3, <1>5 DEF Inv, Committing

\* Another program writes a file; nothing is claimed of that file any more, but that it is there.
LEMMA Edits == ASSUME Inv, Shape, Edit, SameShape PROVE Inv'
  <1>1. PICK e \in Paths : /\ WasRepository \/ e # Manifest
                          /\ disk' = [disk EXCEPT ![e] = fresh] /\ touched' = touched \cup {e}
    BY DEF Edit, Shape
  <1>2. /\ UNCHANGED <<prev, phase, next, writes, moved, placed, new, pending, start>>
        /\ fresh' = fresh + 1 /\ phase # "torn"
    BY DEF Edit, save
  <1>3. Types /\ fresh \in Nat /\ fresh # NoContent
    BY DEF Inv, Types, NoContent, FirstFresh
  <1>4. disk' \in [Paths -> Nat] /\ Types'
    BY <1>1, <1>2, <1>3 DEF Types, SameShape, FirstFresh
  <1>5. ASSUME NEW p \in Paths
        PROVE  /\ AsJournalled(p) => AsJournalled(p)'
               /\ Passed(p) => Passed(p)'
               /\ Ahead(p) => Ahead(p)'
               /\ HalfUndone(p) => HalfUndone(p)'
               /\ Undone(p) => Undone(p)'
               /\ disk[p] # NoContent => disk'[p] # NoContent
               /\ p \notin touched' => p \notin touched /\ disk'[p] = disk[p]
    <2>1. /\ disk[p] # NoContent => disk'[p] # NoContent
          /\ p \notin touched' => p \notin touched /\ disk'[p] = disk[p]
      BY <1>1, <1>3 DEF Types
    <2>2. Content(p)' = Content(p)
      BY <1>2 DEF Content, SameShape
    <2>. QED BY <1>2, <2>1, <2>2 DEF AsJournalled, Passed, Ahead, HalfUndone, Undone, SameShape
  <1>6. Ended'
    <2>1. \A p \in Paths : Content(p)' = Content(p)
      BY <1>2 DEF Content, SameShape
    <2>2. phase = "failed" => \A p \in Paths \ touched' : disk'[p] = start[p]
      BY <1>5 DEF Inv, Ended
    <2>3. phase = "recovery" => \A p \in Paths : Undone(p)'
      BY <1>5 DEF Inv, Ended
    <2>4. phase \in {"remember", "saved"} =>
             \A p \in writes \ touched' : disk'[p] = IF p \in Retired THEN NoContent ELSE Content(p)
      BY <1>3, <1>5 DEF Inv, Ended, Types
    <2>. QED BY <1>2, <1>3, <2>1, <2>2, <2>3, <2>4 DEF Ended, SameShape, Types
  <1>7. ASSUME Committing PROVE AtStep' /\ InCommit'
    <2>1. AtStep /\ InCommit
      BY <1>7 DEF Inv
    <2>2. Dest' = Dest /\ Forward' = Forward /\ Back' = Back
      BY <1>2 DEF Dest, SameShape, Forward, Back
    <2>3. next > 0 /\ next <= Len(Order) => Dest \in Paths
      <3>1. next \in Nat
        BY <1>3 DEF Types
      <3>2. next > 0 /\ next <= Len(Order) => next \in DOMAIN Order
        BY <3>1 DEF Shape
      <3>. QED BY <3>2 DEF Shape, Dest
    <2>4. AtStep'
      <3>1. Dest \in Paths => /\ AsJournalled(Dest) => AsJournalled(Dest)'
                              /\ Ahead(Dest) => Ahead(Dest)'
                              /\ HalfUndone(Dest) => HalfUndone(Dest)'
                              /\ disk[Dest] # NoContent => disk'[Dest] # NoContent
        BY <1>2, <1>5, <2>2 DEF AsJournalled, Ahead, HalfUndone, Content, SameShape
      <3>2. Forward => \A p \in Paths : AsJournalled(p)'
        BY <1>5, <2>1 DEF AtStep
      <3>3. next > 0 /\ next <= Len(Order) /\ AsJournalled(Dest) => AsJournalled(Dest)'
        BY <2>3, <3>1
      <3>. QED BY <1>2, <1>3, <2>1, <2>2, <2>3, <3>1, <3>2 DEF AtStep, SameShape, Types, Forward, Shape
    <2>5. InCommit'
      <3>1. RepositoryOn(start)' = RepositoryOn(start)
        BY <1>2 DEF RepositoryOn, SameShape
      <3>2. ASSUME NEW k \in DOMAIN Order
            PROVE  /\ k < next' => Passed(Order[k])' /\ AsJournalled(Order[k])'
                   /\ Forward' /\ k > next' => Ahead(Order[k])'
                   /\ Back' /\ k > next' => Undone(Order[k])'
        <4> DEFINE p == Order[k]
        <4>1. p \in Paths /\ p' = p
          BY DEF Shape, SameShape
        <4>2. /\ k < next => Passed(p) /\ AsJournalled(p)
              /\ Forward /\ k > next => Ahead(p)
              /\ Back /\ k > next => Undone(p)
          BY <2>1 DEF InCommit
        <4> HIDE DEF p
        <4>3. /\ k < next => Passed(p)' /\ AsJournalled(p)'
              /\ Forward /\ k > next => Ahead(p)'
              /\ Back /\ k > next => Undone(p)'
          BY <1>5, <4>1, <4>2
        <4>. QED BY <1>2, <2>2, <4>3 DEF p
      <3>3. \A p \in Paths \ writes : p \notin Retired => disk'[p] # NoContent
        BY <1>5, <2>1 DEF InCommit
      <3>. QED BY <1>2, <2>1, <3>1, <3>2, <3>3 DEF InCommit, SameShape
    <2>. QED BY <2>4, <2>5
  <1>. QED BY <1>2, <1>4, <1>6, <1>7 DEF Inv, Committing

\* The process dies.
LEMMA Crashes == ASSUME Inv, Shape, Crash, SameShape PROVE Inv'
  <1>1. /\ UNCHANGED <<folder, disk, prev, next, touched, writes, moved, placed, new, pending, start, fresh>>
        /\ phase' = (IF Committing THEN "torn" ELSE "dead")
    BY DEF Crash, save
  <1>2. Types'
    BY <1>1 DEF Inv, Types, SameShape
  <1>3. ASSUME Committing
        PROVE  OldContentSurvives' /\ FirstSaveIsCrashSafe'
    <2>1. \A p \in writes \ touched : start[p] # NoContent => start[p] \in {disk[p], prev[p]}
      BY <1>3, MidwaySurvives DEF OldContentSurvives
    <2>2. writes \cap Retired # {} /\ ReadableOn(start) /\ pending = {} => Readable
      BY <1>3, MidwayReadable
    <2>3. Readable' = Readable /\ ReadableOn(start)' = ReadableOn(start)
      BY <1>1 DEF Readable, ReadableOn, Needed, RepositoryOn, SameShape
    <2>. QED BY <1>1, <2>1, <2>2, <2>3 DEF OldContentSurvives, FirstSaveIsCrashSafe,
                                           CrashLeavesProject, SameShape
  <1>. QED BY <1>1, <1>2, <1>3 DEF Inv, Ended, Committing

\* Every step keeps the invariant
LEMMA Steps == ASSUME FolderAssumption, Inv, [Next]_vars PROVE Inv'
  <1>1. Shape /\ SameShape
    BY FolderShape, SameFolder DEF Inv, Types
  <1>2. CASE UNCHANGED vars
    <2>1. UNCHANGED <<folder, disk, prev, phase, next, touched, writes, moved, placed, new,
                      pending, start, fresh>>
      BY <1>2 DEF vars, save, counts
    <2>2. AtStep' = AtStep /\ InCommit' = InCommit /\ Committing' = Committing
      BY <2>1 DEF AtStep, InCommit, Committing, Forward, Back, AsJournalled, Passed, Ahead,
             HalfUndone, Undone, Dest, Order, Paths, Runs, Retired, Content, RepositoryOn,
             WasRepository, Before
    <2>3. Types' = Types
      BY <2>1 DEF Types, Paths, Order, Retired, WasRepository
    <2>4. Ended' = Ended
      BY <2>1 DEF Ended, Undone, Paths, Order, Retired, Content, Runs, OldContentSurvives,
             Committing, FirstSaveIsCrashSafe, CrashLeavesProject, Readable, ReadableOn, Needed,
             RepositoryOn, WasRepository, Before
    <2>. QED BY <2>2, <2>3, <2>4 DEF Inv
  <1>3. CASE Open \/ Read \/ Snapshot \/ Refuse \/ Remember
    BY <1>3, Reads
  <1>. QED BY <1>1, <1>2, <1>3, FailsEarly, Saves, Looks, Asides, Places, Cleans, Fails, Unplaces,
              Restores, UndosFail, RollsBack, Edits, Crashes DEF Next

\* The inductive invariant of the folder
LEMMA AlwaysInv == ASSUME FolderAssumption PROVE Spec => []Inv
  BY Starts, Steps, PTL DEF Spec

\* A save that reports success has written everything, and one that reports a plain failure
\* has left every file as it was (commitWithRollback).
THEOREM SavesAreAllOrNothing == ASSUME FolderAssumption PROVE Spec => []AllOrNothing
  <1>1. Inv => AllOrNothing
    BY DEF Inv, Ended, AllOrNothing, Types
  <1>. QED BY <1>1, AlwaysInv, PTL

\* Whichever rename or undo fails, and wherever the process dies, what a file held is at its
\* place or set aside, and lila-recovery.json names what is not at its place (rollbackCommit).
THEOREM NothingIsLost == ASSUME FolderAssumption PROVE Spec => []RecoveryIsPossible
  <1>1. Inv /\ Shape => RecoveryIsPossible
    BY MidwaySurvives DEF Inv, Ended, RecoveryIsPossible, PendingTellsAll, OldContentSurvives, Undone
  <1>2. Inv => RecoveryIsPossible
    BY <1>1, FolderShape DEF Inv, Types
  <1>. QED BY <1>2, AlwaysInv, PTL

\* The save that makes a version 1 folder a repository can die anywhere, and the folder can
\* still be opened (the order of the files in writeRepositoryFolder).
THEOREM FirstSaveSurvivesCrashes == ASSUME FolderAssumption PROVE Spec => []FirstSaveIsCrashSafe
  <1>1. Inv => FirstSaveIsCrashSafe
    BY DEF Inv, Ended, FirstSaveIsCrashSafe, CrashLeavesProject
  <1>. QED BY <1>1, AlwaysInv, PTL
=============================================================================
