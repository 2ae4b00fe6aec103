------------------------- MODULE ResourceManagerProofs -------------------------
(*****************************************************************************)
(* Theorems about the pool manager, for any pools, requests, capacities and   *)
(* bounds that satisfy the assumptions of ResourceManager.                    *)
(*****************************************************************************)
EXTENDS ResourceManager, FiniteSetTheorems, TLAPS

-----------------------------------------------------------------------------
(* Types *)

\* What TypeOK does not say of the entries: they name an alternative of their
\* request, and they are neither later than the clock nor than nextSeq.
WellFormed(e) == e.alt \in AltsOf(e.id) /\ e.seq < nextSeq /\ e.t <= clock

Typed ==
    /\ TypeOK
    /\ \A e \in queue : WellFormed(e)
    /\ \A r \in ready : WellFormed(r)
    /\ \A id \in Ids : status[id] = "active" => choice[id] \in AltsOf(id)

\* The demand of an alternative, and its class, are demands
LEMMA DemandType ==
    ASSUME NEW id \in Ids, NEW a \in AltsOf(id)
    PROVE  /\ Alternatives[id][a] \in Demand
           /\ ClassOf(Alternatives[id][a]) \in Demand
           /\ a \in Nat
  BY AlternativesAssumption DEF AltsOf, Demand, ClassOf

\* Classes are demands as well
LEMMA ClassesType ==
    /\ \A id \in Ids : ClassesOf(id) \subseteq Demand
    /\ \A P : ClassesOfPools(P) \subseteq Demand
  BY DemandType DEF ClassesOf, Classes, ClassesOfPools

\* Typed holds at first and is kept by every step
LEMMA TypedInit == Init => Typed
  BY BoundsAssumption, CapacityAssumption
  DEF Init, Typed, TypeOK, WellFormed, Instants

\* Every step keeps it
LEMMA TypedStep == Typed /\ [Next]_vars => Typed'
  <1> SUFFICES ASSUME Typed, [Next]_vars PROVE Typed'
    OBVIOUS
  <1> USE BoundsAssumption DEF Typed, TypeOK, WellFormed
  <1>1. ASSUME NEW id \in Ids, Enqueue(id) PROVE Typed'
    <2> DEFINE new == {[id |-> id, t |-> clock, seq |-> nextSeq, alt |-> a] : a \in AltsOf(id)}
    <2>1. queue' \subseteq Entry /\ \A e \in queue' : WellFormed(e)'
      <3>1. \A e \in new : e \in Entry /\ e.alt \in AltsOf(e.id)
                           /\ e.seq < nextSeq' /\ e.t <= clock'
        BY <1>1, DemandType DEF Enqueue, Entry, Instants
      <3>2. queue' = queue \cup new
        BY <1>1 DEF Enqueue
      <3>3. \A e \in queue : e \in Entry /\ e.alt \in AltsOf(e.id)
                           /\ e.seq < nextSeq' /\ e.t <= clock'
        BY <1>1 DEF Enqueue, Entry
      <3>. QED BY <3>1, <3>2, <3>3
    <2>2. \A r \in ready' : WellFormed(r)'
      BY <1>1 DEF Enqueue
    <2>3. dirty' \subseteq [Pools -> Nat]
      BY <1>1, ClassesType DEF Enqueue, Demand
    <2>4. nextSeq' \in 0 .. MaxSeq /\ status' \in [Ids -> {"absent", "queued", "active"}]
          /\ ticket' \in [Ids -> Nat]
      BY <1>1 DEF Enqueue
    <2>5. \A i \in Ids : status'[i] = "active" => choice'[i] \in AltsOf(i)
      BY <1>1 DEF Enqueue
    <2>. QED BY <1>1, <2>1, <2>2, <2>3, <2>4, <2>5 DEF Enqueue
  <1>2. ASSUME NEW S \in SUBSET Ids, Release(S) \/ Cancel(S) PROVE Typed'
    BY <1>2 DEF Release, Cancel
  <1>3. ASSUME NEW id \in Ids, Drop(id) PROVE Typed'
    <2>1. used' \in [Pools -> Int]
      <3>1. CASE status[id] = "active"
        BY <1>3, <3>1, DemandType DEF Drop, Demand
      <3>2. CASE status[id] # "active"
        BY <1>3, <3>2 DEF Drop
      <3>. QED BY <3>1, <3>2
    <2>2. dirty' \subseteq [Pools -> Nat]
      BY <1>3, ClassesType DEF Drop, Demand
    <2>3. /\ status' \in [Ids -> {"absent", "queued", "active"}]
          /\ ticket' \in [Ids -> Nat]
          /\ choice' \in [Ids -> Nat]
      BY <1>3 DEF Drop
    <2>4. \A i \in Ids : status'[i] = "active" => choice'[i] \in AltsOf(i)
      BY <1>3 DEF Drop
    <2>. QED BY <1>3, <2>1, <2>2, <2>3, <2>4 DEF Drop
  <1>4. ASSUME NEW p \in Pools, Refresh(p) PROVE Typed'
    BY <1>4, ClassesType DEF Refresh, Demand
  <1>5. ASSUME Evaluate PROVE Typed'
    <2>1. queue' \subseteq queue
      BY <1>5 DEF Evaluate
    <2>2. \A r \in ready' :
            /\ r \in [id : Ids, t : Instants, seq : Nat, alt : Nat, fresh : BOOLEAN]
            /\ WellFormed(r)
      <3> SUFFICES ASSUME NEW r \in ready'
                   PROVE  /\ r \in [id : Ids, t : Instants, seq : Nat, alt : Nat, fresh : BOOLEAN]
                          /\ WellFormed(r)
        OBVIOUS
      <3>1. CASE r \in ready
        BY <3>1
      <3>2. CASE \E s \in ready : r = Ready(s, FALSE)
        BY <1>5, <3>2 DEF Ready, Evaluate
      <3>3. CASE \E e \in queue : r = Ready(e, TRUE)
        BY <1>5, <3>3 DEF Ready, Entry, Evaluate
      <3>. QED BY <1>5, <3>1, <3>2, <3>3 DEF Evaluate
    <2>. QED BY <1>5, <2>1, <2>2 DEF Evaluate
  <1>6. ASSUME NEW r \in ready, Grant(r) PROVE Typed'
    <2>1. used' \in [Pools -> Int]
      BY <1>6, DemandType DEF Grant, DemandOf, Demand
    <2>2. dirty' \subseteq [Pools -> Nat]
      BY <1>6, ClassesType DEF Grant, MarkedByGrant, Demand
    <2>3. /\ status' \in [Ids -> {"absent", "queued", "active"}]
          /\ choice' \in [Ids -> Nat]
      BY <1>6 DEF Grant
    <2>4. \A i \in Ids : status'[i] = "active" => choice'[i] \in AltsOf(i)
      BY <1>6 DEF Grant
    <2>5. queue' \subseteq queue /\ ready' \subseteq ready
      BY <1>6 DEF Grant
    <2>. QED BY <1>6, <2>1, <2>2, <2>3, <2>4, <2>5 DEF Grant
  <1>7. ASSUME NEW r \in ready, Skip(r) PROVE Typed'
    BY <1>7 DEF Skip
  <1>8. CASE Tick
    BY <1>8 DEF Tick, Instants, Entry
  <1>9. CASE UNCHANGED vars
    BY <1>9 DEF vars
  <1>. QED BY <1>1, <1>2, <1>3, <1>4, <1>5, <1>6, <1>7, <1>8, <1>9 DEF Next

\* Every variable keeps its type.
THEOREM TypeCorrect == Spec => []TypeOK
  <1>1. Typed => TypeOK
    BY DEF Typed
  <1>. QED BY TypedInit, TypedStep, <1>1, PTL DEF Spec

\* The entries that wait and the ready heads name a declared alternative of their request,
\* and are neither later than the clock nor than nextSeq; an active request holds an
\* alternative it declares, so that this is what is freed (#grant, #free).
THEOREM AlwaysTyped == Spec => []Typed
  BY TypedInit, TypedStep, PTL DEF Spec

-----------------------------------------------------------------------------
(* Capacity *)

\* Units are only taken by Grant, which has just seen that they are there
LEMMA TakenUnits ==
    ASSUME Typed, [Next]_vars, NEW p \in Pools, used'[p] > used[p]
    PROVE  used'[p] <= CapacityAt[p][clock] /\ clock' = clock
  <1> USE DEF Typed, TypeOK, WellFormed
  <1>1. ASSUME NEW id \in Ids, Drop(id) PROVE FALSE
    <2>1. CASE status[id] = "active"
      <3>1. Alternatives[id][choice[id]][p] \in Nat
        BY <2>1, DemandType DEF Demand
      <3>2. used'[p] = used[p] - Alternatives[id][choice[id]][p]
        BY <1>1, <2>1 DEF Drop
      <3>. QED BY <3>1, <3>2
    <2>2. CASE status[id] # "active"
      BY <1>1, <2>2 DEF Drop
    <2>. QED BY <2>1, <2>2
  <1>2. ASSUME NEW r \in ready, Grant(r)
        PROVE  used'[p] <= CapacityAt[p][clock] /\ clock' = clock
    <2>1. DemandOf(r)[p] \in Nat
      BY DemandType DEF DemandOf, Demand
    <2>2. used'[p] = used[p] + DemandOf(r)[p] /\ clock' = clock
      BY <1>2 DEF Grant
    <2>3. p \in Asks(DemandOf(r))
      BY <2>1, <2>2 DEF Asks
    <2>4. CapacityAt[p][clock] - used[p] >= DemandOf(r)[p]
      BY <1>2, <2>3 DEF Grant, Grantable, CanGo, EntryOf, Satisfiable, DemandOf
    <2>5. CapacityAt[p][clock] \in Nat
      BY CapacityAssumption
    <2>. QED BY <2>1, <2>2, <2>4, <2>5
  <1>3. ASSUME UNCHANGED used PROVE FALSE
    BY <1>3
  <1>. QED
    BY <1>1, <1>2, <1>3
    DEF Next, vars, Enqueue, Release, Cancel, Refresh, Evaluate, Skip, Tick

\* A grant never takes a pool beyond the capacity of the instant of the grant,
\* and a fall of capacity takes nothing back.
THEOREM CapacityRespectedAtGrant == Spec => GrantsWithinCapacityNow
  <1>1. Typed /\ [Next]_vars =>
            [\A p \in Pools : used'[p] > used[p] => used'[p] <= CapacityAt[p][clock']]_vars
    BY TakenUnits
  <1>. QED BY AlwaysTyped, <1>1, PTL DEF Spec, GrantsWithinCapacityNow

\* Whatever rises and falls of capacity went by, the units in use of a pool
\* never exceed the ceiling of its week.
THEOREM CeilingRespected == Spec => []UsedWithinWeekCeiling
  <1>1. Init => UsedWithinWeekCeiling
    BY CapacityAssumption DEF Init, UsedWithinWeekCeiling
  <1>2. Typed /\ UsedWithinWeekCeiling /\ [Next]_vars => UsedWithinWeekCeiling'
    <2> SUFFICES ASSUME Typed, UsedWithinWeekCeiling, [Next]_vars, NEW p \in Pools
                 PROVE  used'[p] <= Capacity[p]
      BY DEF UsedWithinWeekCeiling
    <2>1. used[p] \in Int /\ used'[p] \in Int /\ Capacity[p] \in Nat
      BY TypedStep, CapacityAssumption DEF Typed, TypeOK
    <2>2. CASE used'[p] > used[p]
      <3>1. CapacityAt[p][clock] <= Capacity[p] /\ CapacityAt[p][clock] \in Nat
        BY CapacityAssumption DEF Typed, TypeOK
      <3>. QED BY <2>1, <2>2, <3>1, TakenUnits
    <2>3. CASE ~(used'[p] > used[p])
      BY <2>1, <2>3 DEF UsedWithinWeekCeiling
    <2>. QED BY <2>2, <2>3
  <1>. QED BY AlwaysTyped, <1>1, <1>2, PTL DEF Spec

-----------------------------------------------------------------------------
(* Queue entries *)

\* Entries of one request are told apart by their alternative and share its id
\* and instant; a higher seq never comes with an earlier instant.
Ordered ==
    /\ \A e, f \in queue : e.seq = f.seq => e.id = f.id /\ e.t = f.t
    /\ \A e, f \in queue : e.seq = f.seq /\ e.alt = f.alt => e = f
    /\ \A e, f \in queue : e.seq < f.seq => e.t <= f.t

\* A queued request has an entry under its seq for each alternative
Represented ==
    \A id \in Ids : status[id] = "queued" =>
        \A a \in AltsOf(id) :
            \E e \in queue : e.id = id /\ e.alt = a /\ e.seq = ticket[id]

Entries == Typed /\ Ordered /\ Represented

\* No request waits at first
LEMMA EntriesInit == Init => Entries
  BY TypedInit DEF Init, Entries, Ordered, Represented

\* Only Enqueue adds entries, all of them later than those that are there
LEMMA OrderedStep == Typed /\ Ordered /\ [Next]_vars => Ordered'
  <1> SUFFICES ASSUME Typed, Ordered, [Next]_vars PROVE Ordered'
    OBVIOUS
  <1>1. ASSUME queue' \subseteq queue PROVE Ordered'
    BY <1>1 DEF Ordered
  <1>2. ASSUME NEW id \in Ids, Enqueue(id) PROVE Ordered'
    <2> DEFINE new == {[id |-> id, t |-> clock, seq |-> nextSeq, alt |-> a] : a \in AltsOf(id)}
    <2>1. queue' = queue \cup new
      BY <1>2 DEF Enqueue
    <2>2. \A e \in new : e.id = id /\ e.t = clock /\ e.seq = nextSeq
                        /\ e = [id |-> id, t |-> clock, seq |-> nextSeq, alt |-> e.alt]
      OBVIOUS
    <2>3. \A e \in queue : /\ e.seq \in Nat /\ e.t \in Nat
                          /\ e.seq < nextSeq /\ e.t <= clock
      BY BoundsAssumption DEF Typed, TypeOK, WellFormed, Entry, Instants
    <2>4. nextSeq \in Nat /\ clock \in Nat
      BY BoundsAssumption DEF Typed, TypeOK, Instants
    <2> HIDE DEF new
    <2>5. \A e, f \in queue' : e.seq = f.seq => e.id = f.id /\ e.t = f.t
      BY <2>1, <2>2, <2>3, <2>4 DEF Ordered
    <2>6. \A e, f \in queue' : e.seq = f.seq /\ e.alt = f.alt => e = f
      <3> SUFFICES ASSUME NEW e \in queue', NEW f \in queue',
                          e.seq = f.seq, e.alt = f.alt
                   PROVE  e = f
        OBVIOUS
      <3>1. CASE e \in new /\ f \in new
        BY <2>2, <3>1
      <3>2. CASE e \in queue /\ f \in queue
        BY <3>2 DEF Ordered
      <3>. QED BY <2>1, <2>2, <2>3, <2>4, <3>1, <3>2
    <2>7. \A e, f \in queue' : e.seq < f.seq => e.t <= f.t
      BY <2>1, <2>2, <2>3, <2>4 DEF Ordered
    <2>. QED BY <2>5, <2>6, <2>7 DEF Ordered
  <1>. QED
    BY <1>1, <1>2
    DEF Next, vars, Release, Cancel, Drop, Refresh, Evaluate, Grant, Skip, Tick

\* An entry is only removed with its request, or once it is a tombstone
LEMMA RepresentedStep == Entries /\ [Next]_vars => Represented'
  <1> SUFFICES ASSUME Entries, [Next]_vars, NEW id \in Ids, status'[id] = "queued",
                      NEW a \in AltsOf(id)
               PROVE  \E e \in queue' : e.id = id /\ e.alt = a /\ e.seq = ticket'[id]
    BY DEF Represented
  <1> USE DEF Entries, Typed, TypeOK
  <1>1. ASSUME UNCHANGED <<status, ticket, queue>>
        PROVE  \E e \in queue' : e.id = id /\ e.alt = a /\ e.seq = ticket'[id]
    BY <1>1 DEF Represented
  <1>2. ASSUME NEW i \in Ids, Enqueue(i)
        PROVE  \E e \in queue' : e.id = id /\ e.alt = a /\ e.seq = ticket'[id]
    <2>1. CASE i = id
      <3>1. [id |-> id, t |-> clock, seq |-> nextSeq, alt |-> a] \in queue'
        BY <1>2, <2>1 DEF Enqueue
      <3>2. ticket'[id] = nextSeq
        BY <1>2, <2>1 DEF Enqueue
      <3>. QED BY <3>1, <3>2
    <2>2. CASE i # id
      <3>1. status[id] = "queued" /\ ticket'[id] = ticket[id] /\ queue \subseteq queue'
        BY <1>2, <2>2 DEF Enqueue
      <3>. QED BY <3>1 DEF Represented
    <2>. QED BY <2>1, <2>2
  <1>3. ASSUME NEW i \in Ids, Drop(i)
        PROVE  \E e \in queue' : e.id = id /\ e.alt = a /\ e.seq = ticket'[id]
    <2>1. i # id /\ status[id] = "queued" /\ ticket'[id] = ticket[id] /\ queue' = queue
      BY <1>3 DEF Drop
    <2>. QED BY <2>1 DEF Represented
  <1>4. ASSUME Evaluate
        PROVE  \E e \in queue' : e.id = id /\ e.alt = a /\ e.seq = ticket'[id]
    <2>1. status[id] = "queued" /\ ticket'[id] = ticket[id]
      BY <1>4 DEF Evaluate
    <2>2. PICK e \in queue : e.id = id /\ e.alt = a /\ e.seq = ticket[id]
      BY <2>1 DEF Represented
    <2>3. Live(e) /\ ~Before(e, e)
      BY <2>1, <2>2 DEF Live, Before, Entry, Instants
    <2>4. e \in queue'
      BY <1>4, <2>3 DEF Evaluate
    <2>. QED BY <2>1, <2>2, <2>4
  <1>5. ASSUME NEW r \in ready, Grant(r)
        PROVE  \E e \in queue' : e.id = id /\ e.alt = a /\ e.seq = ticket'[id]
    <2>1. r.id # id /\ status[id] = "queued" /\ ticket'[id] = ticket[id]
      BY <1>5 DEF Grant
    <2>2. PICK e \in queue : e.id = id /\ e.alt = a /\ e.seq = ticket[id]
      BY <2>1 DEF Represented
    <2>3. e \in queue'
      BY <1>5, <2>1, <2>2 DEF Grant, EntryOf
    <2>. QED BY <2>1, <2>2, <2>3
  <1>. QED
    BY <1>1, <1>2, <1>3, <1>4, <1>5
    DEF Next, vars, Release, Cancel, Refresh, Skip, Tick

\* The queues hold what waits: entries are in the order they were queued, and every
\* queued request has the entry of each of its alternatives in them.
THEOREM AlwaysEntries == Spec => []Entries
  <1>1. Entries /\ [Next]_vars => Entries'
    BY TypedStep, OrderedStep, RepresentedStep DEF Entries
  <1>. QED BY EntriesInit, <1>1, PTL DEF Spec

\* The tombstones an OR request leaves in the queues it did not start from can
\* never pass for a later request with the same id.
THEOREM NoImpersonation == Spec => []EntriesMatchRequests
  <1>1. Entries => EntriesMatchRequests
    <2> SUFFICES ASSUME Entries, NEW id \in Ids
                 PROVE  /\ {e.alt : e \in {f \in queue : f.id = id /\ Live(f)}}
                              = IF status[id] = "queued" THEN AltsOf(id) ELSE {}
                        /\ \A e, f \in queue :
                              e.id = id /\ f.id = id /\ Live(e) /\ Live(f)
                              /\ e.alt = f.alt => e = f
      BY DEF EntriesMatchRequests
    <2>1. \A e, f \in queue :
              e.id = id /\ f.id = id /\ Live(e) /\ Live(f) /\ e.alt = f.alt => e = f
      BY DEF Entries, Ordered, Live
    <2>2. CASE status[id] # "queued"
      BY <2>1, <2>2 DEF Live
    <2>3. CASE status[id] = "queued"
      <3>1. \A e \in queue : e.id = id => e.alt \in AltsOf(id)
        BY DEF Entries, Typed, WellFormed
      <3>2. \A a \in AltsOf(id) : \E e \in queue : e.id = id /\ e.alt = a /\ Live(e)
        BY <2>3 DEF Entries, Represented, Live
      <3>3. {e.alt : e \in {f \in queue : f.id = id /\ Live(f)}} = AltsOf(id)
        BY <3>1, <3>2
      <3>. QED BY <2>1, <2>3, <3>3
    <2>. QED BY <2>2, <2>3
  <1>. QED BY AlwaysEntries, <1>1, PTL

-----------------------------------------------------------------------------
(* Wake-ups *)

\* The invariant behind the drain loop: for every class that is not marked, the
\* ready heap holds its head exactly when that head can go.
Wakeful ==
    /\ \A r \in ready : r.fresh /\ ClassOf(DemandOf(r)) \notin dirty => CanGo(EntryOf(r))
    /\ \A e \in queue :
          CanGo(e) /\ ClassOf(DemandOf(e)) \notin dirty /\ Asks(DemandOf(e)) \cap risen = {}
             => Ready(e, TRUE) \in ready

Inv == Entries /\ Wakeful

\* A class asks for the pools its demand asks for
LEMMA AsksOfClass ==
    ASSUME NEW d \in Demand
    PROVE  Asks(ClassOf(d)) = Asks(d)
  BY DEF Asks, ClassOf, Demand

\* The class of an entry is one of those its request is queued in, and one of
\* those of any pool it asks for.
LEMMA MarksReach ==
    ASSUME NEW e, e.id \in Ids, e.alt \in AltsOf(e.id)
    PROVE  /\ DemandOf(e) \in Demand
           /\ ClassOf(DemandOf(e)) \in ClassesOf(e.id)
           /\ \A P : Asks(DemandOf(e)) \cap P # {} =>
                    ClassOf(DemandOf(e)) \in ClassesOfPools(P)
  <1>1. DemandOf(e) \in Demand
    BY DemandType DEF DemandOf
  <1>2. ClassOf(DemandOf(e)) \in ClassesOf(e.id)
    BY DEF DemandOf, ClassesOf
  <1>3. ASSUME NEW P, Asks(DemandOf(e)) \cap P # {}
        PROVE  ClassOf(DemandOf(e)) \in ClassesOfPools(P)
    BY <1>1, <1>2, <1>3, AsksOfClass DEF ClassesOfPools, Classes
  <1>. QED BY <1>1, <1>2, <1>3

\* What a step must not change for the head of the class of e to stay as it is
SameFor(e) ==
    /\ e \in queue' <=> e \in queue
    /\ Live(e)' <=> Live(e)
    /\ Satisfiable(DemandOf(e))' <=> Satisfiable(DemandOf(e))
    /\ Asks(DemandOf(e)) \cap risen' = {} => Asks(DemandOf(e)) \cap risen = {}

\* A step that marks every class it disturbs, and leaves the ready heads of the
\* others alone, keeps the drain loop informed.
LEMMA MarkedStep ==
    ASSUME Wakeful, clock' = clock, dirty \subseteq dirty', ready' \subseteq ready,
           \A e \in queue \cup queue' : ClassOf(DemandOf(e)) \notin dirty' => SameFor(e),
           \A s \in ready : s.fresh /\ ClassOf(DemandOf(s)) \notin dirty' => s \in ready'
    PROVE  Wakeful'
  <1>1. ASSUME NEW e, ClassOf(DemandOf(e)) \notin dirty', e \in queue \cup queue'
        PROVE  CanGo(e)' <=> CanGo(e)
    <2>1. ASSUME NEW f, ClassOf(DemandOf(f)) = ClassOf(DemandOf(e))
          PROVE  f \in queue' /\ Live(f)' <=> f \in queue /\ Live(f)
      BY <1>1, <2>1 DEF SameFor
    <2>2. IsHead(e)' <=> IsHead(e)
      BY <1>1, <2>1 DEF IsHead
    <2>3. Satisfiable(DemandOf(e))' <=> Satisfiable(DemandOf(e))
      BY <1>1 DEF SameFor
    <2>. QED BY <2>2, <2>3 DEF CanGo
  <1>2. ASSUME NEW r \in ready', r.fresh, ClassOf(DemandOf(r)) \notin dirty'
        PROVE  CanGo(EntryOf(r))'
    <2>1. CanGo(EntryOf(r)) /\ DemandOf(EntryOf(r)) = DemandOf(r)
      BY <1>2 DEF Wakeful, EntryOf, DemandOf
    <2>2. EntryOf(r) \in queue
      BY <2>1 DEF CanGo, IsHead
    <2>. QED BY <1>1, <1>2, <2>1, <2>2
  <1>3. ASSUME NEW e \in queue', CanGo(e)', ClassOf(DemandOf(e)) \notin dirty',
               Asks(DemandOf(e)) \cap risen' = {}
        PROVE  Ready(e, TRUE) \in ready'
    <2>1. CanGo(e) /\ e \in queue /\ Asks(DemandOf(e)) \cap risen = {}
      BY <1>1, <1>3 DEF SameFor
    <2>2. Ready(e, TRUE) \in ready
      BY <1>3, <2>1 DEF Wakeful
    <2>3. DemandOf(Ready(e, TRUE)) = DemandOf(e) /\ Ready(e, TRUE).fresh
      BY DEF DemandOf, Ready
    <2>. QED BY <1>3, <2>2, <2>3
  <1>4. (\A r \in ready : r.fresh /\ ClassOf(DemandOf(r)) \notin dirty => CanGo(EntryOf(r)))'
    BY <1>2 DEF DemandOf
  <1>5. (\A e \in queue :
          CanGo(e) /\ ClassOf(DemandOf(e)) \notin dirty /\ Asks(DemandOf(e)) \cap risen = {}
             => Ready(e, TRUE) \in ready)'
    BY <1>3 DEF DemandOf, Ready, Asks
  <1>. QED BY <1>4, <1>5 DEF Wakeful

\* When the pools of an entry are left alone, so is what can start on them
LEMMA SamePools ==
    ASSUME NEW e, clock' = clock,
           \A p \in Asks(DemandOf(e)) : used'[p] = used[p]
    PROVE  Satisfiable(DemandOf(e))' <=> Satisfiable(DemandOf(e))
  BY DEF Satisfiable, Asks, DemandOf

\* Nothing can start at first
LEMMA WakefulInit == Init => Wakeful
  BY DEF Init, Wakeful

\* The entries of a well-typed queue name an alternative of their request
LEMMA EntryFacts ==
    ASSUME Typed, NEW e \in queue
    PROVE  /\ e.id \in Ids /\ e.alt \in AltsOf(e.id) /\ e.t <= clock
           /\ e = [id |-> e.id, t |-> e.t, seq |-> e.seq, alt |-> e.alt]
  BY DEF Typed, TypeOK, WellFormed, Entry

\* Every step keeps the drain loop informed of what can start
LEMMA WakefulStep == Inv /\ [Next]_vars => Wakeful'
  <1> SUFFICES ASSUME Inv, [Next]_vars PROVE Wakeful'
    OBVIOUS
  <1> USE DEF Inv, Entries
  <1>0. Typed'
    BY TypedStep
  <1>1. ASSUME NEW id \in Ids, Enqueue(id) PROVE Wakeful'
    <2>1. ASSUME NEW e \in queue \cup queue', ClassOf(DemandOf(e)) \notin dirty'
          PROVE  SameFor(e)
      <3>1. e \in queue' /\ e.id \in Ids /\ e.alt \in AltsOf(e.id)
        BY <1>0, <1>1, EntryFacts DEF Enqueue, Typed, TypeOK, WellFormed, Entry, AltsOf
      <3>2. e.id # id
        BY <1>1, <2>1, <3>1, MarksReach DEF Enqueue
      <3>3. e \in queue
        BY <1>1, <3>1, <3>2 DEF Enqueue
      <3>4. Live(e)' <=> Live(e)
        BY <1>1, <3>1, <3>2 DEF Enqueue, Live, Typed, TypeOK
      <3>5. Satisfiable(DemandOf(e))' <=> Satisfiable(DemandOf(e))
        BY <1>1, SamePools DEF Enqueue
      <3>. QED BY <1>1, <3>1, <3>3, <3>4, <3>5 DEF Enqueue, SameFor
    <2>2. clock' = clock /\ dirty \subseteq dirty' /\ ready' = ready
      BY <1>1 DEF Enqueue, Idle, Draining
    <2>. QED BY <2>1, <2>2, MarkedStep
  <1>2. ASSUME NEW S \in SUBSET Ids, Release(S) \/ Cancel(S) PROVE Wakeful'
    <2>1. UNCHANGED <<clock, used, status, ticket, queue, dirty, ready, risen>>
      BY <1>2 DEF Release, Cancel
    <2>. QED
      BY <2>1 DEF Wakeful, CanGo, IsHead, Live, Satisfiable, DemandOf, EntryOf, Ready,
                  Before, ClassOf, Asks
  <1>3. ASSUME NEW id \in Ids, Drop(id) PROVE Wakeful'
    <2>1. ASSUME NEW e \in queue \cup queue', ClassOf(DemandOf(e)) \notin dirty'
          PROVE  SameFor(e)
      <3>1. e \in queue /\ e \in queue' /\ e.id \in Ids /\ e.alt \in AltsOf(e.id)
        BY <1>3, <2>1, EntryFacts DEF Drop
      <3>2. Live(e)' <=> Live(e)
        <4>1. CASE e.id # id
          BY <1>3, <3>1, <4>1 DEF Drop, Live, Typed, TypeOK
        <4>2. CASE e.id = id /\ status[id] = "active"
          BY <1>3, <3>1, <4>2 DEF Drop, Live, Typed, TypeOK
        <4>3. CASE e.id = id /\ status[id] # "active"
          BY <1>3, <2>1, <3>1, <4>3, MarksReach DEF Drop
        <4>. QED BY <4>1, <4>2, <4>3
      <3>3. Satisfiable(DemandOf(e))' <=> Satisfiable(DemandOf(e))
        <4>1. CASE status[id] = "active"
          <5> DEFINE d == Alternatives[id][choice[id]]
          <5>1. d \in Demand
            BY <4>1, DemandType DEF Typed
          <5>2. Asks(DemandOf(e)) \cap Asks(d) = {}
            BY <1>3, <2>1, <3>1, <4>1, MarksReach DEF Drop
          <5>3. \A p \in Asks(DemandOf(e)) : used'[p] = used[p]
            <6> SUFFICES ASSUME NEW p \in Asks(DemandOf(e)) PROVE used'[p] = used[p]
              OBVIOUS
            <6>1. p \in Pools /\ d[p] = 0
              BY <5>1, <5>2 DEF Asks, Demand
            <6>2. used'[p] = used[p] - d[p] /\ used[p] \in Int
              BY <1>3, <4>1, <6>1 DEF Drop, Typed, TypeOK
            <6>. QED BY <6>1, <6>2
          <5>. QED BY <1>3, <5>3, SamePools DEF Drop
        <4>2. CASE status[id] # "active"
          BY <1>3, <4>2, SamePools DEF Drop
        <4>. QED BY <4>1, <4>2
      <3>. QED BY <1>3, <3>1, <3>2, <3>3 DEF Drop, SameFor
    <2>2. clock' = clock /\ dirty \subseteq dirty' /\ ready' = ready
      BY <1>3 DEF Drop
    <2>. QED BY <2>1, <2>2, MarkedStep
  <1>4. ASSUME NEW p \in Pools, Refresh(p) PROVE Wakeful'
    <2>1. ASSUME NEW e \in queue \cup queue', ClassOf(DemandOf(e)) \notin dirty'
          PROVE  SameFor(e)
      <3>1. e \in queue /\ e \in queue' /\ e.id \in Ids /\ e.alt \in AltsOf(e.id)
        BY <1>4, <2>1, EntryFacts DEF Refresh
      <3>2. Asks(DemandOf(e)) \cap {p} = {}
        BY <1>4, <2>1, <3>1, MarksReach DEF Refresh
      <3>3. Asks(DemandOf(e)) \cap risen' = {} => Asks(DemandOf(e)) \cap risen = {}
        BY <1>4, <3>2 DEF Refresh
      <3>4. Satisfiable(DemandOf(e))' <=> Satisfiable(DemandOf(e))
        BY <1>4, SamePools DEF Refresh
      <3>. QED BY <1>4, <3>1, <3>3, <3>4 DEF Refresh, SameFor, Live
    <2>2. clock' = clock /\ dirty \subseteq dirty' /\ ready' = ready
      BY <1>4 DEF Refresh, Idle, Draining
    <2>. QED BY <2>1, <2>2, MarkedStep
  <1>5. ASSUME Evaluate PROVE Wakeful'
    <2>1. ASSUME NEW e PROVE e \in queue' /\ Live(e)' <=> e \in queue /\ Live(e)
      <3>1. e \in queue /\ Live(e) => ~Before(e, e)
        BY EntryFacts DEF Before, Typed, TypeOK, Entry, Instants
      <3>. QED BY <1>5, <3>1 DEF Evaluate, Live
    <2>2. ASSUME NEW e PROVE CanGo(e)' <=> CanGo(e)
      <3>1. IsHead(e)' <=> IsHead(e)
        BY <2>1 DEF IsHead
      <3>2. Satisfiable(DemandOf(e))' <=> Satisfiable(DemandOf(e))
        BY <1>5 DEF Evaluate, Satisfiable
      <3>. QED BY <1>5, <3>1, <3>2 DEF Evaluate, CanGo
    <2>3. ASSUME NEW r \in ready', r.fresh PROVE CanGo(EntryOf(r))
      <3>1. CASE r \in ready /\ ClassOf(DemandOf(r)) \notin dirty
        BY <2>3, <3>1 DEF Wakeful
      <3>2. CASE \E s \in ready : r = Ready(s, FALSE)
        BY <2>3, <3>2 DEF Ready
      <3>3. CASE \E e \in queue : r = Ready(e, TRUE) /\ CanGo(e)
        <4>1. PICK e \in queue : r = Ready(e, TRUE) /\ CanGo(e)
          BY <3>3
        <4>2. EntryOf(r) = e
          BY <4>1, EntryFacts DEF EntryOf, Ready
        <4>. QED BY <4>1, <4>2
      <3>. QED BY <1>5, <3>1, <3>2, <3>3 DEF Evaluate
    <2>4. ASSUME NEW e \in queue, CanGo(e), Asks(DemandOf(e)) \cap risen = {}
          PROVE  Ready(e, TRUE) \in ready'
      <3>1. CASE ClassOf(DemandOf(e)) \in dirty
        BY <1>5, <2>4, <3>1 DEF Evaluate
      <3>2. CASE ClassOf(DemandOf(e)) \notin dirty
        <4>1. Ready(e, TRUE) \in ready
          BY <2>4, <3>2 DEF Wakeful
        <4>2. DemandOf(Ready(e, TRUE)) = DemandOf(e)
          BY DEF DemandOf, Ready
        <4>. QED BY <1>5, <3>2, <4>1, <4>2 DEF Evaluate
      <3>. QED BY <3>1, <3>2
    <2>5. queue' \subseteq queue /\ risen' = risen
      BY <1>5 DEF Evaluate
    <2>6. (\A r \in ready : r.fresh /\ ClassOf(DemandOf(r)) \notin dirty => CanGo(EntryOf(r)))'
      BY <2>2, <2>3 DEF EntryOf
    <2>7. (\A e \in queue :
            CanGo(e) /\ ClassOf(DemandOf(e)) \notin dirty /\ Asks(DemandOf(e)) \cap risen = {}
               => Ready(e, TRUE) \in ready)'
      BY <2>2, <2>4, <2>5 DEF Ready, Asks, DemandOf
    <2>. QED BY <2>6, <2>7 DEF Wakeful
  <1>6. ASSUME NEW r \in ready, Grant(r) PROVE Wakeful'
    <2>0. /\ r.id \in Ids /\ r.alt \in AltsOf(r.id)
          /\ EntryOf(r).id = r.id /\ DemandOf(EntryOf(r)) = DemandOf(r)
      BY DEF Typed, TypeOK, WellFormed, EntryOf, DemandOf
    <2>1. ASSUME NEW e \in queue \cup queue', ClassOf(DemandOf(e)) \notin dirty'
          PROVE  SameFor(e)
      <3>1. e \in queue /\ e.id \in Ids /\ e.alt \in AltsOf(e.id)
        BY <1>6, <2>1, EntryFacts DEF Grant
      <3>2. e.id # r.id /\ Asks(DemandOf(e)) \cap Asks(DemandOf(r)) = {}
        BY <1>6, <2>1, <3>1, MarksReach DEF Grant, MarkedByGrant
      <3>3. e \in queue' /\ (Live(e)' <=> Live(e))
        BY <1>6, <2>0, <3>1, <3>2 DEF Grant, Live, Typed, TypeOK
      <3>4. \A p \in Asks(DemandOf(e)) : used'[p] = used[p]
        <4> SUFFICES ASSUME NEW p \in Asks(DemandOf(e)) PROVE used'[p] = used[p]
          OBVIOUS
        <4>1. p \in Pools /\ DemandOf(r)[p] = 0
          BY <2>0, <3>2, MarksReach DEF Asks, Demand
        <4>2. used'[p] = used[p] + DemandOf(r)[p] /\ used[p] \in Int
          BY <1>6, <4>1 DEF Grant, Typed, TypeOK
        <4>. QED BY <4>1, <4>2
      <3>5. Satisfiable(DemandOf(e))' <=> Satisfiable(DemandOf(e))
        BY <1>6, <3>4, SamePools DEF Grant
      <3>. QED BY <1>6, <3>1, <3>3, <3>5 DEF Grant, SameFor
    <2>2. clock' = clock /\ dirty \subseteq dirty' /\ ready' = ready \ {r}
      BY <1>6 DEF Grant
    <2>3. ClassOf(DemandOf(r)) \in dirty'
      BY <1>6, <2>0, MarksReach DEF Grant, MarkedByGrant
    <2>. QED BY <2>1, <2>2, <2>3, MarkedStep
  <1>7. ASSUME NEW r \in ready, Skip(r) PROVE Wakeful'
    <2>1. UNCHANGED <<clock, used, status, ticket, queue, dirty, risen>> /\ ready' = ready \ {r}
      BY <1>7 DEF Skip
    <2>2. ~(r.fresh /\ ClassOf(DemandOf(r)) \notin dirty)
      BY <1>7 DEF Skip, Grantable, Wakeful
    <2>3. ASSUME NEW e \in queue \cup queue' PROVE SameFor(e)
      BY <2>1, SamePools DEF SameFor, Live
    <2>. QED BY <2>1, <2>2, <2>3, MarkedStep
  <1>8. CASE Tick
    <2>1. /\ ready = {} /\ ready' = {} /\ dirty = {} /\ risen = {}
          /\ UNCHANGED <<used, status, ticket, queue>>
          /\ clock' = clock + 1 /\ clock \in Instants /\ clock' \in Instants
      BY <1>8, BoundsAssumption DEF Tick, Idle, Draining, Typed, TypeOK, Instants
    <2>2. ASSUME NEW e \in queue, CanGo(e)', Asks(DemandOf(e)) \cap risen' = {} PROVE FALSE
      <3>1. IsHead(e)
        BY <2>1, <2>2 DEF CanGo, IsHead, Live, Before, ClassOf, DemandOf, Asks
      <3>2. Satisfiable(DemandOf(e))
        <4> SUFFICES ASSUME NEW p \in Asks(DemandOf(e))
                     PROVE  CapacityAt[p][clock] - used[p] >= DemandOf(e)[p]
          BY DEF Satisfiable
        <4>1. p \in Pools
          BY DEF Asks
        <4>2. CapacityAt[p][clock + 1] - used[p] >= DemandOf(e)[p]
          BY <2>1, <2>2 DEF CanGo, Satisfiable, Asks, DemandOf
        <4>3. p \notin risen'
          BY <2>2
        <4>4. ~(CapacityAt[p][clock + 1] > CapacityAt[p][clock])
          BY <1>8, <4>1, <4>3 DEF Tick
        <4>5. /\ CapacityAt[p][clock] \in Int /\ CapacityAt[p][clock + 1] \in Int
              /\ used[p] \in Int /\ DemandOf(e)[p] \in Int
          BY <2>1, <4>1, CapacityAssumption, EntryFacts, MarksReach
          DEF Typed, TypeOK, Demand
        <4>. QED BY <4>2, <4>4, <4>5
      <3>3. CanGo(e)
        BY <3>1, <3>2, EntryFacts DEF CanGo
      <3>. QED BY <2>1, <3>3 DEF Wakeful
    <2>. QED BY <2>1, <2>2 DEF Wakeful, DemandOf, Asks, Ready
  <1>9. CASE UNCHANGED vars
    <2>1. ASSUME NEW e \in queue \cup queue' PROVE SameFor(e)
      BY <1>9, SamePools DEF vars, SameFor, Live
    <2>. QED BY <1>9, <2>1, MarkedStep DEF vars
  <1>. QED BY <1>1, <1>2, <1>3, <1>4, <1>5, <1>6, <1>7, <1>8, <1>9 DEF Next

\* The invariant behind the theorems below: whoever is first in a class and could start
\* is in a class still to be evaluated, or its ready head is.
THEOREM AlwaysInv == Spec => []Inv
  <1>1. Init => Inv
    BY EntriesInit, WakefulInit DEF Inv
  <1>2. Inv /\ [Next]_vars => Inv'
    BY TypedStep, OrderedStep, RepresentedStep, WakefulStep DEF Inv, Entries
  <1>. QED BY <1>1, <1>2, PTL DEF Spec

\* No lost wake-up (R-REC-5, R-CAL-11): when an operation is over, nobody who is
\* first in a class and could start is left waiting, whatever tombstones,
\* cancellations and capacity rises came before, but for a pool whose capacity
\* event is due at this very instant.
THEOREM NoWakeupIsLost == Spec => []NoLostWakeup
  <1>1. Inv => NoLostWakeup
    BY EntryFacts DEF Inv, Entries, Wakeful, NoLostWakeup, CanGo, Idle, Draining
  <1>. QED BY AlwaysInv, <1>1, PTL

\* The head that the drain loop pops has changed, or no longer fits, only if its
\* class has been evaluated again since: what it passes over is never lost.
THEOREM RecheckIsRedundant == Spec => []FreshReadyIsGrantable
  <1>1. Inv => FreshReadyIsGrantable
    BY DEF Inv, Wakeful, FreshReadyIsGrantable, Grantable
  <1>. QED BY AlwaysInv, <1>1, PTL

\* R-REC-5 and R-REC-6: among the class heads that could start, the one that
\* does has the least seq, and of an OR request the first declared alternative.
THEOREM EarliestGoesFirst == Spec => EarliestStartsFirst
  <1>1. Inv /\ [Next]_vars =>
          [\A id \in Ids :
             status[id] = "queued" /\ status'[id] = "active" =>
               \A e \in queue :
                 IsHead(e) /\ Satisfiable(DemandOf(e)) /\ Asks(DemandOf(e)) \cap risen = {} =>
                   \/ ticket[id] < e.seq
                   \/ e.id = id /\ choice'[id] <= e.alt]_vars
    <2> SUFFICES ASSUME Inv, [Next]_vars, NEW id \in Ids,
                        status[id] = "queued", status'[id] = "active",
                        NEW e \in queue, IsHead(e), Satisfiable(DemandOf(e)),
                        Asks(DemandOf(e)) \cap risen = {}
                 PROVE  \/ ticket[id] < e.seq
                        \/ e.id = id /\ choice'[id] <= e.alt
      OBVIOUS
    <2> USE DEF Inv, Entries
    <2>1. PICK r \in ready : Grant(r)
      BY DEF Next, vars, Enqueue, Release, Cancel, Drop, Refresh, Evaluate, Skip, Tick,
             Typed, TypeOK
    <2>2. r.id = id /\ choice'[id] = r.alt
      BY <2>1 DEF Grant, Typed, TypeOK
    <2>3. EntryOf(r) \in queue /\ ticket[id] = r.seq
      BY <2>1, <2>2 DEF Grant, Grantable, CanGo, IsHead, Live, EntryOf
    <2>4. Ready(e, TRUE) \in ready
      BY <2>1, EntryFacts DEF Grant, Wakeful, CanGo
    <2>5. ~Before(e, r)
      BY <2>1, <2>4 DEF Grant, Popped, Before, Ready
    <2>6. /\ e.t \in Int /\ e.seq \in Int /\ e.alt \in Int
          /\ r.t \in Int /\ r.seq \in Int /\ r.alt \in Int
      BY BoundsAssumption DEF Typed, TypeOK, Entry, Instants
    <2>7. e.seq = r.seq => e.id = r.id /\ e.t = r.t
      BY <2>3 DEF Ordered, EntryOf
    <2>8. e.seq < r.seq => e.t <= r.t
      BY <2>3 DEF Ordered, EntryOf
    <2>. QED BY <2>2, <2>3, <2>5, <2>6, <2>7, <2>8 DEF Before
  <1>. QED BY AlwaysInv, <1>1, PTL DEF Spec, EarliestStartsFirst

-----------------------------------------------------------------------------
(* Units *)

\* What one request holds of p when it holds n units, as HeldUnits tells them apart
UnitsOf(id, n) == {id} \X (1 .. n)

\* Only active requests hold anything, and the counter of every pool is the number
\* of units out.
Counted ==
    /\ \A id \in Ids : choice[id] # 0 <=> status[id] = "active"
    /\ \A p \in Pools : IsFiniteSet(HeldUnits(p)) /\ used[p] = Cardinality(HeldUnits(p))

\* n units of one request more are n more units
LEMMA UnitsAdd ==
    ASSUME NEW U, IsFiniteSet(U), NEW id, NEW n \in Nat,
           \A u \in U : u[1] # id,
           NEW V, V = U \cup UnitsOf(id, n)
    PROVE  /\ IsFiniteSet(V)
           /\ Cardinality(V) = Cardinality(U) + n
  <1>1. IsFiniteSet({id}) /\ Cardinality({id}) = 1
    BY FS_Singleton
  <1>2. IsFiniteSet(1 .. n) /\ Cardinality(1 .. n) = n
    <2>1. 1 \in Int /\ n \in Int
      OBVIOUS
    <2>2. IsFiniteSet(1 .. n) /\ Cardinality(1 .. n) = IF 1 > n THEN 0 ELSE n - 1 + 1
      BY <2>1, FS_Interval
    <2>. QED BY <2>2
  <1>3. IsFiniteSet(UnitsOf(id, n)) /\ Cardinality(UnitsOf(id, n)) = n
    <2>1. /\ IsFiniteSet({id} \X (1 .. n))
          /\ Cardinality({id} \X (1 .. n)) = Cardinality({id}) * Cardinality(1 .. n)
      BY <1>1, <1>2, FS_Product
    <2>. QED BY <1>1, <1>2, <2>1 DEF UnitsOf
  <1>4. U \cap UnitsOf(id, n) = {}
    BY DEF UnitsOf
  <1>5. Cardinality(U \cap UnitsOf(id, n)) = 0
    BY <1>4, FS_EmptySet
  <1>6. /\ IsFiniteSet(U \cup UnitsOf(id, n))
        /\ Cardinality(U \cup UnitsOf(id, n))
              = Cardinality(U) + Cardinality(UnitsOf(id, n)) - Cardinality(U \cap UnitsOf(id, n))
    BY <1>3, FS_Union
  <1>7. Cardinality(U) \in Nat
    BY FS_CardinalityType
  <1>. QED BY <1>3, <1>5, <1>6, <1>7

\* Nobody holds anything at first
LEMMA CountedInit == Init => Counted
  <1> SUFFICES ASSUME Init PROVE Counted
    OBVIOUS
  <1>1. ASSUME NEW p \in Pools PROVE HeldUnits(p) = {}
    BY DEF Init, HeldUnits
  <1>. QED BY <1>1, FS_EmptySet DEF Init, Counted

\* A grant adds the units of its demand, a drop takes back those of the alternative held
LEMMA CountedStep == Inv /\ Counted /\ [Next]_vars => Counted'
  <1> SUFFICES ASSUME Inv, Counted, [Next]_vars PROVE Counted'
    OBVIOUS
  <1> USE DEF Inv, Entries, Typed, TypeOK
  <1>1. ASSUME NEW id \in Ids, Enqueue(id) PROVE Counted'
    <2>1. \A i \in Ids : status'[i] = "active" <=> status[i] = "active"
      BY <1>1 DEF Enqueue, Admissible
    <2>2. \A p : HeldUnits(p)' = HeldUnits(p)
      BY <1>1, <2>1 DEF Enqueue, HeldUnits
    <2>. QED BY <1>1, <2>1, <2>2 DEF Enqueue, Counted
  <1>2. ASSUME NEW id \in Ids, Drop(id) PROVE Counted'
    <2>1. \A i \in Ids : choice'[i] # 0 <=> status'[i] = "active"
      BY <1>2 DEF Drop, Counted
    <2>2. CASE status[id] = "active"
      <3> SUFFICES ASSUME NEW p \in Pools
                   PROVE  IsFiniteSet(HeldUnits(p)') /\ used'[p] = Cardinality(HeldUnits(p)')
        BY <2>1 DEF Counted
      <3> DEFINE n == Alternatives[id][choice[id]][p]
      <3>1. n \in Nat /\ used'[p] = used[p] - n
        BY <1>2, <2>2, DemandType DEF Drop, Demand
      <3>2. HeldUnits(p) = HeldUnits(p)' \cup UnitsOf(id, n)
        <4>1. \A i \in Ids : status'[i] = "active" <=> i # id /\ status[i] = "active"
          BY <1>2 DEF Drop
        <4>2. \A i \in Ids : i # id => choice'[i] = choice[i]
          BY <1>2 DEF Drop
        <4>. QED BY <2>2, <4>1, <4>2 DEF HeldUnits, UnitsOf
      <3>3. \A u \in HeldUnits(p)' : u[1] # id
        BY <1>2 DEF Drop, HeldUnits
      <3>4. IsFiniteSet(HeldUnits(p)) /\ used[p] = Cardinality(HeldUnits(p))
        BY DEF Counted
      <3>5. IsFiniteSet(HeldUnits(p)')
        BY <3>2, <3>4, FS_Subset
      <3> HIDE DEF n, Inv, Entries, Typed, TypeOK
      <3>6. Cardinality(HeldUnits(p)) = Cardinality(HeldUnits(p)') + n
        BY <3>1, <3>2, <3>3, <3>5, UnitsAdd
      <3>7. Cardinality(HeldUnits(p)') \in Nat
        BY <3>5, FS_CardinalityType
      <3>. QED BY <3>1, <3>4, <3>5, <3>6, <3>7
    <2>3. CASE status[id] # "active"
      <3>1. \A i \in Ids : status'[i] = "active" <=> status[i] = "active"
        BY <1>2, <2>3 DEF Drop
      <3>2. \A i \in Ids : status[i] = "active" => choice'[i] = choice[i]
        BY <1>2, <2>3 DEF Drop
      <3>3. \A p : HeldUnits(p)' = HeldUnits(p)
        BY <3>1, <3>2 DEF HeldUnits
      <3>. QED BY <1>2, <2>1, <2>3, <3>3 DEF Drop, Counted
    <2>. QED BY <2>2, <2>3
  <1>3. ASSUME NEW r \in ready, Grant(r) PROVE Counted'
    <2>0. r.id \in Ids /\ r.alt \in AltsOf(r.id) /\ r.alt # 0
      BY AlternativesAssumption DEF WellFormed, AltsOf
    <2>1. status[r.id] = "queued"
      BY <1>3 DEF Grant, Grantable, CanGo, IsHead, Live, EntryOf
    <2>2. \A i \in Ids : choice'[i] # 0 <=> status'[i] = "active"
      BY <1>3, <2>0 DEF Grant, Counted
    <2> SUFFICES ASSUME NEW p \in Pools
                 PROVE  IsFiniteSet(HeldUnits(p)') /\ used'[p] = Cardinality(HeldUnits(p)')
      BY <2>2 DEF Counted
    <2> DEFINE n == Alternatives[r.id][r.alt][p]
    <2>3. n \in Nat /\ used'[p] = used[p] + n
      BY <1>3, <2>0, DemandType DEF Grant, DemandOf, Demand
    <2>4. HeldUnits(p)' = HeldUnits(p) \cup UnitsOf(r.id, n)
      <3>1. \A i \in Ids : status'[i] = "active" <=> i = r.id \/ status[i] = "active"
        BY <1>3, <2>0 DEF Grant
      <3>2. choice'[r.id] = r.alt /\ \A i \in Ids : i # r.id => choice'[i] = choice[i]
        BY <1>3, <2>0 DEF Grant
      <3>. QED BY <2>0, <2>1, <3>1, <3>2 DEF HeldUnits, UnitsOf
    <2>5. \A u \in HeldUnits(p) : u[1] # r.id
      BY <2>1 DEF HeldUnits
    <2>6. IsFiniteSet(HeldUnits(p)) /\ used[p] = Cardinality(HeldUnits(p))
      BY DEF Counted
    <2> HIDE DEF n, Inv, Entries, Typed, TypeOK
    <2>. QED BY <2>3, <2>4, <2>5, <2>6, UnitsAdd
  <1>4. ASSUME UNCHANGED <<used, status, choice>> PROVE Counted'
    BY <1>4 DEF Counted, HeldUnits
  <1>. QED
    BY <1>1, <1>2, <1>3, <1>4
    DEF Next, vars, Release, Cancel, Refresh, Evaluate, Skip, Tick

\* Inv and the count, together
THEOREM AlwaysCounted == Spec => [](Inv /\ Counted)
  <1>1. Init => Inv /\ Counted
    BY EntriesInit, WakefulInit, CountedInit DEF Inv
  <1>2. Inv /\ Counted /\ [Next]_vars => Inv' /\ Counted'
    BY TypedStep, OrderedStep, RepresentedStep, WakefulStep, CountedStep DEF Inv, Entries
  <1>. QED BY <1>1, <1>2, PTL DEF Spec

\* What #free takes back is what #grant took, whatever alternative it was and however
\* the request leaves: the counters never drift and the units out never go negative.
THEOREM NothingLeaks == Spec => []UsedIsWhatIsHeld
  <1>1. Counted => UsedIsWhatIsHeld
    BY DEF Counted, UsedIsWhatIsHeld
  <1>. QED BY AlwaysCounted, <1>1, PTL

-----------------------------------------------------------------------------
(* Refinement *)

\* The entry and the option it stands for
OptionOf(e) == <<e.id, e.alt>>

\* Options are pairs of a request and one of its alternatives
LEMMA OptionFacts ==
    ASSUME NEW o \in Promise!Options
    PROVE  o[1] \in Ids /\ o[2] \in AltsOf(o[1]) /\ o = <<o[1], o[2]>>
  BY DEF Promise!Options, Promise!AltsOf, AltsOf

\* Two demands of the abstract specification stand in one line exactly when the code
\* gives them one class.
LEMMA LinesAreClasses ==
    ASSUME NEW d \in Demand, NEW e \in Demand
    PROVE  Promise!SameLine(d, e) <=> ClassOf(d) = ClassOf(e)
  <1> DEFINE one(x) == \E p \in Pools : Asks(x) = {p}
  <1>0. Promise!SameLine(d, e) <=> d = e \/ \E p \in Pools : Asks(d) = {p} /\ Asks(e) = {p}
    BY DEF Promise!SameLine, Promise!Asks, Asks
  <1>1. Asks(ClassOf(d)) = Asks(d) /\ Asks(ClassOf(e)) = Asks(e)
    BY AsksOfClass
  <1>2. CASE ~one(d) /\ ~one(e)
    BY <1>0, <1>2 DEF ClassOf
  <1>3. CASE one(d) /\ one(e)
    <2>1. PICK p \in Pools, q \in Pools : Asks(d) = {p} /\ Asks(e) = {q}
      BY <1>3
    <2>2. ASSUME p = q PROVE ClassOf(d) = ClassOf(e)
      BY <1>3, <2>1, <2>2 DEF ClassOf, Asks
    <2>3. ASSUME ClassOf(d) = ClassOf(e) PROVE p = q
      BY <1>1, <2>1, <2>3
    <2>. QED BY <1>0, <2>1, <2>2, <2>3
  <1>4. CASE (one(d) /\ ~one(e)) \/ (~one(d) /\ one(e))
    BY <1>0, <1>1, <1>4
  <1>. QED BY <1>2, <1>3, <1>4

\* Between operations and in the drain loop, nobody being dropped any more, the
\* abstract variables are the concrete ones.
LEMMA OnceDropped ==
    ASSUME Inv, Counted, batch = {}
    PROVE  /\ \A o : o[1] \in Ids => (Promise!Waiting(o) <=> status[o[1]] = "queued")
           /\ \A o, q : o[1] \in Ids /\ q[1] \in Ids
                         /\ status[o[1]] = "queued" /\ status[q[1]] = "queued" =>
                 (Promise!Earlier(o, q)
                    <=> (ticket[o[1]] < ticket[q[1]] \/ (o[1] = q[1] /\ o[2] < q[2])))
           /\ \A d \in Demand : Promise!Fits(d) <=> Satisfiable(d)
  <1> USE DEF Inv, Entries, Typed, TypeOK
  <1>1. \A o : o[1] \in Ids => (Promise!Waiting(o) <=> status[o[1]] = "queued")
    BY DEF Promise!Waiting
  <1>2. ASSUME NEW o, NEW q, o[1] \in Ids, q[1] \in Ids,
               status[o[1]] = "queued", status[q[1]] = "queued"
        PROVE  Promise!Earlier(o, q)
                  <=> (ticket[o[1]] < ticket[q[1]] \/ (o[1] = q[1] /\ o[2] < q[2]))
    BY <1>2 DEF Promise!Earlier
  <1>3. ASSUME NEW p \in Pools PROVE Promise!InUse(p) = used[p]
    <2>1. Promise!Out(p) = HeldUnits(p)
      BY DEF Promise!Out, HeldUnits, Counted
    <2>2. ASSUME NEW S PROVE Promise!Cardinality(S) = Cardinality(S)
      BY DEF Promise!Cardinality, Cardinality
    <2>. QED BY <2>1, <2>2 DEF Promise!InUse, Counted
  <1>4. ASSUME NEW d \in Demand PROVE Promise!Fits(d) <=> Satisfiable(d)
    <2>1. Promise!Asks(d) = Asks(d)
      BY DEF Promise!Asks, Asks
    <2>2. ASSUME NEW p \in Asks(d)
          PROVE  Promise!InUse(p) + d[p] <= CapacityAt[p][clock]
                    <=> CapacityAt[p][clock] - used[p] >= d[p]
      <3>1. p \in Pools
        BY DEF Asks
      <3>2. CapacityAt[p][clock] \in Int /\ used[p] \in Int /\ d[p] \in Int
        BY <3>1, CapacityAssumption DEF Demand
      <3>. QED BY <1>3, <3>1, <3>2
    <2>. QED BY <2>1, <2>2 DEF Promise!Fits, Satisfiable
  <1>. QED BY <1>1, <1>2, <1>4

\* Two live entries come in the order of their requests and alternatives
LEMMA LiveOrder ==
    ASSUME Inv, Counted, batch = {}, NEW e \in queue, NEW f \in queue, Live(e), Live(f)
    PROVE  Before(e, f) <=> Promise!Earlier(OptionOf(e), OptionOf(f))
  <1>1. /\ e.id \in Ids /\ f.id \in Ids
        /\ e.t \in Int /\ e.seq \in Int /\ e.alt \in Int
        /\ f.t \in Int /\ f.seq \in Int /\ f.alt \in Int
    BY BoundsAssumption DEF Inv, Entries, Typed, TypeOK, Entry, Instants
  <1>2. ticket[e.id] = e.seq /\ ticket[f.id] = f.seq
        /\ status[e.id] = "queued" /\ status[f.id] = "queued"
    BY DEF Live
  <1>3. OptionOf(e)[1] = e.id /\ OptionOf(e)[2] = e.alt
        /\ OptionOf(f)[1] = f.id /\ OptionOf(f)[2] = f.alt
    BY DEF OptionOf
  <1>4. Promise!Earlier(OptionOf(e), OptionOf(f))
           <=> (e.seq < f.seq \/ (e.id = f.id /\ e.alt < f.alt))
    BY <1>1, <1>2, <1>3, OnceDropped
  <1>5. /\ e.seq = f.seq => e.id = f.id /\ e.t = f.t
        /\ e.seq < f.seq => e.t <= f.t
        /\ f.seq < e.seq => f.t <= e.t
    BY DEF Inv, Entries, Ordered
  <1>6. e.id = f.id => e.seq = f.seq
    BY <1>2
  <1>. QED BY <1>1, <1>4, <1>5, <1>6 DEF Before

\* Every option of a waiting request has its live entry, and every live entry is one
LEMMA OptionsAreEntries ==
    ASSUME Inv, Counted, batch = {}
    PROVE  /\ \A o \in Promise!Options : Promise!Waiting(o) =>
                 \E e \in queue : Live(e) /\ OptionOf(e) = o
           /\ \A e \in queue : Live(e) => /\ OptionOf(e) \in Promise!Options
                                         /\ Promise!Waiting(OptionOf(e))
           /\ \A e \in queue : Promise!DemandOf(OptionOf(e)) = DemandOf(e)
  <1>1. ASSUME NEW o \in Promise!Options, Promise!Waiting(o)
        PROVE  \E e \in queue : Live(e) /\ OptionOf(e) = o
    <2>1. o[1] \in Ids /\ o[2] \in AltsOf(o[1]) /\ o = <<o[1], o[2]>>
      BY OptionFacts
    <2>2. status[o[1]] = "queued"
      BY <1>1, <2>1, OnceDropped
    <2>3. PICK e \in queue : e.id = o[1] /\ e.alt = o[2] /\ e.seq = ticket[o[1]]
      BY <2>1, <2>2 DEF Inv, Entries, Represented
    <2>. QED BY <2>1, <2>2, <2>3 DEF Live, OptionOf
  <1>2. ASSUME NEW e \in queue, Live(e)
        PROVE  OptionOf(e) \in Promise!Options /\ Promise!Waiting(OptionOf(e))
    <2>1. e.id \in Ids /\ e.alt \in AltsOf(e.id) /\ status[e.id] = "queued"
      BY <1>2, EntryFacts DEF Live, Inv, Entries
    <2>2. OptionOf(e) \in Promise!Options
      BY <2>1 DEF OptionOf, Promise!Options, Promise!AltsOf, AltsOf
    <2>3. OptionOf(e)[1] = e.id
      BY DEF OptionOf
    <2>. QED BY <2>1, <2>2, <2>3, OnceDropped
  <1>3. ASSUME NEW e \in queue PROVE Promise!DemandOf(OptionOf(e)) = DemandOf(e)
    BY DEF OptionOf, Promise!DemandOf, DemandOf
  <1>. QED BY <1>1, <1>2, <1>3

\* The head of a class is the first of its line
LEMMA HeadsAreFirst ==
    ASSUME Inv, Counted, batch = {}, NEW e \in queue, Live(e)
    PROVE  IsHead(e) <=> Promise!FirstInLine(OptionOf(e))
  <1>0. ASSUME NEW f \in queue
        PROVE  /\ DemandOf(f) \in Demand
               /\ Promise!DemandOf(OptionOf(f)) = DemandOf(f)
    BY OptionsAreEntries, EntryFacts, MarksReach DEF Inv, Entries
  <1>1. ASSUME NEW f \in queue
        PROVE  Promise!SameLine(Promise!DemandOf(OptionOf(f)), Promise!DemandOf(OptionOf(e)))
                  <=> ClassOf(DemandOf(f)) = ClassOf(DemandOf(e))
    <2>1. DemandOf(f) \in Demand /\ DemandOf(e) \in Demand
      BY <1>0
    <2>2. Promise!SameLine(DemandOf(f), DemandOf(e)) <=> ClassOf(DemandOf(f)) = ClassOf(DemandOf(e))
      BY <2>1, LinesAreClasses
    <2>. QED BY <1>0, <2>2
  <1>2. ASSUME IsHead(e) PROVE Promise!FirstInLine(OptionOf(e))
    <2>1. ASSUME NEW q \in Promise!Options, Promise!Waiting(q),
                 Promise!SameLine(Promise!DemandOf(q), Promise!DemandOf(OptionOf(e)))
          PROVE  ~Promise!Earlier(q, OptionOf(e))
      <3>1. PICK f \in queue : Live(f) /\ OptionOf(f) = q
        BY <2>1, OptionsAreEntries
      <3>2. ClassOf(DemandOf(f)) = ClassOf(DemandOf(e))
        BY <1>1, <2>1, <3>1
      <3>3. ~Before(f, e)
        BY <1>2, <3>1, <3>2 DEF IsHead
      <3>4. Before(f, e) <=> Promise!Earlier(OptionOf(f), OptionOf(e))
        BY <3>1, LiveOrder
      <3>. QED BY <3>1, <3>3, <3>4
    <2>2. Promise!Waiting(OptionOf(e))
      BY OptionsAreEntries
    <2>. QED BY <2>1, <2>2 DEF Promise!FirstInLine
  <1>3. ASSUME Promise!FirstInLine(OptionOf(e)) PROVE IsHead(e)
    <2> SUFFICES ASSUME NEW f \in queue, Live(f),
                        ClassOf(DemandOf(f)) = ClassOf(DemandOf(e))
                 PROVE  ~Before(f, e)
      BY DEF IsHead
    <2>1. OptionOf(f) \in Promise!Options /\ Promise!Waiting(OptionOf(f))
      BY OptionsAreEntries
    <2>2. Promise!SameLine(Promise!DemandOf(OptionOf(f)), Promise!DemandOf(OptionOf(e)))
      BY <1>1
    <2>3. ~Promise!Earlier(OptionOf(f), OptionOf(e))
      BY <1>3, <2>1, <2>2 DEF Promise!FirstInLine
    <2>4. Before(f, e) <=> Promise!Earlier(OptionOf(f), OptionOf(e))
      BY LiveOrder
    <2>. QED BY <2>3, <2>4
  <1>. QED BY <1>2, <1>3

\* An option can start exactly when its entry can go
LEMMA GoersStart ==
    ASSUME Inv, Counted, batch = {}
    PROVE  /\ \A e \in queue : CanGo(e) => Promise!CanStart(OptionOf(e))
           /\ \A o \in Promise!Options : Promise!CanStart(o) =>
                 \E e \in queue : CanGo(e) /\ OptionOf(e) = o
  <1>1. ASSUME NEW e \in queue
        PROVE  /\ e.t <= clock
               /\ Promise!Fits(Promise!DemandOf(OptionOf(e))) <=> Satisfiable(DemandOf(e))
    <2>1. DemandOf(e) \in Demand /\ e.t <= clock
      BY EntryFacts, MarksReach DEF Inv, Entries
    <2>2. Promise!DemandOf(OptionOf(e)) = DemandOf(e)
      BY OptionsAreEntries
    <2>. QED BY <2>1, <2>2, OnceDropped
  <1>2. ASSUME NEW e \in queue, CanGo(e) PROVE Promise!CanStart(OptionOf(e))
    <2>1. IsHead(e) /\ Live(e) /\ Satisfiable(DemandOf(e))
      BY <1>2 DEF CanGo, IsHead
    <2>2. Promise!FirstInLine(OptionOf(e))
      BY <2>1, HeadsAreFirst
    <2>. QED BY <1>1, <2>1, <2>2 DEF Promise!CanStart
  <1>3. ASSUME NEW o \in Promise!Options, Promise!CanStart(o)
        PROVE  \E e \in queue : CanGo(e) /\ OptionOf(e) = o
    <2>1. Promise!FirstInLine(o) /\ Promise!Fits(Promise!DemandOf(o))
      BY <1>3 DEF Promise!CanStart
    <2>2. PICK e \in queue : Live(e) /\ OptionOf(e) = o
      BY <2>1, OptionsAreEntries DEF Promise!FirstInLine
    <2>3. IsHead(e)
      BY <2>1, <2>2, HeadsAreFirst
    <2>4. Satisfiable(DemandOf(e)) /\ e.t <= clock
      BY <1>1, <2>1, <2>2
    <2>. QED BY <2>2, <2>3, <2>4 DEF CanGo
  <1>. QED BY <1>2, <1>3

\* Once an operation is over, nobody could have started
LEMMA IdleIsSettled ==
    ASSUME Inv, Counted, Idle
    PROVE  Promise!Settled
  <1> SUFFICES ASSUME NEW o \in Promise!Options, Promise!Overdue(o) PROVE FALSE
    BY DEF Promise!Settled
  <1>1. batch = {} /\ dirty = {} /\ ready = {}
    BY DEF Idle, Draining
  <1>2. PICK e \in queue : CanGo(e) /\ OptionOf(e) = o
    BY <1>1, GoersStart DEF Promise!Overdue
  <1>3. Promise!DemandOf(OptionOf(e)) = DemandOf(e)
    BY <1>1, OptionsAreEntries
  <1>4. Asks(DemandOf(e)) \cap risen = {}
    BY <1>2, <1>3 DEF Promise!Overdue, Promise!Asks, Asks
  <1>. QED BY <1>1, <1>2, <1>4 DEF Inv, Wakeful

\* The abstract state the manager begins in
LEMMA PromiseInit == Init => Promise!Init
  BY DEF Init, Promise!Init

\* The grant of a ready head is the start of its option, and nobody overdue came before
LEMMA GrantIsStart ==
    ASSUME Inv, Counted, NEW r \in ready, Grant(r)
    PROVE  \E o \in Promise!Options : Promise!Start(o)
  <1> DEFINE e == EntryOf(r)
             o == OptionOf(e)
  <1>1. /\ batch = {} /\ batch' = {} /\ dirty = {}
        /\ e \in queue /\ CanGo(e) /\ Live(e)
        /\ e.id = r.id /\ e.alt = r.alt /\ e.seq = r.seq /\ e.t = r.t
    BY DEF Grant, Grantable, CanGo, IsHead, EntryOf
  <1>2. r.id \in Ids /\ o = <<r.id, r.alt>>
    BY <1>1, EntryFacts DEF OptionOf, Inv, Entries
  <1>3. o \in Promise!Options /\ Promise!CanStart(o)
    BY <1>1, OptionsAreEntries, GoersStart
  <1>4. ASSUME NEW q \in Promise!Options, Promise!Overdue(q)
        PROVE  ~Promise!Earlier(q, o)
    <2>1. PICK f \in queue : CanGo(f) /\ OptionOf(f) = q
      BY <1>1, <1>4, GoersStart DEF Promise!Overdue
    <2>2. Promise!DemandOf(OptionOf(f)) = DemandOf(f)
      BY <1>1, OptionsAreEntries
    <2>3. Asks(DemandOf(f)) \cap risen = {}
      BY <1>4, <2>1, <2>2 DEF Promise!Overdue, Promise!Asks, Asks
    <2>4. Ready(f, TRUE) \in ready
      BY <1>1, <2>1, <2>3 DEF Inv, Wakeful
    <2>5. ~Before(f, e)
      BY <1>1, <2>4 DEF Grant, Popped, Before, Ready
    <2>6. Live(f)
      BY <2>1 DEF CanGo, IsHead
    <2>. QED BY <1>1, <2>1, <2>5, <2>6, LiveOrder
  <1>5. /\ status' = [status EXCEPT ![r.id] = "active"]
        /\ choice' = [choice EXCEPT ![r.id] = r.alt]
        /\ UNCHANGED <<clock, ticket, nextSeq, risen>>
    BY DEF Grant
  <1>6. status \in [Ids -> {"absent", "queued", "active"}] /\ choice \in [Ids -> Nat]
    BY DEF Inv, Entries, Typed, TypeOK
  <1> HIDE DEF o, e
  <1>7. [id \in Ids |-> IF status[id] = "queued" /\ id \notin batch THEN ticket[id] + 1 ELSE 0]'
           = [[id \in Ids |-> IF status[id] = "queued" /\ id \notin batch
                              THEN ticket[id] + 1 ELSE 0] EXCEPT ![o[1]] = 0]
    <2>1. /\ batch = {} /\ batch' = {} /\ ticket' = ticket /\ o[1] = r.id
          /\ \A id \in Ids : status'[id] = IF id = r.id THEN "active" ELSE status[id]
      BY <1>1, <1>2, <1>5, <1>6
    <2>. QED BY <2>1
  <1>8. [id \in Ids |-> IF id \in batch THEN 0 ELSE choice[id]]'
           = [[id \in Ids |-> IF id \in batch THEN 0 ELSE choice[id]] EXCEPT ![o[1]] = o[2]]
    BY <1>1, <1>2, <1>5, <1>6
  <1>9. Promise!Start(o)
    BY <1>3, <1>4, <1>5, <1>7, <1>8 DEF Promise!Start
  <1>. QED BY <1>3, <1>9

\* Every step of the manager is a step of the allocation, or none
LEMMA PromiseStep ==
    ASSUME Inv, Counted, [Next]_vars
    PROVE  [Promise!Next]_(Promise!vars)
  <1> USE DEF Inv, Entries, Typed, TypeOK
  <1>1. ASSUME NEW id \in Ids, Enqueue(id) PROVE Promise!Next
    <2>1. Promise!Settled /\ batch = {} /\ batch' = {}
      BY <1>1, IdleIsSettled DEF Enqueue, Idle, Draining
    <2>2. Promise!Arrive(id)
      BY <1>1, <2>1 DEF Enqueue, Admissible, Counted, Promise!Arrive
    <2>. QED BY <2>2 DEF Promise!Next
  <1>2. ASSUME NEW S \in SUBSET Ids, Release(S) \/ Cancel(S) PROVE Promise!Next
    <2>1. Promise!Settled /\ batch = {}
      BY <1>2, IdleIsSettled DEF Release, Cancel, Idle, Draining
    <2>2. PICK T \in SUBSET Ids : batch' = T
      BY <1>2 DEF Release, Cancel
    <2>3. UNCHANGED <<clock, status, ticket, choice, nextSeq, risen>>
      BY <1>2 DEF Release, Cancel
    <2>4. Promise!Leave(T)
      BY <2>1, <2>2, <2>3 DEF Promise!Leave
    <2>. QED BY <2>4 DEF Promise!Next
  <1>3. ASSUME NEW p \in Pools, Refresh(p) PROVE Promise!Next
    <2>1. Promise!Settled
      BY <1>3, IdleIsSettled DEF Refresh
    <2>2. Promise!Offer(p)
      BY <1>3, <2>1 DEF Refresh, Promise!Offer
    <2>. QED BY <2>2 DEF Promise!Next
  <1>4. ASSUME Evaluate PROVE UNCHANGED Promise!vars
    BY <1>4 DEF Evaluate, Promise!vars
  <1>5. ASSUME NEW id \in Ids, Drop(id) PROVE UNCHANGED Promise!vars
    BY <1>5 DEF Drop, Promise!vars
  <1>6. ASSUME NEW r \in ready, Grant(r) PROVE Promise!Next
    BY <1>6, GrantIsStart DEF Promise!Next
  <1>7. ASSUME NEW r \in ready, Skip(r) PROVE UNCHANGED Promise!vars
    BY <1>7 DEF Skip, Promise!vars
  <1>8. ASSUME Tick PROVE Promise!Next
    <2>1. Promise!Settled
      BY <1>8, IdleIsSettled DEF Tick
    <2>2. clock' \in 0 .. MaxTime
      BY <1>8, BoundsAssumption DEF Tick, Instants
    <2>3. Promise!Tick
      BY <1>8, <2>1, <2>2 DEF Tick, Promise!Tick
    <2>. QED BY <2>3 DEF Promise!Next
  <1>9. ASSUME UNCHANGED vars PROVE UNCHANGED Promise!vars
    BY <1>9 DEF vars, Promise!vars
  <1>. QED BY <1>1, <1>2, <1>3, <1>4, <1>5, <1>6, <1>7, <1>8, <1>9 DEF Next

\* The manager keeps its promise: with its class queues, tombstones, dirty marks and ready
\* heap it does what a single list of requests in order of arrival would, where the
\* earliest that can start starts before anybody else is heard, and whoever leaves takes
\* all its places and units with it at once.
THEOREM KeepsThePromise == Spec => ImplementsAllocation
  <1>1. Inv /\ Counted /\ [Next]_vars => [Promise!Next]_(Promise!vars)
    BY PromiseStep
  <1>. QED BY PromiseInit, AlwaysCounted, <1>1, PTL DEF Spec, ImplementsAllocation, Promise!Spec
=============================================================================
