---------------------------- MODULE ResourceManager ----------------------------
(*****************************************************************************)
(* The deterministic pool manager of packages/engine/src/core/resources.ts:  *)
(* per-class FIFO queues, atomic AND acquisition, OR requests queued once    *)
(* per alternative, and the drain loop that turns released units into        *)
(* grants.                                                                   *)
(*                                                                           *)
(* The code runs synchronously on one thread.  An operation (enqueue,        *)
(* release, cancel, refresh) is its first action plus the steps of its loops *)
(* up to the state where nothing is left to do (Idle); no other operation    *)
(* starts before that.                                                       *)
(*                                                                           *)
(* The quantities an entry asks for are a demand: a function from pools to   *)
(* numbers, 0 for a pool it does not name.                                   *)
(*****************************************************************************)
EXTENDS Integers, Sequences, FiniteSets

CONSTANTS
    Pools,        \* resource pools of the scenario
    Ids,          \* request ids (activity instances of the simulator)
    Alternatives, \* id -> sequence of demands: one per alternative of an OR,
                  \* exactly one for a single-pool or an AND request
    Capacity,     \* pool -> ceiling of the week
    CapacityAt,   \* pool -> instant -> units there are at that instant
    MaxTime,      \* bound on the clock
    MaxSeq        \* bound on the number of enqueued requests

Demand == [Pools -> Nat]
Instants == 0 .. MaxTime

ASSUME BoundsAssumption == MaxTime \in Nat /\ MaxSeq \in Nat
ASSUME CapacityAssumption ==
    /\ Capacity \in [Pools -> Nat \ {0}]
    /\ CapacityAt \in [Pools -> [Instants -> Nat \ {0}]]
    /\ \A p \in Pools, t \in Instants : CapacityAt[p][t] <= Capacity[p]
ASSUME AlternativesAssumption == Alternatives \in [Ids -> Seq(Demand)]

VARIABLES
    clock,    \* the instant `at` every operation is called with
    used,     \* pool -> units handed out
    status,   \* id -> absent from #requests, queued or active
    ticket,   \* id -> the seq of its queued state
    choice,   \* id -> the alternative it holds, 0 when it is not active
    queue,    \* every entry of every class queue, tombstones included
    nextSeq,  \* #nextSeq
    batch,    \* ids of the running release or cancel still to be freed
    dirty,    \* classes to evaluate before the drain goes on
    ready,    \* #ready; fresh is false once the class version has moved on
    risen     \* pools whose capacity rose at clock, not refreshed yet

vars == <<clock, used, status, ticket, choice, queue, nextSeq,
          batch, dirty, ready, risen>>

-----------------------------------------------------------------------------

Asks(d) == {p \in Pools : d[p] > 0}

\* Definitions named Faulty... are deliberate faults: each stands just before the
\* definition it would replace and breaks one property.  Nothing uses them.
FaultyClassOf(d) == d  \* quantity left in the key of a single-pool class

\* #classKey: every single-pool demand on p shares one class whatever its
\* quantity; an AND class is its whole signature.
ClassOf(d) ==
    IF \E p \in Pools : Asks(d) = {p}
    THEN [p \in Pools |-> IF d[p] > 0 THEN 1 ELSE 0]
    ELSE d

AltsOf(id) == DOMAIN Alternatives[id]
DemandOf(e) == Alternatives[e.id][e.alt]
ClassesOf(id) == {ClassOf(Alternatives[id][a]) : a \in AltsOf(id)}
Classes == UNION {ClassesOf(id) : id \in Ids}

\* PoolState.classes of the pools in P
ClassesOfPools(P) == {c \in Classes : Asks(c) \cap P # {}}

\* The comparator of the class heaps and of ReadyHeap
Before(e, f) ==
    \/ e.t < f.t
    \/ e.t = f.t /\ e.seq < f.seq
    \/ e.t = f.t /\ e.seq = f.seq /\ e.alt < f.alt

\* the seq of the queued state is not compared
FaultyLive(e) == status[e.id] = "queued"

\* #head: an entry counts only while its request is queued under its own seq
Live(e) == status[e.id] = "queued" /\ ticket[e.id] = e.seq
IsHead(e) ==
    /\ e \in queue
    /\ Live(e)
    /\ \A f \in queue :
          Live(f) /\ ClassOf(DemandOf(f)) = ClassOf(DemandOf(e)) => ~Before(f, e)

\* the ceiling of the week instead of the capacity at this instant
FaultySatisfiable(d) == \A p \in Asks(d) : Capacity[p] - used[p] >= d[p]

Satisfiable(d) == \A p \in Asks(d) : CapacityAt[p][clock] - used[p] >= d[p]

\* #validate
Admissible(id) ==
    /\ status[id] = "absent"
    /\ AltsOf(id) # {}
    /\ \A a \in AltsOf(id) :
          /\ Asks(Alternatives[id][a]) # {}
          /\ \A p \in Pools : Alternatives[id][a][p] <= Capacity[p]

Draining == batch # {} \/ dirty # {} \/ ready # {}
Idle == ~Draining

-----------------------------------------------------------------------------

Init ==
    /\ clock = 0
    /\ used = [p \in Pools |-> 0]
    /\ status = [id \in Ids |-> "absent"]
    /\ ticket = [id \in Ids |-> 0]
    /\ choice = [id \in Ids |-> 0]
    /\ queue = {}
    /\ nextSeq = 0
    /\ batch = {}
    /\ dirty = {}
    /\ ready = {}
    /\ risen = {}

\* enqueue: one seq for all the alternatives
Enqueue(id) ==
    /\ Idle
    /\ nextSeq < MaxSeq
    /\ Admissible(id)
    /\ queue' = queue \cup
          {[id |-> id, t |-> clock, seq |-> nextSeq, alt |-> a] : a \in AltsOf(id)}
    /\ status' = [status EXCEPT ![id] = "queued"]
    /\ ticket' = [ticket EXCEPT ![id] = nextSeq]
    /\ nextSeq' = nextSeq + 1
    /\ dirty' = ClassesOf(id)
    /\ UNCHANGED <<clock, used, choice, batch, ready, risen>>

\* release: refused (E-REC-LIBERACION) unless every id is active
Release(S) ==
    /\ Idle
    /\ \A id \in S : status[id] = "active"
    /\ batch' = S
    /\ UNCHANGED <<clock, used, status, ticket, choice, queue, nextSeq,
                   dirty, ready, risen>>

\* cancel: ids that are not there are passed over
Cancel(S) ==
    /\ Idle
    /\ batch' = {id \in S : status[id] # "absent"}
    /\ UNCHANGED <<clock, used, status, ticket, choice, queue, nextSeq,
                   dirty, ready, risen>>

\* cancelling forgets to free what an active request holds
FaultyDrop(id) ==
    /\ id \in batch
    /\ dirty' = dirty \cup ClassesOf(id)
    /\ status' = [status EXCEPT ![id] = "absent"]
    /\ ticket' = [ticket EXCEPT ![id] = 0]
    /\ choice' = [choice EXCEPT ![id] = 0]
    /\ batch' = batch \ {id}
    /\ UNCHANGED <<clock, used, queue, nextSeq, ready, risen>>

\* One turn of the loop of release or cancel: free or withdraw, mark, delete
Drop(id) ==
    /\ id \in batch
    /\ IF status[id] = "active"
       THEN LET d == Alternatives[id][choice[id]] IN
            /\ used' = [p \in Pools |-> used[p] - d[p]]
            /\ dirty' = dirty \cup ClassesOfPools(Asks(d))
       ELSE /\ dirty' = dirty \cup ClassesOf(id)
            /\ UNCHANGED used
    /\ status' = [status EXCEPT ![id] = "absent"]
    /\ ticket' = [ticket EXCEPT ![id] = 0]
    /\ choice' = [choice EXCEPT ![id] = 0]
    /\ batch' = batch \ {id}
    /\ UNCHANGED <<clock, queue, nextSeq, ready, risen>>

\* pool ids instead of class keys are marked
\* nothing is marked: the queue of the pool sleeps on
FaultyQuietRefresh(p) ==
    /\ Idle
    /\ p \in risen
    /\ risen' = risen \ {p}
    /\ UNCHANGED <<clock, used, status, ticket, choice, queue, nextSeq,
                   batch, dirty, ready>>

\* refresh: called by the simulator's capacity event for a pool that rose
Refresh(p) ==
    /\ Idle
    /\ p \in risen
    /\ risen' = risen \ {p}
    /\ dirty' = ClassesOfPools({p})
    /\ UNCHANGED <<clock, used, status, ticket, choice, queue, nextSeq,
                   batch, ready>>

\* A ReadyHead, the entry it was made from, and the test of its head that
\* #evaluate makes and #drain repeats
Ready(e, fresh) ==
    [id |-> e.id, t |-> e.t, seq |-> e.seq, alt |-> e.alt, fresh |-> fresh]
EntryOf(r) == [id |-> r.id, t |-> r.t, seq |-> r.seq, alt |-> r.alt]
CanGo(e) == IsHead(e) /\ e.t <= clock /\ Satisfiable(DemandOf(e))

\* #evaluate of every dirty class: bump its version, drop the tombstones that
\* reached its front, and push its head if it can start now.
Evaluate ==
    /\ batch = {}
    /\ dirty # {}
    /\ queue' = {e \in queue :
          \/ ClassOf(DemandOf(e)) \notin dirty
          \/ \E f \in queue : /\ Live(f)
                              /\ ClassOf(DemandOf(f)) = ClassOf(DemandOf(e))
                              /\ ~Before(e, f)}
    /\ ready' = {r \in ready : ClassOf(DemandOf(r)) \notin dirty}
                \cup
                {Ready(r, FALSE) : r \in {s \in ready : ClassOf(DemandOf(s)) \in dirty}}
                \cup
                {Ready(e, TRUE) : e \in {h \in queue : /\ ClassOf(DemandOf(h)) \in dirty
                                                      /\ CanGo(h)}}
    /\ dirty' = {}
    /\ UNCHANGED <<clock, used, status, ticket, choice, nextSeq, batch, risen>>

Grantable(r) == r.fresh /\ CanGo(EntryOf(r))
FaultyPopped(r) == r \in ready  \* any ready head, not the least
Popped(r) == r \in ready /\ \A s \in ready : ~Before(s, r)

\* What a grant of r marks: the classes it is withdrawn from, whose fronts may
\* now be tombstones, and those of the pools it takes from.
FaultyWithdrawn(r) == ClassesOfPools(Asks(DemandOf(r)))
MarkedByGrant(r) == ClassesOf(r.id) \cup ClassesOfPools(Asks(DemandOf(r)))

\* The drain loop takes the least ready head and starts it ...
Grant(r) ==
    /\ batch = {} /\ dirty = {}
    /\ Popped(r)
    /\ Grantable(r)
    /\ queue' = queue \ {EntryOf(r)}
    /\ used' = [p \in Pools |-> used[p] + DemandOf(r)[p]]
    /\ status' = [status EXCEPT ![r.id] = "active"]
    /\ choice' = [choice EXCEPT ![r.id] = r.alt]
    /\ dirty' = MarkedByGrant(r)
    /\ ready' = ready \ {r}
    /\ UNCHANGED <<clock, ticket, nextSeq, batch, risen>>

\* ... or passes over it
Skip(r) ==
    /\ batch = {} /\ dirty = {}
    /\ Popped(r)
    /\ ~Grantable(r)
    /\ ready' = ready \ {r}
    /\ UNCHANGED <<clock, used, status, ticket, choice, queue, nextSeq,
                   batch, dirty, risen>>

\* The simulator moves on to a later instant once it has served the capacity
\* event of every pool that rose at this one.
Tick ==
    /\ Idle
    /\ risen = {}
    /\ clock < MaxTime
    /\ clock' = clock + 1
    /\ risen' = {p \in Pools : CapacityAt[p][clock + 1] > CapacityAt[p][clock]}
    /\ UNCHANGED <<used, status, ticket, choice, queue, nextSeq, batch, dirty, ready>>

Drain == Evaluate \/ (\E id \in Ids : Drop(id)) \/ (\E r \in ready : Grant(r) \/ Skip(r))

Next ==
    \/ \E id \in Ids : Enqueue(id)
    \/ \E S \in SUBSET Ids : Release(S) \/ Cancel(S)
    \/ \E p \in Pools : Refresh(p)
    \/ Evaluate
    \/ \E id \in Ids : Drop(id)
    \/ \E r \in ready : Grant(r)
    \/ \E r \in ready : Skip(r)
    \/ Tick

Spec == Init /\ [][Next]_vars
-----------------------------------------------------------------------------

Entry == [id : Ids, t : Instants, seq : Nat, alt : Nat]

TypeOK ==
    /\ clock \in Instants
    /\ used \in [Pools -> Int]
    /\ status \in [Ids -> {"absent", "queued", "active"}]
    /\ ticket \in [Ids -> Nat]
    /\ choice \in [Ids -> Nat]
    /\ queue \subseteq Entry
    /\ nextSeq \in 0 .. MaxSeq
    /\ batch \subseteq Ids
    /\ dirty \subseteq [Pools -> Nat]
    /\ ready \subseteq [id : Ids, t : Instants, seq : Nat, alt : Nat, fresh : BOOLEAN]
    /\ risen \subseteq Pools

\* The units of p that the active requests hold, each told by its holder and a number
HeldUnits(p) ==
    UNION {{id} \X (1 .. Alternatives[id][choice[id]][p]) :
              id \in {i \in Ids : status[i] = "active"}}

\* The counter of every pool is the number of units the active requests hold, and
\* so never goes negative (E-REC-ESTADO of #free cannot be raised).
UsedIsWhatIsHeld == \A p \in Pools : used[p] = Cardinality(HeldUnits(p))

\* A pool never hands out more units than its best moment of the week has,
\* whatever rises and falls of its capacity went by (R-CAL-11).
UsedWithinWeekCeiling == \A p \in Pools : used[p] <= Capacity[p]

\* A queued request has exactly one live entry per alternative, and nobody else
\* has any: the tombstones an OR request left behind never pass for an id that
\* was released and queued again (the seq test of #head).
EntriesMatchRequests ==
    \A id \in Ids :
        /\ {e.alt : e \in {f \in queue : f.id = id /\ Live(f)}}
              = IF status[id] = "queued" THEN AltsOf(id) ELSE {}
        /\ \A e, f \in queue :
              e.id = id /\ f.id = id /\ Live(e) /\ Live(f) /\ e.alt = f.alt => e = f

\* The tests the drain loop repeats on what it pops only ever reject superseded
\* versions: a head pushed by the latest evaluation of its class can start.
FreshReadyIsGrantable ==
    \A r \in ready : r.fresh /\ ClassOf(DemandOf(r)) \notin dirty => Grantable(r)

\* No lost wake-up: once an operation is over, no request that is first in its
\* class can start, except for want of the refresh its pool is about to get.
NoLostWakeup ==
    Idle => \A e \in queue :
        IsHead(e) /\ Satisfiable(DemandOf(e)) => Asks(DemandOf(e)) \cap risen # {}

\* R-REC-5, R-REC-6: of all the requests that could start, the earliest does;
\* the dirty marks of one grant are enough to find it.
EarliestStartsFirst ==
    [][\A id \in Ids :
          status[id] = "queued" /\ status'[id] = "active" =>
             \A e \in queue :
                IsHead(e) /\ Satisfiable(DemandOf(e))
                /\ Asks(DemandOf(e)) \cap risen = {} =>
                    \/ ticket[id] < e.seq
                    \/ e.id = id /\ choice'[id] <= e.alt]_vars

\* A grant respects what the pools have at that very instant, while a fall of
\* capacity takes nothing back: units change hands only by grant and drop.
GrantsWithinCapacityNow ==
    [][\A p \in Pools : used'[p] > used[p] => used'[p] <= CapacityAt[p][clock']]_vars

\* The manager implements the abstract allocation: ids being dropped have
\* already left, and the rest of the loops are stuttering steps.
Promise == INSTANCE Allocation WITH
    place <- [id \in Ids |-> IF status[id] = "queued" /\ id \notin batch
                             THEN ticket[id] + 1 ELSE 0],
    held <- [id \in Ids |-> IF id \in batch THEN 0 ELSE choice[id]],
    arrivals <- nextSeq
ImplementsAllocation == Promise!Spec

\* The loops run to their end, tasks end and capacity events are served.
FairSpec ==
    /\ Spec
    /\ WF_vars(Drain)
    /\ WF_vars(Tick)
    /\ \A p \in Pools : WF_vars(Refresh(p))
    /\ \A id \in Ids : WF_vars(Release({id}))

\* Every request leaves the queue: no wake-up is lost and nobody waits forever
\* for units that others hold (R-REC-4, no partial holding).
EveryRequestIsServed ==
    \A id \in Ids : status[id] = "queued" ~> status[id] # "queued"
=============================================================================
