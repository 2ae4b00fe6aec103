------------------------------ MODULE Allocation ------------------------------
(*****************************************************************************)
(* What the pool manager promises, without queues, heaps, tombstones or dirty *)
(* marks (rules R-REC-1 to R-REC-7 and R-CAL-11 of docs/SEMANTICS.md, as the  *)
(* code implements them).  Requests wait in order of arrival.  Whenever some  *)
(* of them can start, the earliest of those starts, before anybody else is    *)
(* heard.  The units in use are by definition those of the holders.           *)
(*****************************************************************************)
EXTENDS Integers, Sequences, FiniteSets

CONSTANTS Pools, Ids, Alternatives, CapacityAt, MaxTime

VARIABLES
    clock,
    place,    \* id -> its place in the order of arrival, 0 when not waiting
    held,     \* id -> the alternative it holds, 0 when it holds nothing
    arrivals, \* places given so far
    risen     \* pools that have just grown and have not been offered yet

vars == <<clock, place, held, arrivals, risen>>

Asks(d) == {p \in Pools : d[p] > 0}
AltsOf(i) == DOMAIN Alternatives[i]
Options == UNION {{<<i, a>> : a \in AltsOf(i)} : i \in Ids}
DemandOf(o) == Alternatives[o[1]][o[2]]

\* The units of p that are out: each is told by its holder and a number
Out(p) == UNION {{i} \X (1 .. Alternatives[i][held[i]][p]) : i \in {j \in Ids : held[j] # 0}}
InUse(p) == Cardinality(Out(p))
Fits(d) == \A p \in Asks(d) : InUse(p) + d[p] <= CapacityAt[p][clock]

\* All who want one pool only stand in one line; those who want the same
\* several things share another.
SameLine(d, e) == d = e \/ \E p \in Pools : Asks(d) = {p} /\ Asks(e) = {p}
Earlier(o, q) ==
    \/ place[o[1]] < place[q[1]]
    \/ o[1] = q[1] /\ o[2] < q[2]
Waiting(o) == place[o[1]] # 0
FirstInLine(o) ==
    Waiting(o) /\ \A q \in Options :
        Waiting(q) /\ SameLine(DemandOf(q), DemandOf(o)) => ~Earlier(q, o)
CanStart(o) == FirstInLine(o) /\ Fits(DemandOf(o))

\* An option that touches a pool whose growth is still to be offered may or
\* may not be seen yet.
Overdue(o) == CanStart(o) /\ Asks(DemandOf(o)) \cap risen = {}
Settled == \A o \in Options : ~Overdue(o)

Init ==
    /\ clock = 0
    /\ place = [i \in Ids |-> 0]
    /\ held = [i \in Ids |-> 0]
    /\ arrivals = 0
    /\ risen = {}

Arrive(i) ==
    /\ Settled
    /\ place[i] = 0 /\ held[i] = 0
    /\ arrivals' = arrivals + 1
    /\ place' = [place EXCEPT ![i] = arrivals']
    /\ UNCHANGED <<clock, held, risen>>

Start(o) ==
    /\ CanStart(o)
    /\ \A q \in Options : Overdue(q) => ~Earlier(q, o)
    /\ place' = [place EXCEPT ![o[1]] = 0]
    /\ held' = [held EXCEPT ![o[1]] = o[2]]
    /\ UNCHANGED <<clock, arrivals, risen>>

\* Holders and waiters leave together, and nobody starts half way through
Leave(S) ==
    /\ Settled
    /\ place' = [i \in Ids |-> IF i \in S THEN 0 ELSE place[i]]
    /\ held' = [i \in Ids |-> IF i \in S THEN 0 ELSE held[i]]
    /\ UNCHANGED <<clock, arrivals, risen>>

Offer(p) ==
    /\ Settled
    /\ risen' = risen \ {p}
    /\ UNCHANGED <<clock, place, held, arrivals>>

Tick ==
    /\ Settled
    /\ risen = {}
    /\ clock' \in 0 .. MaxTime
    /\ clock' = clock + 1
    /\ risen' = {p \in Pools : CapacityAt[p][clock + 1] > CapacityAt[p][clock]}
    /\ UNCHANGED <<place, held, arrivals>>

Next ==
    \/ \E i \in Ids : Arrive(i)
    \/ \E o \in Options : Start(o)
    \/ \E S \in SUBSET Ids : Leave(S)
    \/ \E p \in Pools : Offer(p)
    \/ Tick

Spec == Init /\ [][Next]_vars
=============================================================================
