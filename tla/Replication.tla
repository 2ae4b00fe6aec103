------------------------------ MODULE Replication ------------------------------
(*****************************************************************************)
(* runReplication of packages/engine/src/core/sim.ts: one replication of the  *)
(* discrete-event simulation of a process model.  Tokens travel through the   *)
(* event heap, tasks wait for units of their pools, boundary timers race the  *)
(* activities they are attached to, joins count, tasks loop or are done by     *)
(* several instances, sub-processes have deadlines and errors, `terminate`    *)
(* kills a case.                                                              *)
(*                                                                           *)
(* One action per event that leaves the heap: the whole handler, with the     *)
(* events it pushes in their order.  The heap is kept as the sequence its     *)
(* (t, seq) order makes of it.  A flow is the node it leads to.  What the     *)
(* random streams decide (durations, branches) is a choice.  The pool manager *)
(* is what ResourceManager checks it to be: Drained is its drain loop, for    *)
(* demands of one unit of each pool.                                          *)
(*****************************************************************************)
EXTENDS Integers, Sequences, FiniteSets, Functions

CONSTANTS
    Models,       \* the process models, with their scenarios, that are run
    InstantLimit, \* instantEventLimit
    NoNode        \* the endId of a case that has not ended

(* A model is a record of                                                     *)
(*   type          node -> its type                                           *)
(*   out           node -> sequence of the nodes its outgoing flows lead to   *)
(*   incoming      node -> number of its incoming flows                       *)
(*   needs         node -> sequence of the sets of pools that can serve it    *)
(*   times         node -> the durations its processingTime can give          *)
(*   borders       node -> sequence of the boundary timers attached to it     *)
(*                 that have a time: one without never fires (R-BND-8)        *)
(*   interrupting  the boundary timers that interrupt their host              *)
(*   starts        the start events, in document order                        *)
(*   triggerCount  start -> number of cases it creates                        *)
(*   intervals     start -> the times between two arrivals                    *)
(*   capacity      pool -> instant -> units; the last instant lasts for ever  *)
(*   horizon       bound on the instants at which capacity changes            *)
(*   tStop         run.duration                                               *)
(*   errors        host -> sequence of its error boundaries that may fire      *)
(*   loop          node -> the most iterations it may take, 0 without a loop    *)
(*   early         the loops that may end before (probability, not count)       *)
(*   instances     multi-instance node -> the numbers of instances             *)
(*   sequential    the multi-instance nodes that take them one by one          *)
(*   inside        node -> the sub-processes that hold it, innermost first     *)
(*   nested        sub-process -> those inside it                              *)
(*   sound         every token of it gets to an end event                     *)

ASSUME ModelsAssumption ==
    \A m \in Models : LET N == DOMAIN m.type IN
        /\ m.type \in [N -> {"start", "task", "timer", "throw", "boundary", "error", "xor",
                             "and", "or", "eventGateway", "end", "terminate"}]
        /\ m.out \in [N -> Seq(N)]
        /\ m.incoming \in [N -> Nat]
        /\ m.needs \in [N -> Seq((SUBSET DOMAIN m.capacity) \ {{}})]
        /\ m.times \in [N -> SUBSET Nat]
        /\ m.borders \in [N \cup DOMAIN m.nested -> Seq(N)]
        /\ m.errors \in [N \cup DOMAIN m.nested -> Seq(N)]
        /\ \A h \in N \cup DOMAIN m.nested :
              /\ \A b \in Range(m.borders[h]) : m.type[b] = "boundary"
              /\ \A b \in Range(m.errors[h]) : m.type[b] = "error"
        /\ m.loop \in [N -> Nat] /\ m.early \subseteq N
        /\ \A n \in DOMAIN m.instances : n \in N /\ m.instances[n] \subseteq Nat
        /\ m.sequential \subseteq DOMAIN m.instances
        /\ m.inside \in [N -> Seq(DOMAIN m.nested)]
        /\ m.interrupting \subseteq N
        /\ m.starts \in Seq(N)
        /\ \A s \in Range(m.starts) : m.triggerCount[s] \in Nat /\ m.intervals[s] \subseteq Nat
        /\ m.capacity \in [DOMAIN m.capacity -> [0 .. m.horizon -> Nat \ {0}]]
        /\ m.horizon \in Nat /\ m.tStop \in Nat
        /\ m.sound \in BOOLEAN
        /\ IsFiniteSet(DOMAIN m.capacity) /\ IsFiniteSet(DOMAIN m.nested)
        /\ NoNode \notin N
ASSUME LimitAssumption == InstantLimit \in Nat

\* Sub-processes hold one another as a tree does, the ones around a node being those around
\* its sub-process (containersOf, isNestedIn); a boundary is in all that holds its host, and in
\* nothing else (interruptSubprocess: "outside `subprocessId` but inside every sub-process that
\* encloses it").  A boundary is attached to one host (attachedTo).
ASSUME ScopesAssumption ==
    \A m \in Models : LET N == DOMAIN m.type
                          Around(n, i) == SubSeq(m.inside[n], i + 1, Len(m.inside[n])) IN
        /\ \A n \in N :
            /\ \A b \in Range(m.borders[n]) \cup Range(m.errors[n]) : m.inside[b] = m.inside[n]
            /\ \A i \in DOMAIN m.inside[n] : LET u == m.inside[n][i] IN
                  /\ \A o \in N : \A j \in DOMAIN m.inside[o] :
                        m.inside[o][j] = u => Around(o, j) = Around(n, i)
                  /\ \A v \in DOMAIN m.nested : u \in m.nested[v] <=> v \in Range(Around(n, i))
                  /\ \A b \in Range(m.borders[u]) \cup Range(m.errors[u]) : m.inside[b] = Around(n, i)
        /\ \A u, v \in DOMAIN m.nested : Range(m.borders[u]) \cap Range(m.borders[v]) # {} => u = v

VARIABLES
    model,   \* the model that is run
    clock,
    heap,    \* the events to come, in the order they will leave the heap
    cases,   \* the cases, in order of arrival
    acts,    \* open activities by id; held is the alternative that serves it
    loops,   \* open loops by the id of their first iteration
    entries, \* open entries into multi-instance tasks by id
    nextAct, \* nextActivityInstanceId
    nextId,  \* nextEntryId and nextSubprocessInstance
    rows,    \* activity id -> how it was closed
    emitted, \* start -> cases it has created
    pending, \* pendingCapacity: pools with a capacity event in the heap
    sizes,   \* activationSize: the tokens of each activation of an OR fork
    blocked, \* blockedGateways: <<event gateway, case>>
    outcome  \* running, or how the replication ended

opened == <<acts, loops, entries, nextAct, nextId, rows>>
vars == <<model, clock, heap, cases, opened, emitted, pending, sizes, blocked, outcome>>

Type == model.type
Nodes == DOMAIN model.type
Out == model.out
Incoming == model.incoming
Needs == model.needs
Times == model.times
Borders == model.borders
Errors(host) == Range(model.errors[host])
Inside == model.inside
Subs == DOMAIN model.nested
Starts == model.starts
Pools == DOMAIN model.capacity
Horizon == model.horizon
TStop == model.tStop

\* f, with x for i
With(f, i, x) == [j \in DOMAIN f \cup {i} |-> IF j = i THEN x ELSE f[j]]
Without(f, S) == [j \in DOMAIN f \ S |-> f[j]]

\* What n rounds of a step make of s: the set of their outcomes
Rounds(s, n, Step(_)) ==
    LET R[k \in 0 .. n] == IF k = 0 THEN {s} ELSE UNION {Step(x) : x \in R[k - 1]}
    IN R[n]

-----------------------------------------------------------------------------
(* The event heap *)

Event(t, kind, c, n, i) == [t |-> t, kind |-> kind, case |-> c, node |-> n, act |-> i]
\* epoch is that of the innermost sub-process that holds n, loop the loop it goes on with
Enter(t, c, n, marks, times, epoch, loop) ==
    [t |-> t, kind |-> "enter", case |-> c, node |-> n, act |-> 0,
     marks |-> marks, times |-> times, epoch |-> epoch, loop |-> loop]

Due == Head(heap)

\* push: after every event that is due no later
Pushed(h, e) ==
    LET p == Cardinality({i \in DOMAIN h : h[i].t <= e.t})
    IN SubSeq(h, 1, p) \o <<e>> \o SubSeq(h, p + 1, Len(h))
PushedNext(s) ==
    IF s.left = <<>> THEN {s}
    ELSE {[heap |-> Pushed(s.heap, Head(s.left)), left |-> Tail(s.left)]}
PushedAll(h, events) ==
    {s.heap : s \in Rounds([heap |-> h, left |-> events], Len(events), PushedNext)}

-----------------------------------------------------------------------------
(* Pools *)

DemandsOf(n) == Range(Needs[n])
DemandsOn(P) == {d \in UNION {DemandsOf(n) : n \in Nodes} : d \cap P # {}}
PoolsOf(n) == UNION DemandsOf(n)

Units(p, t) == model.capacity[p][IF t < Horizon THEN t ELSE Horizon]
Rises(p, t) == {u \in t + 1 .. Horizon : u < TStop /\ Units(p, u) > Units(p, u - 1)}

Waiting(A) == {i \in DOMAIN A : A[i].held = 0 /\ Needs[A[i].node] # <<>>}
WaitsOnPool(p) == \E i \in Waiting(acts) : p \in PoolsOf(acts[i].node)
InUse(A, p) ==
    Cardinality({i \in DOMAIN A : A[i].held # 0 /\ p \in Needs[A[i].node][A[i].held]})
Fits(A, d, t) == \A p \in d : InUse(A, p) < Units(p, t)

Startable(A, marked) ==
    UNION {{<<i, a>> : a \in {b \in DOMAIN Needs[A[i].node] :
                                 /\ Needs[A[i].node][b] \in marked
                                 /\ Fits(A, Needs[A[i].node][b], Due.t)}} : i \in Waiting(A)}
First(S) == {o \in S : \A q \in S : o[1] < q[1] \/ (o[1] = q[1] /\ o[2] <= q[2])}

\* A request is granted its alternative, and startAllocations schedules its end
Granted(s, o) ==
    LET x == s.acts[o[1]]
    IN [acts |-> [s.acts EXCEPT ![o[1]].held = o[2]],
        marked |-> s.marked \cup DemandsOf(x.node) \cup DemandsOn(Needs[x.node][o[2]]),
        events |-> Append(s.events, Event(Due.t + x.lasts, "done", x.case, x.node, o[1]))]

\* The drain loop with some classes marked
Turn(s) ==
    LET S == Startable(s.acts, s.marked)
    IN IF S = {} THEN {s} ELSE {Granted(s, o) : o \in First(S)}
Drained(A, marked) ==
    Rounds([acts |-> A, marked |-> marked, events |-> <<>>], Cardinality(Waiting(A)), Turn)

FaultyDropped(A, ids) ==  \* marks the class of the request, not those of its pools
    Drained(Without(A, ids), UNION {DemandsOf(A[i].node) : i \in ids})

\* release or cancel of the requests of ids, in one batch
Dropped(A, ids) ==
    Drained(Without(A, ids),
            UNION {IF A[i].held # 0 THEN DemandsOn(Needs[A[i].node][A[i].held])
                                    ELSE DemandsOf(A[i].node) : i \in ids})

\* scheduleCapacityRise for some pools: one event per pool at the most
FirstRise(p) == CHOOSE u \in Rises(p, Due.t) : \A v \in Rises(p, Due.t) : u <= v
RiseEvents(P, pend) ==
    LET rising == {p \in P \ pend : Rises(p, Due.t) # {}}
        ps == CHOOSE f \in Bijection(1 .. Cardinality(rising), rising) : TRUE
    IN [k \in 1 .. Cardinality(rising) |-> Event(FirstRise(ps[k]), "capacity", 0, ps[k], 0)]

-----------------------------------------------------------------------------
(* The main loop *)

Running == outcome = "running" /\ heap # <<>> /\ Due.t < TStop

\* the epoch of the innermost sub-process that holds n
EpochAt(k, n) == IF Inside[n] = <<>> THEN 0 ELSE k.subs[Head(Inside[n])].epoch
\* boundaryTarget: a boundary of a loop acts on the iteration in flight
Target(i) == IF i \in DOMAIN loops THEN loops[i].current ELSE i
\* the sub-process a boundary is attached to
HostOf(b) == CHOOSE u \in Subs : b \in Range(Borders[u])

\* Events without a cause left do not move the clock
Live(e) ==
    CASE e.kind = "capacity" -> WaitsOnPool(e.node)
      [] e.kind = "done" -> e.act \in DOMAIN acts
      [] e.kind = "boundary" -> Target(e.act) \in DOMAIN acts
      [] e.kind = "multiBoundary" -> e.act \in DOMAIN entries
      [] e.kind = "deadline" -> /\ cases[e.case].alive
                                /\ cases[e.case].subs[HostOf(e.node)].instance = e.act
      [] e.kind = "enter" /\ Inside[e.node] # <<>> ->
             cases[e.case].alive /\ EpochAt(cases[e.case], e.node) = e.epoch
      [] OTHER -> TRUE

\* An effective event of a case, and the case with its count of events at this instant
Within(e) ==
    LET k == cases[e.case] IN k.alive /\ (e.t > k.instant \/ k.events < InstantLimit)
FaultyOwner(e) == [cases[e.case] EXCEPT !.instant = e.t]  \* nothing is counted
Owner(e) ==
    LET k == cases[e.case]
    IN [k EXCEPT !.instant = e.t, !.events = IF e.t > k.instant THEN 1 ELSE @ + 1]

Serve(kind) == Running /\ Due.kind = kind /\ Live(Due) /\ clock' = Due.t
ServeNode(types) ==
    Serve("enter") /\ Type[Due.node] \in types /\ Within(Due)

\* What a handler works on: the case of the event, and all it may change for it
Now == [k |-> Owner(Due), acts |-> acts, loops |-> loops, entries |-> entries,
        nextAct |-> nextAct, nextId |-> nextId, rows |-> rows, pending |-> pending,
        blocked |-> blocked, events |-> <<>>]

Becomes(w) ==
    /\ cases' = [cases EXCEPT ![Due.case] = w.k]
    /\ heap' \in PushedAll(Tail(heap), w.events)
    /\ acts' = w.acts /\ loops' = w.loops /\ entries' = w.entries
    /\ nextAct' = w.nextAct /\ nextId' = w.nextId
    /\ rows' = w.rows /\ pending' = w.pending /\ blocked' = w.blocked
    /\ UNCHANGED <<model, emitted, outcome>>

\* closeActivity
Logged(log, ids, status) ==
    [i \in DOMAIN log \cup ids |-> IF i \in ids THEN status ELSE log[i]]

\* The activities of ids give up their requests in one batch
Released(w, ids) ==
    {[w EXCEPT !.acts = d.acts, !.events = @ \o d.events] : d \in Dropped(w.acts, ids)}

-----------------------------------------------------------------------------
(* Tokens and the sub-processes that count them *)

\* a sub-process left without tokens closes its instance
Moved(sub, delta) ==
    [sub EXCEPT !.tokens = @ + delta, !.instance = IF sub.tokens + delta <= 0 THEN 0 ELSE @]

\* delta tokens of the case appear at n (adjustInside)
Gain(w, n, delta) ==
    [w EXCEPT !.k.tokens = @ + delta,
              !.k.subs = [u \in Subs |-> IF u \in Range(Inside[n]) THEN Moved(@[u], delta) ELSE @[u]]]

\* The delays that may be drawn for the boundary timers of a host, and the events they make
Delays(host) ==
    {d \in [Range(Borders[host]) -> UNION {Times[b] : b \in Range(Borders[host])}] :
        \A b \in DOMAIN d : d[b] \in Times[b]}
Armed(kind, host, i, delay) ==
    [j \in DOMAIN Borders[host] |->
        LET b == Borders[host][j] IN Event(Due.t + delay[b], kind, Due.case, b, i)]

\* enterSubprocess: the first token inside opens an instance and arms its deadlines
EnterSubprocess(w, u, marks) ==
    LET sub == w.k.subs[u]
    IN IF sub.instance # 0
       THEN {[w EXCEPT !.k.subs[u].tokens = @ + 1]}
       ELSE {[w EXCEPT !.k.subs[u] = [sub EXCEPT !.tokens = sub.tokens + 1, !.instance = w.nextId,
                                                 !.marks = marks],
                       !.nextId = @ + 1,
                       !.events = @ \o Armed("deadline", u, w.nextId, delay)] : delay \in Delays(u)}

\* all that is inside is stale from here on, and the token for b is outside
CancelledTokens(k, u, b) ==
    LET lost == k.subs[u].tokens
        Held(S) == {n \in S : u \in Range(Inside[n])}
    IN [k EXCEPT
        !.tokens = @ + 1 - lost,
        !.ands = Without(@, Held(DOMAIN @)),
        !.ors = Without(@, {key \in DOMAIN @ : Held({key[1]}) # {}}),
        !.subs = [v \in Subs |->
            LET sub == k.subs[v]
            IN IF v \in {u} \cup model.nested[u]
               THEN [sub EXCEPT !.tokens = 0, !.instance = 0, !.epoch = sub.epoch + 1]
               ELSE IF v \in Range(Inside[b]) THEN [sub EXCEPT !.tokens = sub.tokens + 1 - lost]
               ELSE sub]]

FaultyInterruptSubprocess(w, u, b) ==  \* what waits inside at an OR join stays
    LET mine == {i \in DOMAIN w.acts :
                    w.acts[i].case = Due.case /\ u \in Range(Inside[w.acts[i].node])}
    IN Released([w EXCEPT !.rows = Logged(@, mine, "interrupted"),
                          !.k = [CancelledTokens(@, u, b) EXCEPT !.ors = w.k.ors]], mine)

\* interruptSubprocess, up to the token that leaves through b
InterruptSubprocess(w, u, b) ==
    LET mine == {i \in DOMAIN w.acts :
                    w.acts[i].case = Due.case /\ u \in Range(Inside[w.acts[i].node])}
    IN Released([w EXCEPT
           !.rows = Logged(@, mine, "interrupted"),
           !.entries = Without(@, {w.acts[i].entry : i \in mine}),
           !.blocked = {g \in @ : g[2] # Due.case \/ u \notin Range(Inside[g[1]])},
           !.k = CancelledTokens(@, u, b)], mine)

\* The sub-processes a token from n to m leaves, innermost first, and those it enters,
\* outermost first: both but those that hold both nodes (crossingOf)
Path(n, m) ==
    LET shared == Cardinality(Range(Inside[n]) \cap Range(Inside[m]))
        out == SubSeq(Inside[n], 1, Len(Inside[n]) - shared)
        depth == Len(Inside[m]) - shared
    IN out \o [j \in 1 .. depth |-> Inside[m][depth + 1 - j]]

\* A token of w that has left n for m, with the sub-processes it still has to cross
Leaving(w, n, m, marks, times) ==
    [w |-> w, from |-> n, to |-> m, path |-> Path(n, m), marks |-> marks, times |-> times]

\* It crosses the next one.  One that it leaves may send it to an error boundary instead,
\* from where it goes on, if there is somewhere to go
Diverted(x, b, marks) ==
    IF Out[b] = <<>>
    THEN [w |-> x, from |-> b, to |-> NoNode, path |-> <<>>, marks |-> marks, times |-> {}]
    ELSE Leaving(x, b, Head(Out[b]), marks, Times[Head(Out[b])])
Crossing(s) ==
    LET u == Head(s.path)
    IN IF s.path = <<>> THEN {s}
       ELSE IF u \in Range(Inside[s.from])
       THEN {[s EXCEPT !.w.k.subs[u] = Moved(@, -1), !.path = Tail(@)]}
            \cup UNION {{Diverted(x, b, s.marks) : x \in InterruptSubprocess(s.w, u, b)}
                        : b \in Errors(u)}
       ELSE {[s EXCEPT !.w = x, !.path = Tail(@)] : x \in EnterSubprocess(s.w, u, s.marks)}

\* crossSubprocesses, and the token comes to where it was going
Arrived(s) ==
    IF s.to = NoNode THEN s.w
    ELSE [s.w EXCEPT !.events =
            Append(@, Enter(Due.t, Due.case, s.to, s.marks, s.times, EpochAt(s.w.k, s.to), 0))]
Crossed(w, n, m, marks, times) ==
    {Arrived(s) : s \in Rounds(Leaving(w, n, m, marks, times), 2 * Cardinality(Subs), Crossing)}

\* tokens leave one after another, until one of them has its sub-process cancelled
Leave(s) ==
    IF s.left = <<>> \/ EpochAt(s.w.k, s.from) # s.epoch THEN {s}
    ELSE {[s EXCEPT !.w = x, !.left = Tail(@)]
          : x \in Crossed(s.w, s.from, Head(s.left), s.marks,
                          IF s.drawn = {} THEN Times[Head(s.left)] ELSE s.drawn)}
Sent(w, n, targets, marks, drawn) ==
    {s.w : s \in Rounds([w |-> w, from |-> n, left |-> targets, marks |-> marks, drawn |-> drawn,
                         epoch |-> EpochAt(w.k, n)], Len(targets), Leave)}

\* emit, and forward through the first outgoing flow if there is one
Emit(w, n, targets, marks) == Sent(w, n, targets, marks, {})
Forward(w, n, marks) ==
    IF Out[n] = <<>> THEN {w} ELSE Emit(w, n, <<Head(Out[n])>>, marks)

-----------------------------------------------------------------------------
(* Activities *)

\* An activity of n is opened, and it is scheduled or queued for its pools
\* (createActivity, scheduleActivity)
Activity(n, marks, lasts, loop, entry) ==
    [case |-> Due.case, node |-> n, marks |-> marks, lasts |-> lasts, held |-> 0,
     loop |-> loop, entry |-> entry]
Scheduled(w, new) ==
    LET i == w.nextAct
        x == [w EXCEPT !.acts = With(@, i, new), !.nextAct = @ + 1]
        n == new.node
    IN IF Needs[n] = <<>>
       THEN {[x EXCEPT !.events = Append(@, Event(Due.t + new.lasts, "done", Due.case, n, i))]}
       ELSE {LET rises == IF i \in Waiting(d.acts) THEN RiseEvents(PoolsOf(n), w.pending)
                          ELSE <<>>
             IN [x EXCEPT !.acts = d.acts, !.events = @ \o d.events \o rises,
                          !.pending = @ \cup {rises[j].node : j \in DOMAIN rises}]
             : d \in Drained(x.acts, DemandsOf(n))}

FaultyArranged(w, armed, new) ==  \* boundaries last
    {[x EXCEPT !.events = @ \o armed] : x \in Scheduled(w, new)}
\* its boundaries are armed first
Arranged(w, armed, new) == Scheduled([w EXCEPT !.events = @ \o armed], new)

\* enableInstance
Enabled(w, e) ==
    UNION {Scheduled([w EXCEPT !.entries[e].enabled = @ + 1],
                     Activity(w.entries[e].node, w.entries[e].marks, lasts, 0, e))
           : lasts \in Times[w.entries[e].node]}
EnableNext(s) == {[s EXCEPT !.w = x] : x \in Enabled(s.w, s.entry)}

\* interruptEntry; on an error the instance that has just completed is in its batch
InterruptEntry(w, e, completed) ==
    LET open == {i \in DOMAIN w.acts : w.acts[i].entry = e} \ completed
    IN Released([w EXCEPT !.rows = Logged(@, open, "interrupted"), !.entries = Without(@, {e})],
                open \cup completed)

-----------------------------------------------------------------------------

Init ==
    /\ model \in Models
    /\ clock = 0
    /\ heap = IF TStop > 0 THEN [i \in DOMAIN Starts |-> Event(0, "arrive", 0, Starts[i], 0)]
                           ELSE <<>>
    /\ cases = <<>>
    /\ acts = << >> /\ loops = << >> /\ entries = << >>
    /\ nextAct = 1 /\ nextId = 1
    /\ rows = << >>
    /\ emitted = [n \in Range(Starts) |-> 0]
    /\ pending = {}
    /\ sizes = <<>>
    /\ blocked = {}
    /\ outcome = "running"

FaultyZombie ==  \* the clock moves all the same
    /\ Running
    /\ ~Live(Due)
    /\ clock' = Due.t
    /\ heap' = Tail(heap)
    /\ pending' = IF Due.kind = "capacity" THEN pending \ {Due.node} ELSE pending
    /\ UNCHANGED <<model, cases, opened, emitted, sizes, blocked, outcome>>

\* Lazy cancellation: an event without a cause left is thrown away
Discard ==
    /\ Running
    /\ ~Live(Due)
    /\ heap' = Tail(heap)
    /\ pending' = IF Due.kind = "capacity" THEN pending \ {Due.node} ELSE pending
    /\ UNCHANGED <<model, clock, cases, opened, emitted, sizes, blocked, outcome>>

\* The token of a case that `terminate` killed
DeadToken ==
    /\ Serve("enter")
    /\ ~cases[Due.case].alive
    /\ heap' = Tail(heap)
    /\ UNCHANGED <<model, cases, opened, emitted, pending, sizes, blocked, outcome>>

\* A case is born with one token, and its start arranges the next arrival
Arrive ==
    /\ Serve("arrive")
    /\ LET n == Due.node
           c == Len(cases) + 1
           enter == Enter(Due.t, c, n, <<>>, Times[n], 0, 0)
       IN
       /\ cases' = Append(cases, [tokens |-> 1, alive |-> TRUE, endId |-> NoNode,
              ands |-> << >>, ors |-> << >>, instant |-> Due.t, events |-> 0,
              subs |-> [u \in Subs |-> [tokens |-> IF u \in Range(Inside[n]) THEN 1 ELSE 0,
                                        instance |-> 0, marks |-> <<>>, epoch |-> 0]]])
       /\ emitted' = [emitted EXCEPT ![n] = @ + 1]
       /\ IF emitted'[n] >= model.triggerCount[n]
          THEN heap' \in PushedAll(Tail(heap), <<enter>>)
          ELSE \E gap \in model.intervals[n] :
                 heap' \in PushedAll(Tail(heap),
                           <<enter>> \o IF Due.t + gap < TStop
                                        THEN <<Event(Due.t + gap, "arrive", 0, n, 0)>>
                                        ELSE <<>>)
    /\ UNCHANGED <<model, opened, pending, sizes, blocked, outcome>>

\* The capacity of a pool has risen: its queue is looked at again
Capacity ==
    /\ Serve("capacity")
    /\ \E drained \in Drained(acts, DemandsOn({Due.node})) :
       LET p == Due.node
           rise == IF \E i \in Waiting(drained.acts) : p \in PoolsOf(drained.acts[i].node)
                   THEN RiseEvents({p}, pending \ {p}) ELSE <<>>
       IN
       /\ acts' = drained.acts
       /\ heap' \in PushedAll(Tail(heap), drained.events \o rise)
       /\ pending' = IF rise = <<>> THEN pending \ {p} ELSE pending
    /\ UNCHANGED <<model, cases, loops, entries, nextAct, nextId, rows, emitted, sizes, blocked,
                   outcome>>

\* An activity completes
Completes == Serve("done") /\ Within(Due)
Ended == acts[Due.act]
Finished == [Now EXCEPT !.rows = Logged(@, {Due.act}, "completed")]

\* loopAgain: what it may answer
Again ==
    LET n == Due.node
    IN IF Ended.loop = 0 \/ loops[Ended.loop].iteration >= model.loop[n] THEN {FALSE}
       ELSE IF n \in model.early THEN BOOLEAN ELSE {TRUE}

\* It gives its units back and its token goes on, or leaves through an error boundary
Done ==
    /\ Completes /\ Ended.entry = 0
    /\ \E exit \in {Due.node} \cup Errors(Due.node) :
       /\ exit = Due.node => FALSE \in Again
       /\ \E w \in Released([Finished EXCEPT !.loops = Without(@, {Ended.loop})], {Due.act}) :
          \E x \in Forward(w, exit, Ended.marks) : Becomes(x)
    /\ UNCHANGED sizes

\* ... or another iteration of it is on its way
Iterate ==
    /\ Completes /\ Ended.entry = 0
    /\ TRUE \in Again
    /\ \E w \in Released(Finished, {Due.act}) :
       LET next == Enter(Due.t, Due.case, Due.node, Ended.marks, Times[Due.node],
                         EpochAt(w.k, Due.node), Ended.loop)
       IN Becomes([w EXCEPT !.loops[Ended.loop].iteration = @ + 1, !.events = Append(@, next)])
    /\ UNCHANGED sizes

\* An instance of a multi-instance task completes (completeInstance): a sequential
\* entry enables the next, and the token leaves with the last
InstanceDone ==
    /\ Completes /\ Ended.entry # 0
    /\ LET e == Ended.entry
           others == {i \in DOMAIN acts : acts[i].entry = e} \ {Due.act}
       IN \E w \in Released(Finished, {Due.act}) :
            IF entries[e].enabled < entries[e].total
            THEN \E x \in Enabled(w, e) : Becomes(x)
            ELSE IF others # {} THEN Becomes(w)
            ELSE \E x \in Forward([w EXCEPT !.entries = Without(@, {e})], Due.node, Ended.marks) :
                    Becomes(x)
    /\ UNCHANGED sizes

\* ... or with the first that has an error, whose units are in the batch of the others
InstanceFails ==
    /\ Completes /\ Ended.entry # 0
    /\ \E b \in Errors(Due.node) : \E w \in InterruptEntry(Finished, Ended.entry, {Due.act}) :
          \E x \in Forward(w, b, Ended.marks) : Becomes(x)
    /\ UNCHANGED sizes

Host == acts[Target(Due.act)]
FaultyHostMarks == <<>>  \* the token forgets which OR fork it came from
HostMarks == Host.marks

Interrupts(kind) == Serve(kind) /\ Due.node \in model.interrupting /\ Within(Due)

\* A boundary timer interrupts its host; the host's token leaves through it
Interrupt ==
    /\ Interrupts("boundary")
    /\ LET i == Target(Due.act)
       IN \E w \in Released([Now EXCEPT !.rows = Logged(@, {i}, "interrupted"),
                                        !.loops = Without(@, {Host.loop})], {i}) :
             \E x \in Forward(w, Due.node, HostMarks) : Becomes(x)
    /\ UNCHANGED sizes

\* ... or a whole entry into a multi-instance task
InterruptMulti ==
    /\ Interrupts("multiBoundary")
    /\ \E w \in InterruptEntry(Now, Due.act, {}) :
          \E x \in Forward(w, Due.node, entries[Due.act].marks) : Becomes(x)
    /\ UNCHANGED sizes

\* ... or an instance of a sub-process; the token has the marks of the one that opened it
InterruptAtDeadline ==
    /\ Interrupts("deadline")
    /\ LET u == HostOf(Due.node)
       IN \E w \in InterruptSubprocess(Now, u, Due.node) :
             \E x \in Forward(w, Due.node, Now.k.subs[u].marks) : Becomes(x)
    /\ UNCHANGED sizes

Notices == \E kind \in {"boundary", "multiBoundary", "deadline"} : Serve(kind)

\* One that does not interrupt adds a token, without the OR marks of the host
Notify ==
    /\ Notices
    /\ Due.node \notin model.interrupting
    /\ Within(Due)
    /\ IF Out[Due.node] = <<>>
       THEN Becomes(Now)
       ELSE \E w \in Forward(Gain(Now, Due.node, 1), Due.node, <<>>) : Becomes(w)
    /\ UNCHANGED sizes

\* start, throw and a merging XOR let the token through
Pass ==
    /\ ServeNode({"start", "throw", "xor"})
    /\ Type[Due.node] = "xor" => Len(Out[Due.node]) <= 1
    /\ \E w \in Forward(Now, Due.node, Due.marks) : Becomes(w)
    /\ UNCHANGED sizes

\* drawXor
Choose ==
    /\ ServeNode({"xor"})
    /\ Len(Out[Due.node]) > 1
    /\ \E target \in Range(Out[Due.node]) :
          \E w \in Emit(Now, Due.node, <<target>>, Due.marks) : Becomes(w)
    /\ UNCHANGED sizes

\* A task or a timer opens an activity; a loop arms its boundaries on its first
\* iteration, and every one is an activity of its own
Open ==
    /\ ServeNode({"task", "timer"})
    /\ Due.node \notin DOMAIN model.instances
    /\ LET n == Due.node
           first == Due.loop = 0
           loop == IF ~first THEN Due.loop ELSE IF model.loop[n] > 0 THEN nextAct ELSE 0
           w == [Now EXCEPT !.loops =
                    IF loop = 0 THEN @
                    ELSE IF first THEN With(@, loop, [iteration |-> 1, current |-> nextAct])
                    ELSE [@ EXCEPT ![loop].current = nextAct]]
       IN \E lasts \in Due.times, delay \in Delays(n) :
            \E x \in Arranged(w, IF first THEN Armed("boundary", n, nextAct, delay) ELSE <<>>,
                              Activity(n, Due.marks, lasts, loop, 0)) : Becomes(x)
    /\ UNCHANGED sizes

\* enterMultiInstance: all the instances at once, or the first of them
OpenMulti ==
    /\ ServeNode({"task"})
    /\ Due.node \in DOMAIN model.instances
    /\ \E total \in model.instances[Due.node] :
       LET n == Due.node
           e == nextId
           count == IF n \in model.sequential THEN 1 ELSE total
           entry == [case |-> Due.case, node |-> n, marks |-> Due.marks, total |-> total,
                     enabled |-> 0]
           w == [Now EXCEPT !.nextId = @ + 1, !.entries = With(@, e, entry)]
       IN IF total = 0
          THEN \E x \in Forward(Now, n, Due.marks) : Becomes(x)
          ELSE \E delay \in Delays(n) :
               LET armed == [w EXCEPT !.events = Armed("multiBoundary", n, e, delay)]
               IN \E s \in Rounds([w |-> armed, entry |-> e], count, EnableNext) : Becomes(s.w)
    /\ UNCHANGED sizes

\* The branches of an event gateway that have a time
Racers(n) == {j \in DOMAIN Out[n] : Times[Out[n][j]] # {}}

\* The branch whose event comes first wins, the first of the document on a tie; it
\* will wait the time it won with
Race ==
    /\ ServeNode({"eventGateway"})
    /\ LET n == Due.node
       IN \E delay \in [Racers(n) -> UNION {Times[Out[n][j]] : j \in Racers(n)}],
             won \in Racers(n) :
            /\ \A j \in Racers(n) :
                  /\ delay[j] \in Times[Out[n][j]]
                  /\ delay[won] < delay[j] \/ (delay[won] = delay[j] /\ won <= j)
            /\ \E w \in Sent(Now, n, <<Out[n][won]>>, Due.marks, {delay[won]}) : Becomes(w)
    /\ UNCHANGED sizes

\* With no branch able to fire the token stays at the gateway for good
Stuck ==
    /\ ServeNode({"eventGateway"})
    /\ Racers(Due.node) = {}
    /\ Becomes([Now EXCEPT !.blocked = @ \cup {<<Due.node, Due.case>>}])
    /\ UNCHANGED sizes

\* the tokens an AND gateway that fires adds to its case
Joined(n) == IF Incoming[n] > 1 THEN Len(Out[n]) - Incoming[n] ELSE Len(Out[n]) - 1

\* How many tokens wait at a join
WaitingAt(key, joins) == IF key \in DOMAIN joins THEN joins[key] ELSE 0

\* An AND join waits until as many tokens have come as it has incoming flows, and
\* an AND fork sends one token through each flow
And ==
    /\ ServeNode({"and"})
    /\ LET n == Due.node
           came == WaitingAt(n, Now.k.ands) + 1
       IN IF Incoming[n] > 1 /\ came < Incoming[n]
          THEN Becomes([Now EXCEPT !.k.ands = With(@, n, came)])
          ELSE \E w \in Emit(Gain([Now EXCEPT !.k.ands = Without(@, {n})], n, Joined(n)),
                              n, Out[n], Due.marks) : Becomes(w)
    /\ UNCHANGED sizes

\* The flows of an OR fork that its conditions may choose, in their order
Choices(flows) ==
    UNION {{[i \in 1 .. k |-> flows[chosen[i]]]
            : chosen \in {f \in [1 .. k -> DOMAIN flows] : \A i \in 1 .. k - 1 : f[i] < f[i + 1]}}
           : k \in 1 .. Len(flows)}

\* An OR join waits for the tokens of the latest activation of its token, and an OR
\* fork activates some of its flows.  A token without activation passes the join.
Or ==
    /\ ServeNode({"or"})
    /\ LET n == Due.node
           joins == Incoming[n] > 1 /\ Due.marks # <<>>
           latest == Due.marks[Len(Due.marks)]
           key == <<n, latest>>
           expected == sizes[latest]
           came == WaitingAt(key, Now.k.ors) + 1
           w == IF joins THEN Gain([Now EXCEPT !.k.ors = Without(@, {key})], n, 1 - expected)
                ELSE Now
           marks == IF joins THEN SubSeq(Due.marks, 1, Len(Due.marks) - 1) ELSE Due.marks
       IN IF joins /\ came < expected
          THEN Becomes([Now EXCEPT !.k.ors = With(@, key, came)]) /\ UNCHANGED sizes
          ELSE IF Len(Out[n]) <= 1
          THEN (\E x \in Forward(w, n, marks) : Becomes(x)) /\ UNCHANGED sizes
          ELSE \E active \in Choices(Out[n]) :
                    /\ sizes' = Append(sizes, Len(active))
                    /\ \E x \in Emit(Gain(w, n, Len(active) - 1), n, active,
                                      Append(marks, Len(sizes) + 1)) : Becomes(x)

\* end consumes the token; the case ends with its last one
End ==
    /\ ServeNode({"end"})
    /\ LET w == Gain(Now, Due.node, -1)
       IN Becomes([w EXCEPT !.k.endId = IF w.k.tokens <= 0 THEN Due.node ELSE @])
    /\ UNCHANGED sizes

\* terminate kills the tokens and the activities of the case ...
Killed(mine) ==
    [Now EXCEPT
       !.k = [@ EXCEPT !.tokens = 0, !.alive = FALSE, !.endId = Due.node,
                       !.ands = << >>, !.ors = << >>],
       !.rows = Logged(@, mine, "terminated"),
       !.loops = Without(@, {acts[i].loop : i \in mine}),
       !.entries = Without(@, {acts[i].entry : i \in mine})]

FaultyTerminate ==  \* what the units given back are granted to is not started
    /\ ServeNode({"terminate"})
    /\ LET mine == {i \in DOMAIN acts : acts[i].case = Due.case}
       IN \E w \in Released(Killed(mine), mine) : Becomes([w EXCEPT !.events = <<>>])
    /\ UNCHANGED sizes

\* ... whose requests are dropped in one batch
Terminate ==
    /\ ServeNode({"terminate"})
    /\ LET mine == {i \in DOMAIN acts : acts[i].case = Due.case}
       IN \E w \in Released(Killed(mine), mine) : Becomes(w)
    /\ UNCHANGED sizes

\* E-LIMITE-SIN-AVANCE
Exceed ==
    /\ \E kind \in {"enter", "done", "boundary", "multiBoundary", "deadline"} : Serve(kind)
    /\ cases[Due.case].alive
    /\ ~Within(Due)
    /\ outcome' = "limit"
    /\ UNCHANGED <<model, heap, cases, opened, emitted, pending, sizes, blocked>>

\* The run is over: open activities are closed and cancelled together
Over(how) ==
    /\ outcome' = how
    /\ rows' = Logged(rows, DOMAIN acts, "inFlight")
    /\ acts' = << >>
    /\ heap' = <<>>
    /\ pending' = {}
    /\ UNCHANGED <<model, cases, loops, entries, nextAct, nextId, emitted, sizes, blocked>>

Drain == outcome = "running" /\ heap = <<>> /\ Over("drained") /\ UNCHANGED clock
Stop ==
    /\ outcome = "running"
    /\ heap # <<>>
    /\ Due.t >= TStop
    /\ Over("stopped")
    /\ clock' = TStop

\* The signal is looked at before an event is taken and once the clock has moved
Abort ==
    /\ outcome = "running"
    /\ Over("cancelled")
    /\ \/ clock' = clock
       \/ Running /\ Live(Due) /\ clock' = Due.t

Serving ==
    \/ Discard \/ DeadToken \/ Arrive \/ Capacity
    \/ Done \/ Iterate \/ InstanceDone \/ InstanceFails
    \/ Interrupt \/ InterruptMulti \/ InterruptAtDeadline \/ Notify
    \/ Pass \/ Choose \/ Open \/ OpenMulti \/ Race \/ Stuck \/ And \/ Or \/ End \/ Terminate \/ Exceed

Next == Serving \/ Drain \/ Stop \/ Abort
Spec == Init /\ [][Next]_vars

-----------------------------------------------------------------------------

EventsOf(c, kind) == {i \in DOMAIN heap : heap[i].case = c /\ heap[i].kind = kind}
ActsOf(c) == {i \in DOMAIN acts : acts[i].case = c}

\* The tokens of a case there are at the nodes of N: on their way, at an activity, in
\* a multi-instance task or at a join.
Kept(f, K) == UNION {{key} \X (1 .. f[key]) : key \in K}
TokensAt(c, N) ==
    LET k == cases[c]
    IN Cardinality({j \in EventsOf(c, "enter") : heap[j].node \in N /\ Live(heap[j])})
       + Cardinality({i \in ActsOf(c) : acts[i].node \in N /\ acts[i].entry = 0})
       + Cardinality({e \in DOMAIN entries : entries[e].case = c /\ entries[e].node \in N})
       + Cardinality(Kept(k.ands, {n \in DOMAIN k.ands : n \in N}))
       + Cardinality(Kept(k.ors, {key \in DOMAIN k.ors : key[1] \in N}))
\* Where it has more stuck at an event gateway than the set blockedGateways tells apart,
\* and where its tokens are lost without being counted out: no flow leaves the node
StuckAt(c, N) == {g \in N : <<g, c>> \in blocked}
DeadEnds == {n \in Nodes : Out[n] = <<>> /\ Type[n] \notin {"end", "terminate"}}

\* The counts of tokens that decide when a case (R-EVT-4) and an instance of a
\* sub-process (R-BND-15) end are the numbers of tokens there are, whatever was
\* interrupted, repeated or cancelled; a sub-process with tokens has an open instance,
\* unless cases are born in it.
Agrees(tokens, c, N) ==
    IF StuckAt(c, N) = {} /\ DeadEnds \cap N = {} THEN tokens = TokensAt(c, N)
    ELSE tokens >= TokensAt(c, N) + Cardinality(StuckAt(c, N))
Births == UNION {Range(Inside[s]) : s \in Range(Starts)}
CountsAgree ==
    outcome = "running" => \A c \in DOMAIN cases : cases[c].alive =>
        /\ Agrees(cases[c].tokens, c, Nodes)
        /\ \A u \in Subs :
              LET sub == cases[c].subs[u]
              IN /\ Agrees(sub.tokens, c, {n \in Nodes : u \in Range(Inside[n])})
                 /\ sub.instance # 0 => sub.tokens > 0
                 /\ sub.tokens > 0 /\ u \notin Births => sub.instance # 0

\* An iteration belongs to an open loop, of which it is the one in flight, and an
\* instance to an open entry, which has one instance at least, one exactly if it is
\* sequential, and never more than it was drawn (R-LOOP-3, R-LOOP-5, R-MI-2..6).
EntriesAgree ==
    outcome = "running" =>
        /\ \A i \in DOMAIN acts :
              /\ acts[i].loop # 0 =>
                    acts[i].loop \in DOMAIN loops /\ loops[acts[i].loop].current = i
              /\ acts[i].entry # 0 => acts[i].entry \in DOMAIN entries
        /\ \A j \in DOMAIN heap :
              heap[j].kind = "enter" /\ heap[j].loop # 0 /\ Live(heap[j])
              /\ cases[heap[j].case].alive => heap[j].loop \in DOMAIN loops
        /\ \A e \in DOMAIN entries :
              LET open == {i \in DOMAIN acts : acts[i].entry = e}
              IN /\ open # {} /\ entries[e].enabled <= entries[e].total
                 /\ entries[e].node \in model.sequential => Cardinality(open) = 1

\* A case that has ended is over: it has no activity, holds no unit, no join of it
\* waits and no token of it that counts is on its way (R-EVT-4, R-EVT-5).
EndedCasesAreOver ==
    \A c \in DOMAIN cases : cases[c].endId # NoNode =>
        /\ ActsOf(c) = {}
        /\ cases[c].ands = << >> /\ cases[c].ors = << >>
        /\ cases[c].alive => \A j \in EventsOf(c, "enter") : ~Live(heap[j])

\* Tokens, loops and multi-instance entries are accounted for, and a case ends with
\* its last token: what decides its end is true at every moment.
TokensAccounted == CountsAgree /\ EntriesAgree /\ EndedCasesAreOver

\* Every activity that is served has exactly one end ahead, and one that waits has
\* none: no unit is kept for ever, whatever interrupts or kills its neighbours.
UnitsComeBack ==
    \A i \in DOMAIN acts :
        Cardinality({k \in DOMAIN heap : heap[k].kind = "done" /\ heap[k].act = i})
            = IF i \in Waiting(acts) THEN 0 ELSE 1

\* Who waits for a pool whose capacity will rise again is going to be woken, once,
\* and at the first rise (R-CAL-11).
WaitersAreWoken ==
    \A i \in Waiting(acts) : \A p \in PoolsOf(acts[i].node) :
        Rises(p, clock) # {} =>
            LET woken == {k \in DOMAIN heap : heap[k].kind = "capacity" /\ heap[k].node = p}
            IN Cardinality(woken) = 1
               /\ \A k \in woken, u \in Rises(p, clock) : heap[k].t <= u

\* Nobody waits for units that are free, unless its pool rises at this very instant,
\* and who waits for a pool that will rise is going to be woken (WaitersAreWoken).
NobodyIsPassedOver ==
    outcome = "running" => \A i \in Waiting(acts) : \A d \in DemandsOf(acts[i].node) :
        Fits(acts, d, clock) =>
            \E k \in DOMAIN heap : heap[k].kind = "capacity" /\ heap[k].t = clock /\ heap[k].node \in d
NoUnitIdles == NobodyIsPassedOver /\ WaitersAreWoken

\* The end of the observation is something that happened to a case: neither a timer
\* of a closed activity nor a rise nobody waits for stretches it (R-ARR-3, R-BND-9).
StoppedAtIsAModelEvent ==
    outcome = "drained" /\ cases # <<>> => \E c \in DOMAIN cases : cases[c].instant = clock

\* An activity does not complete before a boundary of its own, of its loop, of its
\* entry or of a sub-process around it that is due at the same instant has fired
\* (R-BND-7, R-BND-13, R-LOOP-5, R-MI-6, R-BND-16).  A sub-process that cases are born in
\* is left out: its deadline is armed when another token enters it, behind those of a case
\* that is at work inside already.
Covers(e, i) ==
    \/ e.kind = "boundary" /\ Target(e.act) = i
    \/ e.kind = "multiBoundary" /\ e.act = acts[i].entry
    \/ /\ e.kind = "deadline" /\ e.case = acts[i].case /\ Live(e)
       /\ HostOf(e.node) \in Range(Inside[acts[i].node]) \ Births
BoundaryWinsTies ==
    [][\A i \in DOMAIN rows' \ DOMAIN rows :
          rows'[i] = "completed" =>
              \A j \in DOMAIN heap : Covers(heap[j], i) => heap[j].t > clock']_vars

\* When nothing is left to happen every case has come to its end: in a sound model
\* no join is left waiting, whatever was interrupted or drawn (R-OR-5, R-AND-3).
SoundModelsEnd ==
    outcome = "drained" /\ model.sound => \A c \in DOMAIN cases : cases[c].endId # NoNode

\* "It does not matter which release made the availability arrive, because all the
\* releases of a given instant are applied before scheduling" (R-REC-6 of
\* docs/SEMANTICS.md): an OR task does not take a later alternative while an
\* earlier one is given back at the same instant.
FreedAt(t) == {heap[k].act : k \in {j \in DOMAIN heap : heap[j].kind = "done" /\ heap[j].t = t}}
OrTakesTheFirstFree ==
    [][\A i \in Waiting(acts) \cap DOMAIN acts' :
          \A b \in 1 .. acts'[i].held - 1 :
              ~Fits([j \in DOMAIN acts \ FreedAt(clock') |-> acts[j]],
                    Needs[acts[i].node][b], clock')]_vars

\* The loop goes on until it breaks.
FairSpec == Spec /\ WF_vars(Serving \/ Drain \/ Stop)

\* Every replication comes to an end, with cycles that take no time too (R-TOK-7).
EveryRunEnds == <>(outcome # "running")
=============================================================================
