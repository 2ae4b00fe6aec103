------------------------------- MODULE Calendars -------------------------------
(*****************************************************************************)
(* Calendars of packages/engine/src/core/calendar.ts and what core/sim.ts     *)
(* makes of them: weekly and dated calendars compiled from the scenario, their *)
(* union (the slices of a pool) and intersection (the pools of a task), the    *)
(* next opening, working time, open time, and the capacity of a pool.          *)
(*                                                                            *)
(* A scenario is the second at which it starts, counted from a Monday 00:00,   *)
(* the definition of the task's own calendar and those of the slices of its    *)
(* pools.  A civil day is its number; what a recurrence can tell of it is its  *)
(* place in the cycle after which the civil calendar repeats.  What changes is *)
(* the table of days that a dated calendar grows as it is asked, and the       *)
(* answer to the last question.                                                *)
(*****************************************************************************)
EXTENDS Integers, SequencesExt

CONSTANTS
    Day,       \* DAY, the seconds of a day
    WeekDays,  \* the days of a week
    CycleDays, \* CYCLE_DAYS, after which the civil calendar repeats
    FirstStep, \* the first step of the search in the table of days
    Scenarios, \* what is simulated
    Undefined, \* no calendar: always open
    Refused,   \* E-CAL-VACIO
    Stop,      \* tStop of the run
    MaxTime,   \* bound on the instants asked about
    MaxWork    \* bound on the work asked for

Week == WeekDays * Day
Shapes == 0 .. CycleDays - 1

ASSUME CalendarAssumption ==
    /\ {Day, WeekDays, CycleDays, FirstStep} \subseteq Nat \ {0}
    /\ CycleDays % WeekDays = 0
    /\ {Stop, MaxTime, MaxWork} \subseteq Nat
    /\ Undefined # Refused
    /\ \A sc \in Scenarios : sc.start \in Nat

VARIABLES
    scenario,
    plan,    \* its calendar of the task and capacity of the pool, compiled
    subject, \* which calendar is asked: the task's, or the slices of its first pool
    table,   \* DayTable.cum of that calendar: open seconds before each of its days
    answer   \* the last question and what it returned

vars == <<scenario, plan, subject, table, answer>>

-----------------------------------------------------------------------------
(* Lists of intervals <<s, e>>: open from s on, closed from e on *)

Larger(a, b) == IF a > b THEN a ELSE b
Smaller(a, b) == IF a < b THEN a ELSE b

\* the elements of S in the order Before
Sorted(S, Before(_, _)) ==
    [i \in 1 .. Cardinality(S) |-> CHOOSE x \in S : Cardinality({y \in S : Before(y, x)}) = i - 1]

\* what a and b have in common, added up over a list
OpenIn(list, a, b) ==
    FoldLeft(LAMBDA n, i : n + Larger(0, Smaller(i[2], b) - Larger(i[1], a)), 0, list)

\* the intervals that end after p
Later(list, p) == SelectSeq(list, LAMBDA i : i[2] > p)

Holds(list, p) == \E i \in ToSet(list) : i[1] <= p /\ p < i[2]

\* overlapping and adjacent intervals become one
Merge(raw) ==
    LET Join(done, i) ==
            IF i[2] <= i[1] THEN done
            ELSE IF done # <<>> /\ i[1] <= Last(done)[2]
            THEN [done EXCEPT ![Len(done)][2] = Larger(@, i[2])]
            ELSE Append(done, i)
    IN FoldLeft(Join, <<>>, Sorted(raw, LAMBDA i, j : i[1] < j[1] \/ (i[1] = j[1] /\ i[2] < j[2])))

RECURSIVE Common(_, _)
Common(a, b) ==
    IF a = <<>> \/ b = <<>> THEN <<>>
    ELSE LET low == Larger(Head(a)[1], Head(b)[1])
             high == Smaller(Head(a)[2], Head(b)[2])
             rest == IF Head(a)[2] < Head(b)[2] THEN Common(Tail(a), b) ELSE Common(a, Tail(b))
         IN (IF high > low THEN <<<<low, high>>>> ELSE <<>>) \o rest

Joined(a, b) == Merge(ToSet(a) \cup ToSet(b))

\* rest units of work, from p on: the position where they end, or -1 and what is left
RECURSIVE Spend(_, _, _)
Spend(list, p, rest) ==
    IF list = <<>> THEN [at |-> -1, rest |-> rest]
    ELSE LET from == Larger(Head(list)[1], p)
             available == Head(list)[2] - from
         IN IF available <= 0 THEN Spend(Tail(list), p, rest)
            ELSE IF rest <= available THEN [at |-> from + rest, rest |-> 0]
            ELSE Spend(Tail(list), p, rest - available)

-----------------------------------------------------------------------------
(* Compilation *)

Weekday(civil) == civil % WeekDays

Build(raw, offset) ==
    LET list == Merge(raw)
    IN IF list = <<>> THEN Refused
       ELSE [dated |-> FALSE, offset |-> offset, intervals |-> list,
             openPerWeek |-> OpenIn(list, 0, Week)]

\* shape: the days of the cycle; special: those of the one-off holidays
DatedCalendar(offset, epochDay, shape, special) ==
    IF \A s \in Shapes : shape[s] = <<>> THEN Refused
    ELSE [dated |-> TRUE, offset |-> offset, epochDay |-> epochDay,
          shape |-> shape, special |-> special]

IsDatedDef(def) ==
    def.annual \cup def.oneOff # {} \/ \E w \in ToSet(def.windows) : w.on = "dates"

\* one-off holidays that a weekly pattern would not notice do not make it dated
PruneHolidays(def, epochDay) ==
    LET open == UNION {w.days : w \in ToSet(def.windows)}
    IN IF \E w \in ToSet(def.windows) : w.on = "dates" THEN def
       ELSE [def EXCEPT !.oneOff = {h \in @ : h >= epochDay /\ Weekday(h) \in open}]

Matches(w, shape) == (IF w.on = "days" THEN Weekday(shape) ELSE shape) \in w.days

CompileDated(def, offset, epochDay) ==
    LET On(s) == {w \in ToSet(def.windows) : Matches(w, s)}
        shape == [s \in Shapes |-> IF s \in def.annual THEN <<>>
                                   ELSE Merge({<<w.from, w.to>> : w \in On(s)})]
    IN DatedCalendar(offset, epochDay, shape, [h \in def.oneOff |-> <<>>])

CompileCalendar(def, start) ==
    LET offset == start % Week
        epochDay == start \div Day
        kept == PruneHolidays(def, epochDay)
        OfWeek(w) == {<<d * Day + w.from, d * Day + w.to>> : d \in w.days}
    IN IF IsDatedDef(kept) THEN CompileDated(kept, offset, epochDay)
       ELSE Build(UNION {OfWeek(w) : w \in ToSet(def.windows)}, offset)

NeverOpens(def) == IsDatedDef(def) /\ CompileDated(def, 0, 0) = Refused

\* one entry of compileCalendars; a slice or a task may have no calendar
Compiled(def, start) ==
    IF def = Undefined THEN Undefined
    ELSE IF def.windows = <<>> \/ NeverOpens(def) THEN Refused
    ELSE CompileCalendar(def, start)

\* a weekly calendar day by day, as shapes
AsShapes(cal) ==
    LET Clip(i, w) == <<Larger(i[1] - w * Day, 0), Smaller(i[2] - w * Day, Day)>>
        OfDay(w) == FoldLeft(LAMBDA days, i : IF Clip(i, w)[2] > Clip(i, w)[1]
                                              THEN Append(days, Clip(i, w)) ELSE days,
                             <<>>, cal.intervals)
    IN IF cal.dated THEN cal.shape ELSE [s \in Shapes |-> OfDay(Weekday(s))]

OneOff(cal) == IF cal.dated THEN DOMAIN cal.special ELSE {}

\* Dated.day
DayOf(cal, civil) ==
    IF civil \in OneOff(cal) THEN cal.special[civil] ELSE AsShapes(cal)[civil % CycleDays]

\* open when both are, or when either is
CombineDated(a, b, both) ==
    LET epochDay == (IF a.dated THEN a ELSE b).epochDay
        Op(left, right) == IF both THEN Common(left, right) ELSE Joined(left, right)
        shape == [s \in Shapes |-> Op(AsShapes(a)[s], AsShapes(b)[s])]
    IN DatedCalendar(a.offset, epochDay, shape,
                     [h \in OneOff(a) \cup OneOff(b) |-> Op(DayOf(a, h), DayOf(b, h))])

Intersect(a, b) ==
    IF a.dated \/ b.dated THEN CombineDated(a, b, TRUE)
    ELSE Build(ToSet(Common(a.intervals, b.intervals)), a.offset)

Unite(a, b) ==
    IF a.dated \/ b.dated THEN CombineDated(a, b, FALSE)
    ELSE Build(ToSet(a.intervals) \cup ToSet(b.intervals), a.offset)

\* the slices of pool, compiled
Slices(pool, start) ==
    [i \in DOMAIN pool |-> [calendar |-> Compiled(pool[i].def, start), capacity |-> pool[i].capacity]]

\* open while any slice is; a slice without calendar always is
PoolCalendar(slices) ==
    LET calendars == [i \in DOMAIN slices |-> slices[i].calendar]
    IN IF Undefined \in ToSet(calendars) THEN Undefined
       ELSE FoldLeft(Unite, Head(calendars), Tail(calendars))

ActivityCalendar(own, pools) ==
    LET With(cal, slices) ==
            LET pool == PoolCalendar(slices)
            IN IF cal = Refused \/ pool = Undefined THEN cal
               ELSE IF cal = Undefined THEN pool
               ELSE Intersect(cal, pool)
    IN FoldLeft(With, own, pools)

-----------------------------------------------------------------------------
(* A weekly calendar *)

Pos(cal, t) == (t + cal.offset) % Week

WeeklyNextOpen(cal, t) ==
    LET p == Pos(cal, t)
        later == Later(cal.intervals, p)
    IN IF later = <<>> THEN t + (Week - p) + cal.intervals[1][1]
       ELSE IF later[1][1] > p THEN t + (later[1][1] - p) ELSE t

\* an exact number of weeks keeps its last one, to end where it closes
RECURSIVE WalkWeeks(_, _, _, _)
WalkWeeks(cal, weekBase, p, rest) ==
    LET spent == Spend(cal.intervals, p, rest)
    IN IF spent.at >= 0 THEN weekBase + spent.at ELSE WalkWeeks(cal, weekBase + Week, 0, spent.rest)

WeeklyAddWorkingTime(cal, t, d) ==
    LET exact == d % cal.openPerWeek = 0 /\ d >= cal.openPerWeek
        weeks == (d \div cal.openPerWeek) - (IF exact THEN 1 ELSE 0)
        base == t + weeks * Week
        p == Pos(cal, base)
    IN IF cal.openPerWeek = Week THEN t + d
       ELSE WalkWeeks(cal, base - p, p, d - weeks * cal.openPerWeek)

WeeklyOpenTime(cal, a, b) ==
    LET weeks == (b - a) \div Week
        from == Pos(cal, a + weeks * Week)
        to == from + (b - a - weeks * Week)
    IN weeks * cal.openPerWeek
       + OpenIn(cal.intervals, from, to) + OpenIn(cal.intervals, from - Week, to - Week)

-----------------------------------------------------------------------------
(* A dated calendar: days are counted from that of t = 0.  Whatever looks at   *)
(* the table may have to grow it first, and returns it with its value.         *)

DayAt(cal, t) == (t + (cal.offset % Day)) \div Day
Midnight(cal, k) == k * Day - (cal.offset % Day)
Rel(cal, k) == DayOf(cal, cal.epochDay + k)

\* the first day after every one-off holiday
PeriodStart(cal) == Max({0} \cup {h - cal.epochDay + 1 : h \in OneOff(cal)})
TableMax(cal) == PeriodStart(cal) + 2 * CycleDays
ScanLimit(cal, k) == Larger(k, PeriodStart(cal)) + CycleDays

Listed(cum) == Len(cum) - 1
Total(cum, k) == cum[k + 1]

RECURSIVE Grow(_, _, _)
Grow(cal, cum, k) ==
    IF Listed(cum) > k THEN cum
    ELSE Grow(cal, Append(cum, Last(cum) + OpenIn(Rel(cal, Listed(cum)), 0, Day)), k)

\* dayRel(k) makes the table reach k
Touch(cal, cum, k) == IF 0 <= k /\ k <= TableMax(cal) THEN Grow(cal, cum, k) ELSE cum

\* the open seconds before day k; whole cycles are not added up one by one
FaultyOpenBefore(cal, cum, k) ==  \* as if the cycle began with the run
    LET grown == Grow(cal, cum, CycleDays)
    IN [value |-> Total(grown, k % CycleDays) + (k \div CycleDays) * Total(grown, CycleDays),
        table |-> grown]

OpenBefore(cal, cum, k) ==
    LET Near(grown) == [value |-> Total(grown, k), table |-> grown]
        Far(grown, start, cycles) ==
            LET perCycle == Total(grown, start + CycleDays) - Total(grown, start)
            IN [value |-> Total(grown, k - cycles * CycleDays) + cycles * perCycle, table |-> grown]
        From(start) ==
            IF k > start + CycleDays
            THEN Far(Grow(cal, cum, start + CycleDays), start, (k - start) \div CycleDays)
            ELSE Near(Grow(cal, cum, k - 1))
    IN From(PeriodStart(cal))

\* have the days from `from' to the end of k at least that many open seconds?
Reached(cum, from, k, least) == Total(cum, k + 1) - Total(cum, from) >= least

RECURSIVE Climb(_, _, _, _, _, _)
Climb(cal, cum, from, least, high, step) ==
    LET Look(grown) ==
            IF Reached(grown, from, high, least) THEN [high |-> high, table |-> grown]
            ELSE Climb(cal, grown, from, least, Smaller(high + step, TableMax(cal) + 1), 2 * step)
    IN IF high > TableMax(cal) THEN [high |-> -1, table |-> cum] ELSE Look(Grow(cal, cum, high))

RECURSIVE Bisect(_, _, _, _, _)
Bisect(cum, from, least, low, high) ==
    LET mid == (low + high) \div 2
    IN IF low >= high THEN low
       ELSE IF Reached(cum, from, mid, least) THEN Bisect(cum, from, least, low, mid)
       ELSE Bisect(cum, from, least, mid + 1, high)

\* the first day from `from' on that gets there; -1 when the table cannot.  Work is a
\* whole number of seconds: more than need is at least need + 1
FindDay(cal, cum, from, least) ==
    LET Below(top) ==
            [day |-> IF top.high < 0 THEN -1 ELSE Bisect(top.table, from, least, from, top.high),
             table |-> top.table]
    IN Below(Climb(cal, cum, from, least, from, FirstStep))

SlowNextOpen(cal, t) ==
    LET LaterOf(k) == Later(Rel(cal, k), Larger(0, t - Midnight(cal, k)))
        Days == DayAt(cal, t) .. ScanLimit(cal, DayAt(cal, t))
        At(k) == Larger(t, Midnight(cal, k) + LaterOf(k)[1][1])
    IN At(Min({k \in Days : LaterOf(k) # <<>>}))

DatedNextOpen(cal, cum, t) ==
    LET Another(next) ==
            IF next.day >= 0
            THEN [value |-> Midnight(cal, next.day) + Rel(cal, next.day)[1][1], table |-> next.table]
            ELSE [value |-> SlowNextOpen(cal, t), table |-> next.table]
        Today(k, later, seen) ==
            IF later # <<>>
            THEN [value |-> Larger(t, Midnight(cal, k) + later[1][1]), table |-> seen]
            ELSE Another(FindDay(cal, seen, k + 1, 1))
        On(k) == Today(k, Later(Rel(cal, k), t - Midnight(cal, k)), Touch(cal, cum, k))
    IN On(DayAt(cal, t))

\* day by day from midnight of day k
RECURSIVE SlowAddWorkingTime(_, _, _, _)
SlowAddWorkingTime(cal, cum, k, rest) ==
    LET After(spent, seen) ==
            IF spent.at >= 0 THEN [value |-> Midnight(cal, k) + spent.at, table |-> seen]
            ELSE SlowAddWorkingTime(cal, seen, k + 1, spent.rest)
    IN After(Spend(Rel(cal, k), 0, rest), Touch(cal, cum, k))

\* whole days are skipped through the table
DatedAddWorkingTime(cal, cum, t, d) ==
    LET Finish(k, rest, last) ==
            LET skipped == Total(last.table, last.day) - Total(last.table, k + 1)
            IN SlowAddWorkingTime(cal, last.table, IF last.day < 0 THEN k + 1 ELSE last.day,
                                  IF last.day < 0 THEN rest ELSE rest - skipped)
        Today(k, spent, seen) ==
            IF spent.at >= 0 THEN [value |-> Midnight(cal, k) + spent.at, table |-> seen]
            ELSE Finish(k, spent.rest, FindDay(cal, seen, k + 1, spent.rest))
        On(k) == Today(k, Spend(Rel(cal, k), t - Midnight(cal, k), d), Touch(cal, cum, k))
    IN On(DayAt(cal, t))

OpenInDay(cal, k, a, b) == OpenIn(Rel(cal, k), a - Midnight(cal, k), b - Midnight(cal, k))

DatedOpenTime(cal, cum, a, b) ==
    LET Ends(first, last, between, seen) ==
            [value |-> OpenInDay(cal, first, a, b) + between + OpenInDay(cal, last, a, b),
             table |-> Touch(cal, Touch(cal, seen, first), last)]
        Less(first, last, upTo, from) == Ends(first, last, upTo.value - from.value, from.table)
        Whole(first, last, upTo) == Less(first, last, upTo, OpenBefore(cal, upTo.table, first + 1))
        Between(first, last) ==
            IF first = last
            THEN [value |-> OpenInDay(cal, first, a, b), table |-> Touch(cal, cum, first)]
            ELSE IF last - first > 1 THEN Whole(first, last, OpenBefore(cal, cum, last))
            ELSE Ends(first, last, 0, cum)
    IN Between(DayAt(cal, a), DayAt(cal, b))

-----------------------------------------------------------------------------
(* The primitives *)

IsOpen(cal, t) ==
    IF cal.dated THEN Holds(Rel(cal, DayAt(cal, t)), t - Midnight(cal, DayAt(cal, t)))
    ELSE Holds(cal.intervals, Pos(cal, t))

NextOpen(cal, cum, t) ==
    IF cal.dated THEN DatedNextOpen(cal, cum, t)
    ELSE [value |-> WeeklyNextOpen(cal, t), table |-> cum]

AddWorkingTime(cal, cum, t, d) ==
    IF d <= 0 THEN [value |-> t, table |-> cum]
    ELSE IF cal.dated THEN DatedAddWorkingTime(cal, cum, t, d)
    ELSE [value |-> WeeklyAddWorkingTime(cal, t, d), table |-> cum]

OpenTime(cal, cum, a, b) ==
    IF b <= a THEN [value |-> 0, table |-> cum]
    ELSE IF cal.dated THEN DatedOpenTime(cal, cum, a, b)
    ELSE [value |-> IF cal.openPerWeek = Week THEN b - a ELSE WeeklyOpenTime(cal, a, b),
          table |-> cum]

-----------------------------------------------------------------------------
(* Capacity by slices *)

\* what the slices with these indices add up to
SumOf(slices, open) == MapThenSumSet(LAMBDA i : slices[i].capacity, open)

\* from the last segment to the first, what is closed takes from the next one
FillBack(caps) ==
    LET n == Len(caps)
        Fill(filled, i) == IF filled[i] > 0 THEN filled ELSE [filled EXCEPT ![i] = filled[(i % n) + 1]]
    IN FoldLeft(Fill, caps, Reverse([i \in 1 .. n |-> i]))

\* constant 0: the capacity changes
WeeklyCapacity(slices, offset) ==
    LET lists == {e.calendar.intervals : e \in {e \in ToSet(slices) : e.calendar # Undefined}}
        edges == UNION {UNION {{i[1] % Week, i[2] % Week} : i \in ToSet(list)} : list \in lists}
        starts == Sorted({0} \cup edges, <)
        raw == [i \in DOMAIN starts |->
                  SumOf(slices, {n \in DOMAIN slices :
                                    slices[n].calendar = Undefined
                                    \/ Holds(slices[n].calendar.intervals, starts[i])})]
        filled == FillBack(FillBack(raw))
        Add(segments, i) ==
            IF segments # <<>> /\ Last(segments)[2] = filled[i] THEN segments
            ELSE Append(segments, <<starts[i], filled[i]>>)
        segments == FoldLeft(Add, <<>>, [i \in DOMAIN starts |-> i])
    IN [dated |-> FALSE, offset |-> offset, segments |-> segments, max |-> Max(ToSet(filled)),
        constant |-> IF Len(segments) = 1 THEN segments[1][2] ELSE 0]

EdgesOf(lists) == {0} \cup UNION {UNION {{i[1], i[2]} : i \in ToSet(list)} : list \in lists}

\* what the slices add up to at the edges of a day, given each one's list, or Undefined
CapacitiesOfDay(slices, lists) ==
    LET closing == {lists[n] : n \in DOMAIN slices} \ {Undefined}
        Open(edge) == {n \in DOMAIN slices : lists[n] = Undefined \/ Holds(lists[n], edge)}
    IN {SumOf(slices, Open(edge)) : edge \in {e \in EdgesOf(closing) : e < Day}} \ {0}

DatedCapacity(slices, offset) ==
    LET N == DOMAIN slices
        calendars == {slices[n].calendar : n \in N} \ {Undefined}
        epochDay == (CHOOSE cal \in calendars : cal.dated).epochDay
        oneOff == UNION {OneOff(cal) : cal \in calendars}
        OnShape(cal, s) == IF cal = Undefined THEN Undefined ELSE AsShapes(cal)[s]
        OnDay(cal, h) == IF cal = Undefined THEN Undefined ELSE DayOf(cal, h)
        Schedule(periodic, values) ==
            [dated |-> TRUE, offset |-> offset, slices |-> slices, epochDay |-> epochDay,
             open |-> PoolCalendar(slices), max |-> Max(values),
             constant |-> IF Cardinality(values) = 1 THEN Max(values) ELSE 0,
             periodicConstant |-> Cardinality(periodic) = 1,
             lastOneOff |-> Max({-1} \cup {h - epochDay : h \in oneOff})]
        With(periodic, special) == Schedule(periodic, periodic \cup special)
    IN With(UNION {CapacitiesOfDay(slices, [n \in N |-> OnShape(slices[n].calendar, s)]) : s \in Shapes},
            UNION {CapacitiesOfDay(slices, [n \in N |-> OnDay(slices[n].calendar, h)]) : h \in oneOff})

CompileCapacity(slices, start) ==
    IF \E e \in ToSet(slices) : e.calendar # Undefined /\ e.calendar.dated
    THEN DatedCapacity(slices, start % Week)
    ELSE WeeklyCapacity(slices, start % Week)

RawCapacity(schedule, t) ==
    SumOf(schedule.slices, {n \in DOMAIN schedule.slices :
                               \/ schedule.slices[n].calendar = Undefined
                               \/ IsOpen(schedule.slices[n].calendar, t)})

\* while the pool is closed, the capacity of its next opening
FaultyDatedCapacityAt(schedule, cum, t) ==  \* what is open now, closed or not
    [value |-> RawCapacity(schedule, t), table |-> cum]

DatedCapacityAt(schedule, cum, t) ==
    LET Opening(next) == [value |-> RawCapacity(schedule, next.value), table |-> next.table]
        Now(raw) == IF raw > 0 \/ schedule.open = Undefined THEN [value |-> raw, table |-> cum]
                    ELSE Opening(NextOpen(schedule.open, cum, t))
    IN Now(RawCapacity(schedule, t))

SegmentAt(schedule, p) == Max({i \in DOMAIN schedule.segments : schedule.segments[i][1] <= p})

CapacityAt(schedule, cum, t) ==
    LET segment == SegmentAt(schedule, (t + schedule.offset) % Week)
    IN IF schedule.constant > 0 THEN [value |-> schedule.constant, table |-> cum]
       ELSE IF schedule.dated THEN DatedCapacityAt(schedule, cum, t)
       ELSE [value |-> schedule.segments[segment][2], table |-> cum]

\* the segments from i on, for at most n of them: each against the one before
RECURSIVE NextSegmentUp(_, _, _, _)
NextSegmentUp(segments, i, boundary, n) ==
    LET next == (i % Len(segments)) + 1
        end == IF next = Len(segments) THEN Week ELSE segments[next + 1][1]
    IN IF n = 0 THEN Refused
       ELSE IF segments[next][2] > segments[i][2] THEN boundary
       ELSE NextSegmentUp(segments, next, boundary + end - segments[next][1], n - 1)

WeeklyNextCapacityRise(schedule, t) ==
    LET segments == schedule.segments
        p == (t + schedule.offset) % Week
        i == SegmentAt(schedule, p)
        end == IF i = Len(segments) THEN Week ELSE segments[i + 1][1]
    IN NextSegmentUp(segments, i, t + end - p, Len(segments))

\* scan of the edges of day k: at the first rise, or at the capacity the day ends with
ScanDay(schedule, seen, k, t, until) ==
    LET base == Midnight(schedule, k)
        calendars == {e.calendar : e \in ToSet(schedule.slices)} \ {Undefined}
        civil == schedule.epochDay + k
        edges == {e \in EdgesOf({DayOf(cal, civil) : cal \in calendars}) :
                     e < Day /\ base + e > t /\ base + e < until}
        Compare(acc, edge, now) ==
            [at |-> IF now.value > acc.previous THEN base + edge ELSE -1,
             previous |-> now.value, table |-> now.table]
        Look(acc, edge) ==
            IF acc.at >= 0 THEN acc
            ELSE Compare(acc, edge, DatedCapacityAt(schedule, acc.table, base + edge))
    IN FoldLeft(Look, seen, Sorted(edges, <))

\* Stop stands for Infinity: no rise that the run could see
RECURSIVE ScanDays(_, _, _, _, _)
ScanDays(schedule, seen, k, t, until) ==
    LET limit == IF schedule.periodicConstant THEN schedule.lastOneOff + 1
                 ELSE Larger(DayAt(schedule, t), schedule.lastOneOff) + CycleDays
    IN IF seen.at >= 0 THEN [value |-> seen.at, table |-> seen.table]
       ELSE IF k > limit \/ Midnight(schedule, k) >= until THEN [value |-> Stop, table |-> seen.table]
       ELSE ScanDays(schedule, ScanDay(schedule, seen, k, t, until), k + 1, t, until)

NextCapacityRise(schedule, cum, t, until) ==
    LET Seen(now) == [at |-> -1, previous |-> now.value, table |-> now.table]
    IN IF schedule.dated
       THEN ScanDays(schedule, Seen(DatedCapacityAt(schedule, cum, t)), DayAt(schedule, t), t, until)
       ELSE [value |-> WeeklyNextCapacityRise(schedule, t), table |-> cum]

-----------------------------------------------------------------------------
(* A run asks, in whatever order its events come *)

\* calendars and schedules are compiled before the run starts
Plan(sc) ==
    LET Of(task, pools) ==
            IF task = Refused THEN Refused
            ELSE [task |-> task,
                  pool |-> IF pools = <<>> THEN Undefined ELSE CompileCapacity(pools[1], sc.start)]
        With(own, pools) ==
            IF Refused \in {own} \cup {e.calendar : e \in UNION {ToSet(p) : p \in ToSet(pools)}}
            THEN Refused ELSE Of(ActivityCalendar(own, pools), pools)
    IN With(Compiled(sc.own, sc.start), [i \in DOMAIN sc.pools |-> Slices(sc.pools[i], sc.start)])

Unasked == [question |-> "none"]

Init ==
    /\ scenario \in Scenarios
    /\ plan = Plan(scenario)
    /\ subject \in {"task", "pool"}
    /\ table = <<0>>
    /\ answer = IF plan = Refused THEN [question |-> "refused"] ELSE Unasked

\* of is asked about, and it is there; a calendar that is not is never asked
Asking(of) ==
    /\ answer = Unasked
    /\ subject = of
    /\ plan[of] # Undefined

Return(question, from, to, returned) ==
    /\ answer' = [question |-> question, from |-> from, to |-> to, value |-> returned.value]
    /\ table' = returned.table
    /\ UNCHANGED <<scenario, plan, subject>>

AskNextOpen ==
    /\ Asking("task")
    /\ \E t \in 0 .. MaxTime : Return("nextOpen", t, 0, NextOpen(plan.task, table, t))

AskAddWorkingTime ==
    /\ Asking("task")
    /\ \E t \in 0 .. MaxTime, d \in 0 .. MaxWork :
         Return("addWorkingTime", t, d, AddWorkingTime(plan.task, table, t, d))

AskOpenTime ==
    /\ Asking("task")
    /\ \E a, b \in 0 .. MaxTime : a <= b /\ Return("openTime", a, b, OpenTime(plan.task, table, a, b))

AskCapacityAt ==
    /\ Asking("pool")
    /\ \E t \in 0 .. MaxTime : Return("capacityAt", t, 0, CapacityAt(plan.pool, table, t))

\* a rise is looked for only if the capacity changes
AskNextCapacityRise ==
    /\ Asking("pool")
    /\ plan.pool.constant = 0
    /\ \E t \in 0 .. MaxTime :
         t < Stop /\ Return("nextCapacityRise", t, Stop, NextCapacityRise(plan.pool, table, t, Stop))

GoOn ==
    /\ answer.question \notin {"none", "refused"}
    /\ answer' = Unasked
    /\ UNCHANGED <<scenario, plan, subject, table>>

Next ==
    \/ AskNextOpen \/ AskAddWorkingTime \/ AskOpenTime
    \/ AskCapacityAt \/ AskNextCapacityRise
    \/ GoOn

Spec == Init /\ [][Next]_vars

-----------------------------------------------------------------------------
(* Second by second: what the definitions of the scenario say of each second,  *)
(* with no interval, no table and no week.                                     *)

DefOpens(def, civil, second) ==
    /\ civil \notin def.oneOff
    /\ civil % CycleDays \notin def.annual
    /\ \E w \in ToSet(def.windows) :
         Matches(w, civil % CycleDays) /\ w.from <= second /\ second < w.to

Opens(def, i) == def = Undefined \/ DefOpens(def, i \div Day, i % Day)

\* far enough for any answer
Far == MaxTime + (MaxWork + 2) * CycleDays * Day

taskOpens ==
    [sc \in Scenarios |-> [t \in 0 .. Far |->
        /\ Opens(sc.own, sc.start + t)
        /\ \A pool \in ToSet(sc.pools) : \E e \in ToSet(pool) : Opens(e.def, sc.start + t)]]

\* what the open slices of the first pool add up to
present ==
    [sc \in Scenarios |-> [t \in 0 .. Far |->
        IF sc.pools = <<>> THEN 0
        ELSE FoldLeft(LAMBDA n, e : n + (IF Opens(e.def, sc.start + t) THEN e.capacity ELSE 0),
                      0, sc.pools[1])]]

OpenSeconds(a, b) == {t \in a .. b - 1 : taskOpens[scenario][t]}

\* the capacity that counts at t: that of the first second from t on with any
CapacityThen(t) == present[scenario][Min({u \in t .. Far : present[scenario][u] > 0})]

\* Property: every answer about time is the one that the windows and the holidays of
\* the scenario give second by second, whatever was asked before and however much of
\* the table there is: nextOpen the first open second; addWorkingTime the first instant
\* with that much open time behind it; openTime the open seconds between.  A scenario is
\* refused exactly when a calendar in it, or the task, would never open.
TimesAgree ==
    LET q == answer.question
        v == answer.value
    IN /\ q = "refused" <=>
            \/ \A t \in 0 .. Far : ~taskOpens[scenario][t]
            \/ \E def \in {e.def : e \in UNION {ToSet(p) : p \in ToSet(scenario.pools)}} :
                  \A t \in 0 .. Far : ~Opens(def, scenario.start + t)
       /\ q = "nextOpen" =>
            v >= answer.from /\ taskOpens[scenario][v] /\ OpenSeconds(answer.from, v) = {}
       /\ q = "addWorkingTime" =>
            /\ v >= answer.from
            /\ Cardinality(OpenSeconds(answer.from, v)) = answer.to
            /\ v = answer.from \/ taskOpens[scenario][v - 1]
       /\ q = "openTime" => v = Cardinality(OpenSeconds(answer.from, answer.to))

LastHoliday ==
    LET defs == {e.def : e \in ToSet(scenario.pools[1])} \ {Undefined}
    IN Max({-1} \cup {h - scenario.start \div Day : h \in UNION {def.oneOff : def \in defs}})

\* A scan that begins before the last one-off holiday is over ends a cycle after it, one
\* midnight short of a whole period.  Days of the cycle all differ here; Gregorian ones
\* come back within it, so there a rise on that midnight is never the first.
Unscanned(t, u) ==
    LET Dawn(k) == k * Day - (scenario.start % Day)
    IN t < Dawn(LastHoliday + 1) /\ u >= Dawn(LastHoliday + CycleDays + 1)

\* Property: the capacity the scheduler sees is what the open slices add up to, or will
\* when the pool next opens; its ceiling is reached and never exceeded; and the rise it
\* waits for is the first there is: none before it is missed, none is made up.
CapacityAgrees ==
    LET q == answer.question
        v == answer.value
        Rises(until) == {u \in answer.from + 1 .. until - 1 : CapacityThen(u) > CapacityThen(u - 1)}
    IN /\ q = "capacityAt" => v = CapacityThen(answer.from) /\ v <= plan.pool.max
       /\ q = "capacityAt" => \E t \in 0 .. Far : present[scenario][t] = plan.pool.max
       /\ q = "nextCapacityRise" =>
            IF v < answer.to THEN v \in Rises(answer.to) /\ Rises(v) = {}
            ELSE \A u \in Rises(answer.to) : Unscanned(answer.from, u)
=============================================================================
