------------------------------ MODULE MCCalendars ------------------------------
(* Small scenarios for Calendars: days of three seconds, weeks of two days and  *)
(* a civil calendar that repeats after four.                                    *)
EXTENDS Calendars

Weekly(days, from, to) == [on |-> "days", days |-> days, from |-> from, to |-> to]
Dates(days, from, to) == [on |-> "dates", days |-> days, from |-> from, to |-> to]
Def(windows, annual, oneOff) == [windows |-> windows, annual |-> annual, oneOff |-> oneOff]
Slice(def, capacity) == [def |-> def, capacity |-> capacity]
Scenario(start, own, pools) == [start |-> start, own |-> own, pools |-> pools]

\* weekly
AllWeek == Def(<<Weekly({0}, 0, 3), Weekly({1}, 0, 3)>>, {}, {})
Broken == Def(<<Weekly({0, 1}, 0, 1), Weekly({0, 1}, 2, 3)>>, {}, {})
Mornings == Def(<<Weekly({0, 1}, 0, 2)>>, {}, {})
Weekend == Def(<<Weekly({1}, 0, 1), Weekly({1}, 1, 3)>>, {}, {})
Monday == Def(<<Weekly({0}, 1, 3)>>, {}, {})
\* holidays that change nothing: in the past, or on a closed day
OldHolidays == Def(<<Weekly({0}, 1, 2)>>, {}, {0, 3})
\* dated
Festive == Def(<<Weekly({0, 1}, 0, 1), Weekly({0, 1}, 2, 3)>>, {1}, {3, 4})
Monthly == Def(<<Dates({2}, 1, 2)>>, {}, {})
MonthlyOrWeekly == Def(<<Weekly({1}, 1, 3), Dates({0, 1}, 0, 2)>>, {}, {5})
LongDays == Def(<<Dates({0, 1}, 0, 3)>>, {}, {})
\* open all the time but for one day
ButOne == Def(<<Weekly({0, 1}, 0, 3)>>, {}, {3})
Closed == Def(<<Weekly({0}, 0, 3)>>, {0, 2}, {})

Chosen == {
    Scenario(4, Undefined, <<<<Slice(AllWeek, 1)>>>>),
    Scenario(4, Broken, <<<<Slice(Mornings, 1)>>, <<Slice(Weekend, 2), Slice(Monday, 1)>>>>),
    Scenario(7, Broken, <<<<Slice(Mornings, 1), Slice(Monday, 1)>>>>),
    Scenario(7, OldHolidays, <<<<Slice(Weekend, 3), Slice(Mornings, 1)>>>>),
    Scenario(5, Weekend, <<<<Slice(Monday, 1)>>>>),
    Scenario(1, Undefined, <<<<Slice(Festive, 1), Slice(Monday, 1)>>>>),
    Scenario(3, Monthly, <<<<Slice(Undefined, 1), Slice(Festive, 2)>>>>),
    Scenario(5, MonthlyOrWeekly, <<<<Slice(Weekend, 2), Slice(LongDays, 1)>>>>),
    Scenario(2, Festive, <<<<Slice(MonthlyOrWeekly, 1), Slice(Monthly, 2)>>>>),
    Scenario(8, LongDays, <<<<Slice(Festive, 1)>>>>),
    Scenario(0, Monthly, <<<<Slice(Weekend, 1)>>>>),
    Scenario(7, Undefined, <<<<Slice(Monday, 2), Slice(OldHolidays, 1)>>>>),
    Scenario(9, Festive, <<<<Slice(ButOne, 1)>>>>),
    Scenario(1, Undefined, <<<<Slice(AllWeek, 1), Slice(ButOne, 2)>>>>),
    Scenario(0, Undefined, <<<<Slice(Closed, 1), Slice(AllWeek, 1)>>>>)}

\* each definition as the task's own, against a weekly pool and against dated ones
Defs == {AllWeek, Broken, Mornings, Weekend, Monday, OldHolidays, Festive, Monthly,
         MonthlyOrWeekly, LongDays, Closed}
Crossed == {Scenario(5, own, <<<<Slice(def, 1)>>>>) :
               own \in Defs \cup {Undefined}, def \in {Broken, Festive, MonthlyOrWeekly}}

MCScenarios == Chosen \cup Crossed
=============================================================================
