---------------------------- MODULE MCReplication ----------------------------
(* Small process models for Replication.                                       *)
EXTENDS Replication, TLC

None(S) == [n \in S |-> <<>>]

\* What the models below have in common: one start, at which cases come, and no
\* boundary timers, shifts, errors, loops, instances nor sub-processes unless they
\* say so.
Basic(type, count, gaps) ==
    LET N == DOMAIN type
    IN [type |-> type, incoming |-> [n \in N |-> 1], borders |-> None(N),
        interrupting |-> {}, starts |-> <<"s">>, triggerCount |-> "s" :> count,
        intervals |-> "s" :> gaps, horizon |-> 0, sound |-> TRUE,
        errors |-> None(N), loop |-> [n \in N |-> 0], early |-> {}, instances |-> << >>,
        sequential |-> {}, inside |-> None(N), nested |-> << >>]

\* An OR fork whose branches compete for two pools; one branch has a boundary timer
\* that interrupts it and another that only sends a notice.
ClaimType == "s" :> "start" @@ "fork" :> "or" @@ "a" :> "task" @@ "b" :> "task"
             @@ "late" :> "boundary" @@ "notice" :> "boundary" @@ "join" :> "or"
             @@ "e" :> "end" @@ "e2" :> "end"
Claim ==
    [out |-> "s" :> <<"fork">> @@ "fork" :> <<"a", "b">> @@ "a" :> <<"join">>
             @@ "b" :> <<"join">> @@ "late" :> <<"join">> @@ "notice" :> <<"e2">>
             @@ "join" :> <<"e">> @@ None({"e", "e2"}),
     incoming |-> "join" :> 3 @@ [n \in DOMAIN ClaimType |-> 1],
     needs |-> "a" :> <<{"p"}>> @@ "b" :> <<{"q"}, {"p"}>> @@ None(DOMAIN ClaimType),
     times |-> "a" :> {1, 2} @@ "b" :> {1} @@ "late" :> {1, 2} @@ "notice" :> {1}
               @@ [n \in DOMAIN ClaimType |-> {}],
     borders |-> "a" :> <<"notice", "late">> @@ None(DOMAIN ClaimType),
     interrupting |-> {"late"}, capacity |-> [p \in {"p", "q"} |-> 0 :> 1], tStop |-> 20]
    @@ Basic(ClaimType, 3, {0, 1})

\* An AND fork whose second branch needs two pools at once and may end up in a
\* terminate.
AuditType == "s" :> "start" @@ "fork" :> "and" @@ "a" :> "task" @@ "b" :> "task"
             @@ "m" :> "throw" @@ "x" :> "xor" @@ "kill" :> "terminate" @@ "join" :> "and"
             @@ "e" :> "end"
Audit ==
    [out |-> "s" :> <<"fork">> @@ "fork" :> <<"b", "a">> @@ "a" :> <<"m">>
             @@ "m" :> <<"join">> @@ "b" :> <<"x">> @@ "x" :> <<"join", "kill">>
             @@ "join" :> <<"e">> @@ None({"kill", "e"}),
     incoming |-> "join" :> 2 @@ [n \in DOMAIN AuditType |-> 1],
     needs |-> "a" :> <<{"p"}>> @@ "b" :> <<{"p", "q"}>> @@ None(DOMAIN AuditType),
     times |-> "a" :> {1, 2} @@ "b" :> {1, 2} @@ [n \in DOMAIN AuditType |-> {}],
     capacity |-> "p" :> (0 :> 2) @@ "q" :> (0 :> 1), tStop |-> 20]
    @@ Basic(AuditType, 3, {0, 1})

\* One task on a pool with shifts.
ShiftsType == "s" :> "start" @@ "a" :> "task" @@ "e" :> "end"
Shifts ==
    [out |-> "s" :> <<"a">> @@ "a" :> <<"e">> @@ "e" :> <<>>,
     needs |-> "a" :> <<{"p"}>> @@ None(DOMAIN ShiftsType),
     times |-> "a" :> {1, 5} @@ [n \in DOMAIN ShiftsType |-> {}],
     capacity |-> "p" :> [t \in 0 .. 6 |-> <<1, 1, 1, 1, 2, 1, 3>>[t + 1]],
     horizon |-> 6, tStop |-> 15]
    @@ Basic(ShiftsType, 3, {0, 5})

\* A loop through two timers that race; it may take no time at all, and it may end
\* at a gateway whose only timer has no time.
LoopType == "s" :> "start" @@ "merge" :> "xor" @@ "race" :> "eventGateway"
            @@ "t1" :> "timer" @@ "t2" :> "timer" @@ "t3" :> "timer" @@ "y" :> "xor"
            @@ "trap" :> "eventGateway" @@ "e" :> "end"
Loop ==
    [out |-> "s" :> <<"merge">> @@ "merge" :> <<"race", "y">> @@ "race" :> <<"t1", "t2">>
             @@ "t1" :> <<"y">> @@ "t2" :> <<"y">> @@ "y" :> <<"merge", "trap", "e">>
             @@ "trap" :> <<"t3">> @@ "t3" :> <<"e">> @@ "e" :> <<>>,
     needs |-> None(DOMAIN LoopType),
     times |-> "t1" :> {0, 2} @@ "t2" :> {1} @@ [n \in DOMAIN LoopType |-> {}],
     capacity |-> << >>, tStop |-> 3, sound |-> FALSE]
    @@ Basic(LoopType, 2, {1})

\* A task that loops up to three times, on a pool that another task competes for; a
\* timer and a notice cover the whole loop and each iteration may fail.
ReworkType == "s" :> "start" @@ "fork" :> "or" @@ "a" :> "task" @@ "b" :> "task"
              @@ "late" :> "boundary" @@ "notice" :> "boundary" @@ "err" :> "error"
              @@ "join" :> "or" @@ "e" :> "end" @@ "e2" :> "end"
Rework ==
    [out |-> "s" :> <<"fork">> @@ "fork" :> <<"a", "b">> @@ "a" :> <<"join">>
             @@ "b" :> <<"join">> @@ "late" :> <<"join">> @@ "err" :> <<"join">>
             @@ "notice" :> <<"e2">> @@ "join" :> <<"e">> @@ None({"e", "e2"}),
     incoming |-> "join" :> 4 @@ [n \in DOMAIN ReworkType |-> 1],
     needs |-> "a" :> <<{"p"}>> @@ "b" :> <<{"p"}>> @@ None(DOMAIN ReworkType),
     times |-> "a" :> {0, 1} @@ "b" :> {1} @@ "late" :> {2} @@ "notice" :> {1}
               @@ [n \in DOMAIN ReworkType |-> {}],
     borders |-> "a" :> <<"notice", "late">> @@ None(DOMAIN ReworkType),
     errors |-> "a" :> <<"err">> @@ None(DOMAIN ReworkType),
     loop |-> "a" :> 3 @@ [n \in DOMAIN ReworkType |-> 0], early |-> {"a"},
     interrupting |-> {"late"}, capacity |-> "p" :> (0 :> 1), tStop |-> 20]
    @@ Basic(ReworkType, 2, {0, 1})

\* Two multi-instance tasks on one pool after an AND fork, one at once and one in
\* turn, both with a timer that interrupts them and with errors.
PanelType == "s" :> "start" @@ "fork" :> "and" @@ "a" :> "task" @@ "b" :> "task"
             @@ "late" :> "boundary" @@ "late2" :> "boundary" @@ "err" :> "error"
             @@ "err2" :> "error" @@ "e" :> "end" @@ "e2" :> "end"
Panel ==
    [out |-> "s" :> <<"fork">> @@ "fork" :> <<"a", "b">> @@ "a" :> <<"e">> @@ "b" :> <<"e">>
             @@ "late" :> <<"e2">> @@ "late2" :> <<"e2">> @@ "err" :> <<"e2">>
             @@ "err2" :> <<"e2">> @@ None({"e", "e2"}),
     needs |-> "a" :> <<{"p"}>> @@ "b" :> <<{"p"}>> @@ None(DOMAIN PanelType),
     times |-> "a" :> {1, 2} @@ "b" :> {1} @@ "late" :> {2} @@ "late2" :> {3}
               @@ [n \in DOMAIN PanelType |-> {}],
     borders |-> "a" :> <<"late">> @@ "b" :> <<"late2">> @@ None(DOMAIN PanelType),
     errors |-> "a" :> <<"err">> @@ "b" :> <<"err2">> @@ None(DOMAIN PanelType),
     instances |-> "a" :> {0, 2} @@ "b" :> {3}, sequential |-> {"b"},
     interrupting |-> {"late", "late2"}, capacity |-> "p" :> (0 :> 2), tStop |-> 20]
    @@ Basic(PanelType, 2, {0, 1})

\* A sub-process that two tokens leave at once and a third goes through: two branches,
\* one of which holds another sub-process with a loop; deadlines that interrupt and that
\* do not, and an error on the way out of each.
StageType == "s" :> "start" @@ "fork" :> "and" @@ "split" :> "or" @@ "a" :> "task"
             @@ "b" :> "task" @@ "join" :> "or" @@ "out" :> "throw" @@ "mid" :> "throw" @@ "e" :> "end"
             @@ "e2" :> "end" @@ "late" :> "boundary" @@ "notice" :> "boundary"
             @@ "inner" :> "boundary" @@ "err" :> "error" @@ "err2" :> "error"
Stage ==
    [out |-> "s" :> <<"fork">> @@ "fork" :> <<"out", "split", "mid">>
             @@ "split" :> <<"a", "b">> @@ "a" :> <<"join">> @@ "b" :> <<"join">>
             @@ "join" :> <<"out">> @@ "out" :> <<"e">> @@ "mid" :> <<"e">> @@ "late" :> <<"e">>
             @@ "notice" :> <<"e2">> @@ "inner" :> <<"join">> @@ "err" :> <<"e">>
             @@ "err2" :> <<"join">> @@ None({"e", "e2"}),
     incoming |-> "join" :> 4 @@ [n \in DOMAIN StageType |-> 1],
     needs |-> "a" :> <<{"p"}>> @@ "b" :> <<{"p"}>> @@ None(DOMAIN StageType),
     times |-> "a" :> {1} @@ "b" :> {1, 2} @@ "late" :> {3} @@ "notice" :> {2} @@ "inner" :> {2}
               @@ [n \in DOMAIN StageType |-> {}],
     borders |-> "outer" :> <<"notice", "late">> @@ "nested" :> <<"inner">>
                 @@ None(DOMAIN StageType),
     errors |-> "outer" :> <<"err">> @@ "nested" :> <<"err2">> @@ None(DOMAIN StageType),
     loop |-> "a" :> 2 @@ [n \in DOMAIN StageType |-> 0],
     inside |-> [n \in {"fork", "split", "b", "join", "inner", "err2"} |-> <<"outer">>]
                @@ "a" :> <<"nested", "outer">> @@ None(DOMAIN StageType),
     nested |-> "outer" :> {"nested"} @@ "nested" :> {},
     interrupting |-> {"late", "inner"}, capacity |-> "p" :> (0 :> 1), tStop |-> 20]
    @@ Basic(StageType, 2, {0, 1})

\* Three branches of an AND fork: two occupy a pool each, the third takes either.
TieType == "s" :> "start" @@ "fork" :> "and" @@ "a" :> "task" @@ "b" :> "task"
           @@ "c" :> "task" @@ "e" :> "end"
Tie ==
    [out |-> "s" :> <<"fork">> @@ "fork" :> <<"a", "b", "c">> @@ "a" :> <<"e">>
             @@ "b" :> <<"e">> @@ "c" :> <<"e">> @@ "e" :> <<>>,
     needs |-> "a" :> <<{"q"}>> @@ "b" :> <<{"p"}>> @@ "c" :> <<{"p"}, {"q"}>>
               @@ None(DOMAIN TieType),
     times |-> [n \in {"a", "b", "c"} |-> {1}] @@ [n \in DOMAIN TieType |-> {}],
     capacity |-> [p \in {"p", "q"} |-> 0 :> 1], tStop |-> 20]
    @@ Basic(TieType, 1, {0, 1})

AllModels == {Claim, Audit, Shifts, Loop, Rework, Panel, Stage}
TieOnly == {Tie}
=============================================================================
