--------------------------- MODULE ReplicationProofs ---------------------------
(*****************************************************************************)
(* Theorems about the kernel, for any models that satisfy the assumptions of  *)
(* Replication: whatever its graph, its pools and their calendars, and        *)
(* whatever is drawn.  IInv says what is ahead of a state: the activities that *)
(* are served have one end in the heap, the pools that others wait for have    *)
(* one rise in it, and what would fit now is still to be looked at.  A handler *)
(* begins with a state that has this (Good) but for the event it takes, each   *)
(* of its helpers keeps it, and Becomes makes the next state of it.           *)
(*                                                                           *)
(* What follows the theorems is for TokenProofs: which activities a step logs  *)
(* as completed, how tokens are counted, and what ties activities, loops,     *)
(* entries and the events ahead together.                                     *)
(*****************************************************************************)
EXTENDS Replication, FiniteSetTheorems, SequenceTheorems, WellFoundedInduction, TLAPS

-----------------------------------------------------------------------------
(* Induction: the rounds of a step *)

\* A set of numbers that is not empty has a least one
LEMMA Least ==
    ASSUME NEW T, T \subseteq Nat, T # {}
    PROVE  \E n \in T : \A m \in T : n <= m
  <1>1. IsWellFoundedOn({ss \in Nat \X Nat : ss[1] < ss[2]}, Nat)
    BY NatLessThanWellFounded DEF OpToRel
  <1>2. \E n \in T : \A m \in T : ~ (<<m, n>> \in {ss \in Nat \X Nat : ss[1] < ss[2]})
    BY <1>1, WFMin
  <1>3. PICK n \in T : \A m \in T : ~ (<<m, n>> \in {ss \in Nat \X Nat : ss[1] < ss[2]})
    BY <1>2
  <1>4. ASSUME NEW m \in T PROVE n <= m
    <2>1. <<m, n>> \in Nat \X Nat /\ <<m, n>>[1] = m /\ <<m, n>>[2] = n
      OBVIOUS
    <2>2. ~(m < n)
      BY <1>3, <2>1
    <2>. QED BY <2>2
  <1>. QED BY <1>4

\* A set of numbers that has 0 and, with one below n, the next one, has n
LEMMA Upwards ==
    ASSUME NEW n \in Nat, NEW T, 0 \in T, \A k \in 0 .. n - 1 : k \in T => k + 1 \in T
    PROVE  n \in T
  <1> DEFINE B == {k \in 0 .. n : k \notin T}
  <1>1. CASE B = {}
    BY <1>1
  <1>2. CASE B # {}
    <2>1. B \subseteq Nat
      OBVIOUS
    <2>2. \E k \in B : \A m \in B : k <= m
      <3> HIDE DEF B
      <3>. QED BY <1>2, <2>1, Least
    <2>3. PICK k \in B : \A m \in B : k <= m
      BY <2>2
    <2>4. k # 0
      BY <2>3
    <2>5. k - 1 \in 0 .. n - 1 /\ (k - 1) + 1 = k /\ ~(k <= k - 1)
      BY <2>3, <2>4
    <2>6. k - 1 \in T
      BY <2>3, <2>5
    <2>. QED BY <2>3, <2>5, <2>6
  <1>. QED BY <1>1, <1>2

\* The steps that the kernel repeats: every loop of it works through a queue, a path, a list of
\* targets or a number of instances (drain, crossSubprocesses, emit, enterMultiInstance).  An
\* operator cannot be an argument of a lemma; its name can
StepOf(loop, x) ==
    CASE loop = "push"   -> PushedNext(x)
      [] loop = "turn"   -> Turn(x)
      [] loop = "cross"  -> Crossing(x)
      [] loop = "leave"  -> Leave(x)
      [] loop = "enable" -> EnableNext(x)

\* f has what n rounds of a loop make of s, one after another
IsRun(f, s, n, loop) == f = [k \in 0 .. n |-> IF k = 0 THEN {s} ELSE UNION {StepOf(loop, x) : x \in f[k - 1]}]

\* A run with one more round
OneRoundMore(f, n, v) == [k \in 0 .. n + 1 |-> IF k = n + 1 THEN v ELSE f[k]]

\* A run goes on
LEMMA RunLonger ==
    \A f, s, loop : \A n \in Nat :
       IsRun(f, s, n, loop) => IsRun(OneRoundMore(f, n, UNION {StepOf(loop, x) : x \in f[n]}), s, n + 1, loop)
  <1> SUFFICES ASSUME NEW f, NEW s, NEW loop, NEW n \in Nat, IsRun(f, s, n, loop)
               PROVE  IsRun(OneRoundMore(f, n, UNION {StepOf(loop, x) : x \in f[n]}), s, n + 1, loop)
    OBVIOUS
  <1> DEFINE g == OneRoundMore(f, n, UNION {StepOf(loop, x) : x \in f[n]})
  <1>1. \A k \in 0 .. n : k \in 0 .. n + 1 /\ k # n + 1 /\ g[k] = f[k]
    BY DEF OneRoundMore
  <1>2. ASSUME NEW k \in 0 .. n + 1
        PROVE  g[k] = IF k = 0 THEN {s} ELSE UNION {StepOf(loop, x) : x \in g[k - 1]}
    <2>1. CASE k = n + 1
      <3>1. k - 1 = n /\ k # 0 /\ n \in 0 .. n
        BY <2>1
      <3>2. g[n] = f[n]
        BY <1>1, <3>1
      <3>3. g[k] = UNION {StepOf(loop, x) : x \in f[n]}
        BY <2>1 DEF OneRoundMore
      <3>. HIDE DEF g
      <3>. QED BY <3>1, <3>2, <3>3
    <2>2. CASE k # n + 1
      <3>1. k \in 0 .. n /\ (k # 0 => k - 1 \in 0 .. n)
        BY <2>2
      <3>2. f[k] = IF k = 0 THEN {s} ELSE UNION {StepOf(loop, x) : x \in f[k - 1]}
        BY <3>1 DEF IsRun
      <3>3. g[k] = f[k] /\ (k # 0 => g[k - 1] = f[k - 1])
        BY <1>1, <3>1
      <3>. HIDE DEF g
      <3>. QED BY <3>2, <3>3
    <2>. QED BY <2>1, <2>2
  <1>3. g = [k \in 0 .. n + 1 |-> g[k]]
    BY DEF OneRoundMore
  <1>. HIDE DEF g
  <1>4. g = [k \in 0 .. n + 1 |-> IF k = 0 THEN {s} ELSE UNION {StepOf(loop, x) : x \in g[k - 1]}]
    BY <1>2, <1>3
  <1>. QED BY <1>4 DEF IsRun, g

\* There is a run of any number of rounds
LEMMA RunExists == \A s, loop : \A n \in Nat : \E f : IsRun(f, s, n, loop)
  <1> SUFFICES ASSUME NEW s, NEW loop, NEW n \in Nat PROVE \E f : IsRun(f, s, n, loop)
    OBVIOUS
  <1> DEFINE T == {m \in Nat : \E f : IsRun(f, s, m, loop)}
  <1>1. 0 \in T
    <2>1. IsRun([k \in 0 .. 0 |-> {s}], s, 0, loop)
      BY DEF IsRun
    <2>. QED BY <2>1
  <1>2. ASSUME NEW m \in 0 .. n - 1, m \in T PROVE m + 1 \in T
    <2>1. m \in Nat /\ m + 1 \in Nat
      OBVIOUS
    <2>2. PICK f : IsRun(f, s, m, loop)
      BY <1>2
    <2>3. \E g : IsRun(g, s, m + 1, loop)
      BY <2>1, <2>2, RunLonger
    <2>. QED BY <2>1, <2>3
  <1>3. n \in T
    <2>. HIDE DEF T
    <2>. QED BY <1>1, <1>2, Upwards
  <1>. QED BY <1>3

\* f goes from s, round by round
Chain(f, s, n, loop) ==
    f[0] = {s} /\ \A k \in 0 .. n - 1 : f[k + 1] = UNION {StepOf(loop, x) : x \in f[k]}

\* A run goes so
LEMMA RunChain == \A f, s, loop : \A n \in Nat : IsRun(f, s, n, loop) => Chain(f, s, n, loop)
  <1> SUFFICES ASSUME NEW f, NEW s, NEW loop, NEW n \in Nat, IsRun(f, s, n, loop) PROVE Chain(f, s, n, loop)
    OBVIOUS
  <1>1. f[0] = {s}
    BY DEF IsRun
  <1>2. ASSUME NEW k \in 0 .. n - 1 PROVE f[k + 1] = UNION {StepOf(loop, x) : x \in f[k]}
    <2>1. k + 1 \in 0 .. n /\ k + 1 # 0 /\ (k + 1) - 1 = k
      OBVIOUS
    <2>. QED BY <2>1 DEF IsRun
  <1>. QED BY <1>1, <1>2 DEF Chain

\* What rounds of PushedNext come to
LEMMA PushRounds ==
    \A s : \A n \in Nat : \E f : Chain(f, s, n, "push") /\ Rounds(s, n, PushedNext) = f[n]
  <1> SUFFICES ASSUME NEW s, NEW n \in Nat
               PROVE  \E f : Chain(f, s, n, "push") /\ Rounds(s, n, PushedNext) = f[n]
    OBVIOUS
  <1> DEFINE f == CHOOSE f : f = [k \in 0 .. n |-> IF k = 0 THEN {s} ELSE UNION {PushedNext(x) : x \in f[k - 1]}]
  <1>1. PICK g : IsRun(g, s, n, "push")
    BY RunExists
  <1>2. \A k \in 0 .. n : UNION {StepOf("push", x) : x \in g[k - 1]} = UNION {PushedNext(x) : x \in g[k - 1]}
    BY DEF StepOf
  <1>3. g = [k \in 0 .. n |-> IF k = 0 THEN {s} ELSE UNION {PushedNext(x) : x \in g[k - 1]}]
    BY <1>1, <1>2 DEF IsRun
  <1>4. f = [k \in 0 .. n |-> IF k = 0 THEN {s} ELSE UNION {PushedNext(x) : x \in f[k - 1]}]
    BY <1>3
  <1>5. IsRun(f, s, n, "push")
    <2>1. \A k \in 0 .. n : UNION {StepOf("push", x) : x \in f[k - 1]} = UNION {PushedNext(x) : x \in f[k - 1]}
      BY DEF StepOf
    <2>. HIDE DEF f
    <2>. QED BY <2>1, <1>4 DEF IsRun
  <1>6. Chain(f, s, n, "push")
    BY <1>5, RunChain
  <1>7. Rounds(s, n, PushedNext) = f[n]
    BY DEF Rounds
  <1>. QED BY <1>6, <1>7

\* What rounds of Turn come to
LEMMA TurnRounds ==
    \A s : \A n \in Nat : \E f : Chain(f, s, n, "turn") /\ Rounds(s, n, Turn) = f[n]
  <1> SUFFICES ASSUME NEW s, NEW n \in Nat
               PROVE  \E f : Chain(f, s, n, "turn") /\ Rounds(s, n, Turn) = f[n]
    OBVIOUS
  <1> DEFINE f == CHOOSE f : f = [k \in 0 .. n |-> IF k = 0 THEN {s} ELSE UNION {Turn(x) : x \in f[k - 1]}]
  <1>1. PICK g : IsRun(g, s, n, "turn")
    BY RunExists
  <1>2. \A k \in 0 .. n : UNION {StepOf("turn", x) : x \in g[k - 1]} = UNION {Turn(x) : x \in g[k - 1]}
    BY DEF StepOf
  <1>3. g = [k \in 0 .. n |-> IF k = 0 THEN {s} ELSE UNION {Turn(x) : x \in g[k - 1]}]
    BY <1>1, <1>2 DEF IsRun
  <1>4. f = [k \in 0 .. n |-> IF k = 0 THEN {s} ELSE UNION {Turn(x) : x \in f[k - 1]}]
    BY <1>3
  <1>5. IsRun(f, s, n, "turn")
    <2>1. \A k \in 0 .. n : UNION {StepOf("turn", x) : x \in f[k - 1]} = UNION {Turn(x) : x \in f[k - 1]}
      BY DEF StepOf
    <2>. HIDE DEF f
    <2>. QED BY <2>1, <1>4 DEF IsRun
  <1>6. Chain(f, s, n, "turn")
    BY <1>5, RunChain
  <1>7. Rounds(s, n, Turn) = f[n]
    BY DEF Rounds
  <1>. QED BY <1>6, <1>7

\* What rounds of Crossing come to
LEMMA CrossRounds ==
    \A s : \A n \in Nat : \E f : Chain(f, s, n, "cross") /\ Rounds(s, n, Crossing) = f[n]
  <1> SUFFICES ASSUME NEW s, NEW n \in Nat
               PROVE  \E f : Chain(f, s, n, "cross") /\ Rounds(s, n, Crossing) = f[n]
    OBVIOUS
  <1> DEFINE f == CHOOSE f : f = [k \in 0 .. n |-> IF k = 0 THEN {s} ELSE UNION {Crossing(x) : x \in f[k - 1]}]
  <1>1. PICK g : IsRun(g, s, n, "cross")
    BY RunExists
  <1>2. \A k \in 0 .. n : UNION {StepOf("cross", x) : x \in g[k - 1]} = UNION {Crossing(x) : x \in g[k - 1]}
    BY DEF StepOf
  <1>3. g = [k \in 0 .. n |-> IF k = 0 THEN {s} ELSE UNION {Crossing(x) : x \in g[k - 1]}]
    BY <1>1, <1>2 DEF IsRun
  <1>4. f = [k \in 0 .. n |-> IF k = 0 THEN {s} ELSE UNION {Crossing(x) : x \in f[k - 1]}]
    BY <1>3
  <1>5. IsRun(f, s, n, "cross")
    <2>1. \A k \in 0 .. n : UNION {StepOf("cross", x) : x \in f[k - 1]} = UNION {Crossing(x) : x \in f[k - 1]}
      BY DEF StepOf
    <2>. HIDE DEF f
    <2>. QED BY <2>1, <1>4 DEF IsRun
  <1>6. Chain(f, s, n, "cross")
    BY <1>5, RunChain
  <1>7. Rounds(s, n, Crossing) = f[n]
    BY DEF Rounds
  <1>. QED BY <1>6, <1>7

\* What rounds of Leave come to
LEMMA LeaveRounds ==
    \A s : \A n \in Nat : \E f : Chain(f, s, n, "leave") /\ Rounds(s, n, Leave) = f[n]
  <1> SUFFICES ASSUME NEW s, NEW n \in Nat
               PROVE  \E f : Chain(f, s, n, "leave") /\ Rounds(s, n, Leave) = f[n]
    OBVIOUS
  <1> DEFINE f == CHOOSE f : f = [k \in 0 .. n |-> IF k = 0 THEN {s} ELSE UNION {Leave(x) : x \in f[k - 1]}]
  <1>1. PICK g : IsRun(g, s, n, "leave")
    BY RunExists
  <1>2. \A k \in 0 .. n : UNION {StepOf("leave", x) : x \in g[k - 1]} = UNION {Leave(x) : x \in g[k - 1]}
    BY DEF StepOf
  <1>3. g = [k \in 0 .. n |-> IF k = 0 THEN {s} ELSE UNION {Leave(x) : x \in g[k - 1]}]
    BY <1>1, <1>2 DEF IsRun
  <1>4. f = [k \in 0 .. n |-> IF k = 0 THEN {s} ELSE UNION {Leave(x) : x \in f[k - 1]}]
    BY <1>3
  <1>5. IsRun(f, s, n, "leave")
    <2>1. \A k \in 0 .. n : UNION {StepOf("leave", x) : x \in f[k - 1]} = UNION {Leave(x) : x \in f[k - 1]}
      BY DEF StepOf
    <2>. HIDE DEF f
    <2>. QED BY <2>1, <1>4 DEF IsRun
  <1>6. Chain(f, s, n, "leave")
    BY <1>5, RunChain
  <1>7. Rounds(s, n, Leave) = f[n]
    BY DEF Rounds
  <1>. QED BY <1>6, <1>7

\* What rounds of EnableNext come to
LEMMA EnableRounds ==
    \A s : \A n \in Nat : \E f : Chain(f, s, n, "enable") /\ Rounds(s, n, EnableNext) = f[n]
  <1> SUFFICES ASSUME NEW s, NEW n \in Nat
               PROVE  \E f : Chain(f, s, n, "enable") /\ Rounds(s, n, EnableNext) = f[n]
    OBVIOUS
  <1> DEFINE f == CHOOSE f : f = [k \in 0 .. n |-> IF k = 0 THEN {s} ELSE UNION {EnableNext(x) : x \in f[k - 1]}]
  <1>1. PICK g : IsRun(g, s, n, "enable")
    BY RunExists
  <1>2. \A k \in 0 .. n : UNION {StepOf("enable", x) : x \in g[k - 1]} = UNION {EnableNext(x) : x \in g[k - 1]}
    BY DEF StepOf
  <1>3. g = [k \in 0 .. n |-> IF k = 0 THEN {s} ELSE UNION {EnableNext(x) : x \in g[k - 1]}]
    BY <1>1, <1>2 DEF IsRun
  <1>4. f = [k \in 0 .. n |-> IF k = 0 THEN {s} ELSE UNION {EnableNext(x) : x \in f[k - 1]}]
    BY <1>3
  <1>5. IsRun(f, s, n, "enable")
    <2>1. \A k \in 0 .. n : UNION {StepOf("enable", x) : x \in f[k - 1]} = UNION {EnableNext(x) : x \in f[k - 1]}
      BY DEF StepOf
    <2>. HIDE DEF f
    <2>. QED BY <2>1, <1>4 DEF IsRun
  <1>6. Chain(f, s, n, "enable")
    BY <1>5, RunChain
  <1>7. Rounds(s, n, EnableNext) = f[n]
    BY DEF Rounds
  <1>. QED BY <1>6, <1>7

-----------------------------------------------------------------------------
(* Sequences *)

\* A sequence, of whatever items
Sequence(s) == s \in Seq(Range(s))

\* A sequence of members of S is one of its own range
LEMMA SequenceOf ==
    ASSUME NEW S, NEW s \in Seq(S)
    PROVE  /\ Sequence(s) /\ Range(s) \subseteq S
           /\ Len(s) \in Nat /\ DOMAIN s = 1 .. Len(s)
  <1>1. Len(s) \in Nat /\ s \in [1 .. Len(s) -> S] /\ DOMAIN s = 1 .. Len(s)
    BY LenProperties
  <1>2. s \in [1 .. Len(s) -> Range(s)]
    BY <1>1 DEF Range
  <1>3. s \in Seq(Range(s))
    BY <1>1, <1>2, SeqDef
  <1>. QED BY <1>1, <1>3 DEF Sequence, Range

\* The range, length and items of a concatenation
LEMMA Concat ==
    ASSUME NEW a, Sequence(a), NEW b, Sequence(b)
    PROVE  /\ Sequence(a \o b) /\ Range(a \o b) = Range(a) \cup Range(b)
           /\ Len(a) \in Nat /\ Len(b) \in Nat /\ Len(a \o b) = Len(a) + Len(b)
           /\ DOMAIN a = 1 .. Len(a) /\ DOMAIN b = 1 .. Len(b)
           /\ DOMAIN (a \o b) = 1 .. Len(a) + Len(b)
           /\ \A i \in 1 .. Len(a) : (a \o b)[i] = a[i]
           /\ \A i \in 1 .. Len(b) : (a \o b)[Len(a) + i] = b[i]
  <1> DEFINE S == Range(a) \cup Range(b)
  <1>1. a \in Seq(S) /\ b \in Seq(S)
    <2>1. Range(a) \subseteq S /\ Range(b) \subseteq S
      OBVIOUS
    <2>. QED BY <2>1, SeqMonotonic DEF Sequence
  <1>2. /\ Len(a) \in Nat /\ DOMAIN a = 1 .. Len(a)
        /\ Len(b) \in Nat /\ DOMAIN b = 1 .. Len(b)
    BY <1>1, LenProperties
  <1>3. /\ a \o b \in Seq(S) /\ Len(a \o b) = Len(a) + Len(b)
        /\ \A i \in 1 .. Len(a) + Len(b) : (a \o b)[i] = IF i <= Len(a) THEN a[i] ELSE b[i - Len(a)]
    BY <1>1, ConcatProperties
  <1> HIDE DEF S
  <1>4. DOMAIN (a \o b) = 1 .. Len(a) + Len(b)
    BY <1>3, LenProperties
  <1>5. \A i \in 1 .. Len(a) : i \in 1 .. Len(a) + Len(b) /\ (a \o b)[i] = a[i]
    BY <1>2, <1>3
  <1>6. \A i \in 1 .. Len(b) : Len(a) + i \in 1 .. Len(a) + Len(b) /\ (a \o b)[Len(a) + i] = b[i]
    BY <1>2, <1>3
  <1>7. Range(a \o b) = Range(a) \cup Range(b)
    <2>1. ASSUME NEW i \in 1 .. Len(a) + Len(b) PROVE (a \o b)[i] \in Range(a) \cup Range(b)
      BY <1>2, <1>3 DEF Range
    <2>2. Range(a \o b) \subseteq Range(a) \cup Range(b)
      BY <2>1, <1>4 DEF Range
    <2>3. ASSUME NEW i \in 1 .. Len(a) PROVE a[i] \in Range(a \o b)
      <3>1. i \in 1 .. Len(a) + Len(b) /\ (a \o b)[i] = a[i]
        BY <1>5
      <3>. QED BY <3>1, <1>4 DEF Range
    <2>4. ASSUME NEW i \in 1 .. Len(b) PROVE b[i] \in Range(a \o b)
      <3>1. Len(a) + i \in 1 .. Len(a) + Len(b) /\ (a \o b)[Len(a) + i] = b[i]
        BY <1>6
      <3>. QED BY <3>1, <1>4 DEF Range
    <2>5. Range(a) \cup Range(b) \subseteq Range(a \o b)
      BY <2>3, <2>4, <1>2 DEF Range
    <2>. QED BY <2>2, <2>5
  <1>8. Sequence(a \o b)
    BY <1>3, SequenceOf
  <1>. QED BY <1>2, <1>3, <1>4, <1>5, <1>6, <1>7, <1>8

\* A sequence of one item
LEMMA Single ==
    ASSUME NEW e PROVE Sequence(<<e>>) /\ Range(<<e>>) = {e} /\ Len(<<e>>) = 1
  BY DEF Sequence, Range

\* The empty sequence
LEMMA Empty == Sequence(<<>>) /\ Range(<<>>) = {} /\ Len(<<>>) = 0
  BY DEF Sequence, Range

\* To append is to concatenate one item
LEMMA Appended ==
    ASSUME NEW s, Sequence(s), NEW e PROVE Append(s, e) = s \o <<e>>
  <1>1. s \in Seq(Range(s) \cup {e})
    BY SeqMonotonic DEF Sequence
  <1>. QED BY <1>1, AppendIsConcat

\* A sequence that is not empty is its head before its tail
LEMMA Headed ==
    ASSUME NEW s, Sequence(s), s # <<>>
    PROVE  /\ Sequence(Tail(s)) /\ s = <<Head(s)>> \o Tail(s)
           /\ Head(s) \in Range(s) /\ Range(s) = {Head(s)} \cup Range(Tail(s))
           /\ Len(Tail(s)) = Len(s) - 1 /\ Len(s) \in Nat \ {0}
           /\ DOMAIN s = 1 .. Len(s) /\ Head(s) = s[1]
           /\ \A i \in 1 .. Len(s) - 1 : Tail(s)[i] = s[i + 1]
  <1> DEFINE S == Range(s)
  <1>0. s \in Seq(S)
    BY DEF Sequence
  <1> HIDE DEF S
  <1>1. /\ Head(s) \in S /\ Tail(s) \in Seq(S) /\ Len(Tail(s)) = Len(s) - 1
        /\ \A i \in 1 .. Len(Tail(s)) : Tail(s)[i] = s[i + 1]
    BY <1>0, HeadTailProperties
  <1>2. Len(s) \in Nat \ {0} /\ DOMAIN s = 1 .. Len(s)
    BY <1>0, EmptySeq, LenProperties
  <1>3. Head(s) = s[1]
    BY <1>0, <1>2
  <1>4. Sequence(Tail(s)) /\ Sequence(<<Head(s)>>) /\ Len(<<Head(s)>>) = 1 /\ Range(<<Head(s)>>) = {Head(s)}
    BY <1>1, SequenceOf, Single
  <1> DEFINE t == <<Head(s)>> \o Tail(s)
  <1>5. /\ Sequence(t) /\ Range(t) = {Head(s)} \cup Range(Tail(s))
        /\ Len(t) = Len(s)
        /\ t[1] = Head(s)
        /\ \A i \in 1 .. Len(Tail(s)) : t[1 + i] = Tail(s)[i]
    <2> DEFINE a == <<Head(s)>>
               b == Tail(s)
    <2>1. Sequence(a) /\ Sequence(b) /\ Len(a) = 1 /\ a[1] = Head(s) /\ Range(a) = {Head(s)}
      BY <1>4
    <2>2. Len(b) = Len(s) - 1
      BY <1>1
    <2> HIDE DEF a, b
    <2>3. /\ Sequence(a \o b) /\ Range(a \o b) = Range(a) \cup Range(b)
          /\ Len(a \o b) = Len(a) + Len(b)
          /\ \A i \in 1 .. Len(a) : (a \o b)[i] = a[i]
          /\ \A i \in 1 .. Len(b) : (a \o b)[Len(a) + i] = b[i]
      <3>1. Sequence(a) /\ Sequence(b)
        BY <2>1
      <3>. QED BY ONLY <3>1, Concat
    <2>4. t = a \o b
      BY DEF a, b
    <2>5. b = Tail(s)
      BY DEF b
    <2> HIDE DEF t
    <2>. QED BY <2>1, <2>2, <2>3, <2>4, <2>5, <1>2
  <1>6. t \in Seq(S)
    <2>1. <<Head(s)>> \in Seq(S)
      BY <1>1
    <2>. QED BY <2>1, <1>1, ConcatProperties
  <1> HIDE DEF t
  <1>7. \A i \in 1 .. Len(s) : s[i] = t[i]
    <2> TAKE i \in 1 .. Len(s)
    <2>1. CASE i = 1
      BY <2>1, <1>5, <1>3
    <2>2. CASE i # 1
      <3>1. i - 1 \in 1 .. Len(Tail(s)) /\ 1 + (i - 1) = i /\ (i - 1) + 1 = i
        BY <2>2, <1>1, <1>2
      <3>. QED BY <3>1, <1>1, <1>5
    <2>. QED BY <2>1, <2>2
  <1>8. s = t
    BY <1>0, <1>5, <1>6, <1>7, SeqEqual
  <1>. QED BY <1>1, <1>2, <1>3, <1>4, <1>5, <1>8 DEF S, t

\* Concatenation is associative
LEMMA Assoc ==
    ASSUME NEW a, Sequence(a), NEW b, Sequence(b), NEW c, Sequence(c)
    PROVE  (a \o b) \o c = a \o (b \o c)
  <1> DEFINE S == Range(a) \cup Range(b) \cup Range(c)
  <1>1. Range(a) \subseteq S /\ Range(b) \subseteq S /\ Range(c) \subseteq S
    OBVIOUS
  <1>2. a \in Seq(S) /\ b \in Seq(S) /\ c \in Seq(S)
    BY <1>1, SeqMonotonic DEF Sequence
  <1> HIDE DEF S
  <1>. QED BY <1>2, ConcatAssociative

\* The empty sequence adds nothing
LEMMA WithNothing == ASSUME NEW s, Sequence(s) PROVE s \o <<>> = s /\ <<>> \o s = s
  BY ConcatEmptySeq DEF Sequence

\* A sequence in two parts
LEMMA Split ==
    ASSUME NEW s, Sequence(s), NEW n \in 0 .. Len(s)
    PROVE  LET a == SubSeq(s, 1, n)
               b == SubSeq(s, n + 1, Len(s))
           IN       /\ s = a \o b
                    /\ Sequence(a) /\ Sequence(b) /\ Len(a) = n /\ Len(b) = Len(s) - n
                    /\ \A i \in 1 .. n : a[i] = s[i]
                    /\ \A i \in 1 .. Len(s) - n : b[i] = s[n + i]
  <1> DEFINE S == Range(s)
             a == SubSeq(s, 1, n)
             b == SubSeq(s, n + 1, Len(s))
  <1>1. s \in Seq(S) /\ Len(s) \in Nat /\ \A i \in 1 .. Len(s) : s[i] \in S
    <2>1. s \in Seq(S)
      BY DEF Sequence
    <2> HIDE DEF S
    <2>. QED BY <2>1, LenProperties, ElementOfSeq
  <1> HIDE DEF S
  <1>2. /\ a \in Seq(S) /\ Len(a) = n
        /\ \A i \in 1 .. n : a[i] = s[i]
    <2>1. \A i \in 1 .. n : s[i] \in S
      BY <1>1
    <2>2. /\ SubSeq(s, 1, n) \in Seq(S)
          /\ Len(SubSeq(s, 1, n)) = IF 1 <= n THEN n - 1 + 1 ELSE 0
          /\ \A i \in 1 .. n - 1 + 1 : SubSeq(s, 1, n)[i] = s[1 + i - 1]
      BY <1>1, <2>1, SubSeqProperties
    <2>. QED BY <1>1, <2>2
  <1>3. /\ b \in Seq(S) /\ Len(b) = Len(s) - n
        /\ \A i \in 1 .. Len(s) - n : b[i] = s[n + i]
    <2>1. \A i \in n + 1 .. Len(s) : s[i] \in S
      BY <1>1
    <2>2. /\ SubSeq(s, n + 1, Len(s)) \in Seq(S)
          /\ Len(SubSeq(s, n + 1, Len(s))) = IF n + 1 <= Len(s) THEN Len(s) - (n + 1) + 1 ELSE 0
          /\ \A i \in 1 .. Len(s) - (n + 1) + 1 : SubSeq(s, n + 1, Len(s))[i] = s[n + 1 + i - 1]
      BY <1>1, <2>1, SubSeqProperties
    <2>. QED BY <1>1, <2>2
  <1>4. s = a \o b
    <2>1. SubSeq(s, 1, n) \o SubSeq(s, n + 1, Len(s)) = SubSeq(s, 1, Len(s))
      <3>1. 1 \in 1 .. Len(s) + 1 /\ n \in 1 - 1 .. Len(s) /\ Len(s) \in n .. Len(s)
        BY <1>1
      <3>. QED BY <1>1, <3>1, ConcatAdjacentSubSeq
    <2>2. SubSeq(s, 1, Len(s)) = s
      BY <1>1, SubSeqFull
    <2>. QED BY <2>1, <2>2
  <1>5. Sequence(a) /\ Sequence(b)
    BY <1>2, <1>3, SequenceOf
  <1>. QED BY <1>2, <1>3, <1>4, <1>5

\* An image has as many members as there are arguments, if no two have the same
LEMMA Image ==
    ASSUME NEW S, IsFiniteSet(S), NEW f, DOMAIN f = S, \A x, y \in S : f[x] = f[y] => x = y
    PROVE  IsFiniteSet({f[x] : x \in S}) /\ Cardinality({f[x] : x \in S}) = Cardinality(S)
  <1> DEFINE T == {f[x] : x \in S}
             g == [x \in S |-> f[x]]
  <1>1. g \in Bijection(S, T)
    BY DEF Bijection, Injection, Surjection, IsInjective
  <1>2. ExistsBijection(S, T)
    BY <1>1 DEF ExistsBijection
  <1> HIDE DEF T
  <1>3. IsFiniteSet(T) /\ Cardinality(T) = Cardinality(S)
    BY <1>2, FS_Bijection
  <1>. QED BY <1>3 DEF T

\* How many of a sequence are in S
NumberOf(s, S) == Cardinality({j \in DOMAIN s : s[j] \in S})

\* Those of a concatenation
LEMMA NumberConcat ==
    ASSUME NEW a, Sequence(a), NEW b, Sequence(b), NEW S
    PROVE  /\ NumberOf(a, S) \in Nat /\ NumberOf(b, S) \in Nat
           /\ NumberOf(a \o b, S) = NumberOf(a, S) + NumberOf(b, S)
  <1> DEFINE I == {j \in DOMAIN a : a[j] \in S}
             J == {j \in DOMAIN b : b[j] \in S}
             f == [j \in J |-> Len(a) + j]
             T == {f[j] : j \in J}
  <1>1. /\ Len(a) \in Nat /\ Len(b) \in Nat /\ DOMAIN a = 1 .. Len(a) /\ DOMAIN b = 1 .. Len(b)
        /\ DOMAIN (a \o b) = 1 .. Len(a) + Len(b)
        /\ \A i \in 1 .. Len(a) : (a \o b)[i] = a[i]
        /\ \A i \in 1 .. Len(b) : (a \o b)[Len(a) + i] = b[i]
    BY Concat
  <1>2. IsFiniteSet(I) /\ IsFiniteSet(J)
    <2>1. IsFiniteSet(1 .. Len(a)) /\ IsFiniteSet(1 .. Len(b))
      BY <1>1, FS_Interval
    <2>2. I \in SUBSET (1 .. Len(a)) /\ J \in SUBSET (1 .. Len(b))
      BY <1>1
    <2> HIDE DEF I, J
    <2>. QED BY <2>1, <2>2, FS_Subset
  <1>3. IsFiniteSet(T) /\ Cardinality(T) = Cardinality(J)
    <2>1. DOMAIN f = J
      OBVIOUS
    <2>2. \A x, y \in J : f[x] = f[y] => x = y
      BY <1>1
    <2> HIDE DEF f, J
    <2>. QED BY <1>2, <2>1, <2>2, Image
  <1>4. {j \in DOMAIN (a \o b) : (a \o b)[j] \in S} = I \cup T
    <2> DEFINE c == a \o b
               U == {j \in DOMAIN c : c[j] \in S}
    <2>1. ASSUME NEW j \in U PROVE j \in I \cup T
      <3>0. j \in 1 .. Len(a) + Len(b) /\ c[j] \in S
        BY <1>1
      <3>1. CASE j \in 1 .. Len(a)
        BY <3>0, <3>1, <1>1
      <3>2. CASE j \notin 1 .. Len(a)
        <4>1. j - Len(a) \in 1 .. Len(b) /\ Len(a) + (j - Len(a)) = j
          BY <3>0, <3>2, <1>1
        <4>2. c[Len(a) + (j - Len(a))] = b[j - Len(a)]
          BY <4>1, <1>1
        <4>3. j - Len(a) \in J
          BY <4>1, <4>2, <3>0, <1>1
        <4>4. f[j - Len(a)] = j
          BY <4>1, <4>3
        <4>. QED BY <4>3, <4>4
      <3>. QED BY <3>1, <3>2
    <2>2. ASSUME NEW j \in I PROVE j \in U
      <3>1. j \in 1 .. Len(a) /\ j \in 1 .. Len(a) + Len(b)
        BY <1>1
      <3>. QED BY <3>1, <1>1
    <2>3. ASSUME NEW j \in J PROVE f[j] \in U
      <3>1. j \in 1 .. Len(b) /\ Len(a) + j \in 1 .. Len(a) + Len(b) /\ f[j] = Len(a) + j
        BY <1>1
      <3>. QED BY <3>1, <1>1
    <2>. QED BY <2>1, <2>2, <2>3
  <1>5. I \cap T = {}
    <2>1. \A j \in J : f[j] \notin 1 .. Len(a)
      BY <1>1
    <2>. QED BY <2>1, <1>1
  <1> HIDE DEF I, J, T
  <1>6. Cardinality(I \cup T) = Cardinality(I) + Cardinality(T) /\ Cardinality(I) \in Nat /\ Cardinality(J) \in Nat
    <2>1. Cardinality(I \cup T) = Cardinality(I) + Cardinality(T) - Cardinality(I \cap T)
      BY <1>2, <1>3, FS_Union
    <2>2. Cardinality(I \cap T) = 0
      BY <1>5, FS_EmptySet
    <2>3. Cardinality(I) \in Nat /\ Cardinality(J) \in Nat
      BY <1>2, FS_CardinalityType
    <2>. QED BY <2>1, <2>2, <2>3, <1>3
  <1>. QED BY <1>3, <1>4, <1>6 DEF NumberOf, I, J

\* One, or none
LEMMA NumberSingle ==
    ASSUME NEW e, NEW S
    PROVE  NumberOf(<<e>>, S) = (IF e \in S THEN 1 ELSE 0) /\ NumberOf(<<>>, S) = 0
  <1>1. {j \in DOMAIN <<>> : <<>>[j] \in S} = {}
    OBVIOUS
  <1>2. CASE e \in S
    <2>1. {j \in DOMAIN <<e>> : <<e>>[j] \in S} = {1}
      BY <1>2
    <2>. QED BY <2>1, <1>1, <1>2, FS_Singleton, FS_EmptySet DEF NumberOf
  <1>3. CASE e \notin S
    <2>1. {j \in DOMAIN <<e>> : <<e>>[j] \in S} = {}
      BY <1>3
    <2>. QED BY <2>1, <1>1, <1>3, FS_EmptySet DEF NumberOf
  <1>. QED BY <1>2, <1>3

\* Finitely many are there, and none if none of the sequence is in S
LEMMA NumberNone ==
    ASSUME NEW s, Sequence(s), NEW S
    PROVE  /\ NumberOf(s, S) \in Nat
           /\ NumberOf(s, S) = 0 <=> \A e \in Range(s) : e \notin S
  <1> DEFINE J == {j \in DOMAIN s : s[j] \in S}
  <1>1. IsFiniteSet(J)
    <2>1. Len(s) \in Nat /\ DOMAIN s = 1 .. Len(s)
      BY DEF Sequence
    <2>2. J \in SUBSET (1 .. Len(s)) /\ IsFiniteSet(1 .. Len(s))
      BY <2>1, FS_Interval
    <2> HIDE DEF J
    <2>. QED BY <2>2, FS_Subset
  <1>2. J = {} <=> \A e \in Range(s) : e \notin S
    BY DEF Range
  <1> HIDE DEF J
  <1>3. Cardinality(J) \in Nat /\ (Cardinality(J) = 0 <=> J = {})
    BY <1>1, FS_EmptySet, FS_CardinalityType
  <1>. QED BY <1>2, <1>3 DEF NumberOf, J

\* The number depends on those that are in S alone
LEMMA NumberSame ==
    ASSUME NEW s, NEW S, NEW T, \A e \in Range(s) : e \in S <=> e \in T
    PROVE  NumberOf(s, S) = NumberOf(s, T)
  <1>1. {j \in DOMAIN s : s[j] \in S} = {j \in DOMAIN s : s[j] \in T}
    BY DEF Range
  <1>. QED BY <1>1 DEF NumberOf

\* Those of a set are those of two parts of it
LEMMA NumberParts ==
    ASSUME NEW s, Sequence(s), NEW S, NEW I, NEW J,
           \A x : x \in S <=> x \in I \/ x \in J, \A x \in I : x \notin J
    PROVE  NumberOf(s, S) = NumberOf(s, I) + NumberOf(s, J)
  <1> DEFINE A == {j \in DOMAIN s : s[j] \in I}
             B == {j \in DOMAIN s : s[j] \in J}
  <1>1. IsFiniteSet(A) /\ IsFiniteSet(B)
    <2>1. Len(s) \in Nat /\ DOMAIN s = 1 .. Len(s)
      BY DEF Sequence
    <2>2. A \in SUBSET (1 .. Len(s)) /\ B \in SUBSET (1 .. Len(s)) /\ IsFiniteSet(1 .. Len(s))
      BY <2>1, FS_Interval
    <2> HIDE DEF A, B
    <2>. QED BY <2>2, FS_Subset
  <1>2. {j \in DOMAIN s : s[j] \in S} = A \cup B /\ A \cap B = {}
    OBVIOUS
  <1> HIDE DEF A, B
  <1>3. Cardinality(A \cup B) = Cardinality(A) + Cardinality(B)
    <2>1. Cardinality(A \cup B) = Cardinality(A) + Cardinality(B) - Cardinality(A \cap B)
      BY <1>1, FS_Union
    <2>2. Cardinality(A \cap B) = 0 /\ Cardinality(A) \in Nat /\ Cardinality(B) \in Nat
      BY <1>1, <1>2, FS_EmptySet, FS_CardinalityType
    <2>. QED BY <2>1, <2>2
  <1>. QED BY <1>2, <1>3 DEF NumberOf, A, B

-----------------------------------------------------------------------------
(* The events to come *)

\* No activity has two ends and no pool two rises.
Differ(e, f) ==
    /\ ~(e.kind = "done" /\ f.kind = "done" /\ e.act = f.act)
    /\ ~(e.kind = "capacity" /\ f.kind = "capacity" /\ e.node = f.node)

\* No two of the events repeat one another
Once(s) == \A i, j \in DOMAIN s : i # j => Differ(s[i], s[j])

\* Two sequences of events without repetition make one, if they share nothing
LEMMA OnceConcat ==
    ASSUME NEW a, Sequence(a), NEW b, Sequence(b)
    PROVE  Once(a \o b) <=> /\ Once(a) /\ Once(b)
                            /\ \A e \in Range(a), f \in Range(b) : Differ(e, f)
  <1>0. Sequence(a) /\ Sequence(b)
    OBVIOUS
  <1> DEFINE c == a \o b
             n == Len(a)
             m == Len(b)
  <1>1. /\ n \in Nat /\ m \in Nat /\ DOMAIN a = 1 .. n /\ DOMAIN b = 1 .. m /\ DOMAIN c = 1 .. n + m
        /\ \A i \in 1 .. n : c[i] = a[i]
        /\ \A i \in 1 .. m : c[n + i] = b[i]
    <2>1. n \in Nat /\ m \in Nat /\ DOMAIN a = 1 .. n /\ DOMAIN b = 1 .. m /\ DOMAIN c = 1 .. n + m
      BY ONLY <1>0, Concat
    <2>2. /\ \A i \in 1 .. n : c[i] = a[i]
          /\ \A i \in 1 .. m : c[n + i] = b[i]
      BY ONLY <1>0, Concat
    <2>. QED BY <2>1, <2>2
  <1> HIDE DEF c, n, m
  <1>2. ASSUME Once(c) PROVE Once(a) /\ Once(b) /\ \A e \in Range(a), f \in Range(b) : Differ(e, f)
    <2>1. Once(a)
      <3>1. ASSUME NEW i \in 1 .. n, NEW j \in 1 .. n, i # j PROVE Differ(a[i], a[j])
        <4>1. i \in DOMAIN c /\ j \in DOMAIN c
          BY <1>1
        <4>0. c[i] = a[i] /\ c[j] = a[j]
          BY <1>1
        <4>2. Differ(c[i], c[j])
          BY <4>1, <3>1, <1>2 DEF Once
        <4>. QED BY <4>0, <4>2
      <3>. QED BY <3>1, <1>1 DEF Once
    <2>2. Once(b)
      <3>1. ASSUME NEW i \in 1 .. m, NEW j \in 1 .. m, i # j PROVE Differ(b[i], b[j])
        <4>1. n + i \in DOMAIN c /\ n + j \in DOMAIN c /\ c[n + i] = b[i] /\ c[n + j] = b[j] /\ n + i # n + j
          BY <1>1, <3>1
        <4>2. Differ(c[n + i], c[n + j])
          BY <4>1, <1>2 DEF Once
        <4>. QED BY <4>1, <4>2
      <3>. QED BY <3>1, <1>1 DEF Once
    <2>3. ASSUME NEW i \in 1 .. n, NEW j \in 1 .. m PROVE Differ(a[i], b[j])
      <3>1. i \in DOMAIN c /\ n + j \in DOMAIN c /\ c[i] = a[i] /\ c[n + j] = b[j] /\ i # n + j
        BY <1>1
      <3>2. Differ(c[i], c[n + j])
        BY <3>1, <1>2 DEF Once
      <3>. QED BY <3>1, <3>2
    <2>. QED BY <2>1, <2>2, <2>3, <1>1 DEF Range
  <1>3. ASSUME Once(a), Once(b), \A e \in Range(a), f \in Range(b) : Differ(e, f) PROVE Once(c)
    <2>0. \A e, f : Differ(e, f) => Differ(f, e)
      BY DEF Differ
    <2>1. ASSUME NEW i \in 1 .. n + m
          PROVE  \/ i \in 1 .. n /\ c[i] = a[i] /\ a[i] \in Range(a)
                 \/ i - n \in 1 .. m /\ c[i] = b[i - n] /\ b[i - n] \in Range(b)
      <3>1. CASE i <= n
        BY <3>1, <1>1 DEF Range
      <3>2. CASE ~(i <= n)
        <4>1. i - n \in 1 .. m /\ n + (i - n) = i
          BY <3>2, <1>1
        <4>. QED BY <4>1, <1>1 DEF Range
      <3>. QED BY <3>1, <3>2
    <2>2. ASSUME NEW i \in 1 .. n + m, NEW j \in 1 .. n + m, i # j PROVE Differ(c[i], c[j])
      <3>1. CASE i \in 1 .. n /\ j \in 1 .. n
        <4>1. c[i] = a[i] /\ c[j] = a[j]
          BY <3>1, <1>1
        <4>. QED BY <4>1, <3>1, <2>2, <1>3, <1>1 DEF Once
      <3>2. CASE i \notin 1 .. n /\ j \notin 1 .. n
        <4>1. i - n \in 1 .. m /\ c[i] = b[i - n] /\ j - n \in 1 .. m /\ c[j] = b[j - n] /\ i - n # j - n
          BY <3>2, <2>1, <2>2, <1>1
        <4>2. Differ(b[i - n], b[j - n])
          BY <4>1, <1>3, <1>1 DEF Once
        <4>. QED BY <4>1, <4>2
      <3>3. CASE i \in 1 .. n /\ j \notin 1 .. n
        <4>1. c[i] = a[i] /\ a[i] \in Range(a)
          BY <3>3, <1>1 DEF Range
        <4>2. c[j] = b[j - n] /\ b[j - n] \in Range(b)
          BY <3>3, <2>1
        <4>. QED BY <4>1, <4>2, <1>3
      <3>4. CASE i \notin 1 .. n /\ j \in 1 .. n
        <4>1. c[j] = a[j] /\ a[j] \in Range(a)
          BY <3>4, <1>1 DEF Range
        <4>2. c[i] = b[i - n] /\ b[i - n] \in Range(b)
          BY <3>4, <2>1
        <4>. QED BY <4>1, <4>2, <1>3, <2>0
      <3>. QED BY <3>1, <3>2, <3>3, <3>4
    <2>. QED BY <2>2, <1>1 DEF Once
  <1>. QED BY <1>2, <1>3 DEF c

\* One event repeats nothing
LEMMA OnceSingle == \A e : Once(<<e>>)
  BY DEF Once

\* No event repeats nothing
LEMMA OnceEmpty == Once(<<>>)
  BY DEF Once

\* The heap is in the order of time
Sorted(h) == \A i, j \in DOMAIN h : i <= j => h[i].t <= h[j].t

\* Events have times
Timed(S) == \A e \in S : e.t \in Nat

\* The event e concerns the activity i, which is x: it is a boundary of it, of its loop, of its
\* entry or of a sub-process around it
Watched(e, i, x) ==
    \/ e.kind = "boundary" /\ (e.act = i \/ e.act = x.loop)
    \/ e.kind = "multiBoundary" /\ e.act = x.entry
    \/ e.kind = "deadline" /\ e.case = x.case /\ HostOf(e.node) \in Range(Inside[x.node]) \ Births

\* The event d ends an activity of A that e concerns
Misses(A, d, e) == d.kind = "done" /\ d.act \in DOMAIN A /\ Watched(e, d.act, A[d.act])

\* No activity of A ends before a boundary that concerns it and is due at the same time
Early(h, A) == \A k, j \in DOMAIN h : k < j /\ Misses(A, h[k], h[j]) => h[k].t # h[j].t

\* No boundary of ev comes after the end of an activity that it concerns
InOrder(A, ev) == \A k, j \in DOMAIN ev : k < j => ~Misses(A, ev[k], ev[j])

\* ... nor does any of them come too late to what is ahead
InTime(A, h, ev) ==
    Early(h, A) /\ InOrder(A, ev) /\ \A d \in Range(h), e \in Range(ev) : ~Misses(A, d, e)

\* That of a concatenation
LEMMA EarlyConcat ==
    ASSUME NEW a, Sequence(a), NEW b, Sequence(b), NEW A
    PROVE  Early(a \o b, A) <=> /\ Early(a, A) /\ Early(b, A)
                                /\ \A d \in Range(a), e \in Range(b) : Misses(A, d, e) => d.t # e.t
  <1> DEFINE c == a \o b
  <1>1. /\ Len(a) \in Nat /\ Len(b) \in Nat /\ DOMAIN a = 1 .. Len(a) /\ DOMAIN b = 1 .. Len(b)
        /\ DOMAIN c = 1 .. Len(a) + Len(b)
        /\ \A i \in 1 .. Len(a) : c[i] = a[i]
        /\ \A i \in 1 .. Len(b) : c[Len(a) + i] = b[i]
    BY Concat
  <1> HIDE DEF c
  <1>2. ASSUME Early(c, A)
        PROVE  /\ Early(a, A) /\ Early(b, A)
               /\ \A d \in Range(a), e \in Range(b) : Misses(A, d, e) => d.t # e.t
    <2>1. Early(a, A)
      BY <1>1, <1>2 DEF Early
    <2>2. Early(b, A)
      <3> SUFFICES ASSUME NEW k \in 1 .. Len(b), NEW j \in 1 .. Len(b), k < j, Misses(A, b[k], b[j]) PROVE b[k].t # b[j].t
        BY <1>1 DEF Early
      <3>1. Len(a) + k \in DOMAIN c /\ Len(a) + j \in DOMAIN c /\ Len(a) + k < Len(a) + j
        BY <1>1
      <3>. QED BY <1>1, <1>2, <3>1 DEF Early
    <2>3. ASSUME NEW k \in 1 .. Len(a), NEW j \in 1 .. Len(b), Misses(A, a[k], b[j]) PROVE a[k].t # b[j].t
      <3>1. k \in DOMAIN c /\ Len(a) + j \in DOMAIN c /\ k < Len(a) + j
        BY <1>1
      <3>. QED BY <1>1, <1>2, <2>3, <3>1 DEF Early
    <2>. QED BY <1>1, <2>1, <2>2, <2>3 DEF Range
  <1>3. ASSUME Early(a, A), Early(b, A), \A d \in Range(a), e \in Range(b) : Misses(A, d, e) => d.t # e.t
        PROVE  Early(c, A)
    <2> SUFFICES ASSUME NEW k \in DOMAIN c, NEW j \in DOMAIN c, k < j, Misses(A, c[k], c[j]) PROVE c[k].t # c[j].t
      BY DEF Early
    <2>1. CASE j <= Len(a)
      BY <1>1, <1>3, <2>1 DEF Early
    <2>2. CASE k > Len(a)
      <3>1. k - Len(a) \in 1 .. Len(b) /\ j - Len(a) \in 1 .. Len(b) /\ k - Len(a) < j - Len(a)
        BY <1>1, <2>2
      <3>2. c[k] = b[k - Len(a)] /\ c[j] = b[j - Len(a)]
        BY <1>1, <3>1
      <3>. QED BY <1>1, <1>3, <3>1, <3>2 DEF Early
    <2>3. CASE k <= Len(a) /\ j > Len(a)
      <3>1. k \in 1 .. Len(a) /\ j - Len(a) \in 1 .. Len(b)
        BY <1>1, <2>3
      <3>2. c[k] = a[k] /\ c[j] = b[j - Len(a)]
        BY <1>1, <3>1
      <3>3. c[k] \in Range(a) /\ c[j] \in Range(b)
        BY <1>1, <3>1, <3>2 DEF Range
      <3>. QED BY <1>3, <3>3
    <2>. QED BY <1>1, <2>1, <2>2, <2>3
  <1>. QED BY <1>2, <1>3 DEF c

\* ... and that of one of new events
LEMMA InOrderConcat ==
    ASSUME NEW a, Sequence(a), NEW b, Sequence(b), NEW A
    PROVE  InOrder(A, a \o b) <=> /\ InOrder(A, a) /\ InOrder(A, b)
                                /\ \A d \in Range(a), e \in Range(b) : ~Misses(A, d, e)
  <1> DEFINE c == a \o b
  <1>1. /\ Len(a) \in Nat /\ Len(b) \in Nat /\ DOMAIN a = 1 .. Len(a) /\ DOMAIN b = 1 .. Len(b)
        /\ DOMAIN c = 1 .. Len(a) + Len(b)
        /\ \A i \in 1 .. Len(a) : c[i] = a[i]
        /\ \A i \in 1 .. Len(b) : c[Len(a) + i] = b[i]
    BY Concat
  <1> HIDE DEF c
  <1>2. ASSUME InOrder(A, c)
        PROVE  /\ InOrder(A, a) /\ InOrder(A, b)
               /\ \A d \in Range(a), e \in Range(b) : ~Misses(A, d, e)
    <2>1. InOrder(A, a)
      BY <1>1, <1>2 DEF InOrder
    <2>2. InOrder(A, b)
      <3> SUFFICES ASSUME NEW k \in 1 .. Len(b), NEW j \in 1 .. Len(b), k < j PROVE ~Misses(A, b[k], b[j])
        BY <1>1 DEF InOrder
      <3>1. Len(a) + k \in DOMAIN c /\ Len(a) + j \in DOMAIN c /\ Len(a) + k < Len(a) + j
        BY <1>1
      <3>. QED BY <1>1, <1>2, <3>1 DEF InOrder
    <2>3. ASSUME NEW k \in 1 .. Len(a), NEW j \in 1 .. Len(b) PROVE ~Misses(A, a[k], b[j])
      <3>1. k \in DOMAIN c /\ Len(a) + j \in DOMAIN c /\ k < Len(a) + j
        BY <1>1
      <3>. QED BY <1>1, <1>2, <3>1 DEF InOrder
    <2>. QED BY <1>1, <2>1, <2>2, <2>3 DEF Range
  <1>3. ASSUME InOrder(A, a), InOrder(A, b), \A d \in Range(a), e \in Range(b) : ~Misses(A, d, e)
        PROVE  InOrder(A, c)
    <2> SUFFICES ASSUME NEW k \in DOMAIN c, NEW j \in DOMAIN c, k < j PROVE ~Misses(A, c[k], c[j])
      BY DEF InOrder
    <2>1. CASE j <= Len(a)
      BY <1>1, <1>3, <2>1 DEF InOrder
    <2>2. CASE k > Len(a)
      <3>1. k - Len(a) \in 1 .. Len(b) /\ j - Len(a) \in 1 .. Len(b) /\ k - Len(a) < j - Len(a)
        BY <1>1, <2>2
      <3>2. c[k] = b[k - Len(a)] /\ c[j] = b[j - Len(a)]
        BY <1>1, <3>1
      <3>. QED BY <1>1, <1>3, <3>1, <3>2 DEF InOrder
    <2>3. CASE k <= Len(a) /\ j > Len(a)
      <3>1. k \in 1 .. Len(a) /\ j - Len(a) \in 1 .. Len(b)
        BY <1>1, <2>3
      <3>2. c[k] = a[k] /\ c[j] = b[j - Len(a)]
        BY <1>1, <3>1
      <3>3. c[k] \in Range(a) /\ c[j] \in Range(b)
        BY <1>1, <3>1, <3>2 DEF Range
      <3>. QED BY <1>3, <3>3
    <2>. QED BY <1>1, <2>1, <2>2, <2>3
  <1>. QED BY <1>2, <1>3 DEF c

\* After k of the events of s0 have come into its heap
Pushes(s0, s, k) ==
    /\ Sequence(s.heap) /\ Sequence(s.left)
    /\ k <= Len(s0.left) => Len(s.left) = Len(s0.left) - k
    /\ Range(s.heap) \cup Range(s.left) = Range(s0.heap) \cup Range(s0.left)
    /\ Timed(Range(s0.heap) \cup Range(s0.left))
    /\ Sorted(s.heap) /\ Once(s.heap \o s.left)
    /\ \A S : NumberOf(s.heap, S) + NumberOf(s.left, S) = NumberOf(s0.heap, S) + NumberOf(s0.left, S)
    /\ \A A : InTime(A, s0.heap, s0.left) => InTime(A, s.heap, s.left)

\* So it is after all of them: by induction over the events that come
LEMMA PushesGoOn ==
    \A s : \A n \in Nat :
       /\ Pushes(s, s, 0)
       /\ \A k \in Nat : \A x : Pushes(s, x, k) => \A y \in PushedNext(x) : Pushes(s, y, k + 1)
       => \A y \in Rounds(s, n, PushedNext) : Pushes(s, y, n)
  <1> SUFFICES ASSUME NEW s, NEW n \in Nat, Pushes(s, s, 0),
                      \A k \in Nat : \A x : Pushes(s, x, k) => \A y \in PushedNext(x) : Pushes(s, y, k + 1)
               PROVE  \A y \in Rounds(s, n, PushedNext) : Pushes(s, y, n)
    OBVIOUS
  <1>1. PICK f : Chain(f, s, n, "push") /\ Rounds(s, n, PushedNext) = f[n]
    BY PushRounds
  <1>2. f[0] = {s} /\ \A k \in 0 .. n - 1 : f[k + 1] = UNION {PushedNext(x) : x \in f[k]}
    BY <1>1 DEF Chain, StepOf
  <1> DEFINE T == {k \in 0 .. n : \A y \in f[k] : Pushes(s, y, k)}
  <1>3. 0 \in T
    BY <1>2
  <1>4. \A k \in 0 .. n - 1 : k \in T => k + 1 \in T
    BY <1>2
  <1>5. n \in T
    <2>. HIDE DEF T
    <2>. QED BY <1>3, <1>4, Upwards
  <1>. QED BY <1>1, <1>5

\* A sorted heap before a later sorted one is sorted
LEMMA SortedConcat ==
    ASSUME NEW a, Sequence(a), Sorted(a), NEW b, Sequence(b), Sorted(b),
           \A e \in Range(a), f \in Range(b) : e.t <= f.t
    PROVE  Sorted(a \o b)
  <1>0. Sequence(a) /\ Sequence(b)
    OBVIOUS
  <1> DEFINE c == a \o b
             n == Len(a)
             m == Len(b)
  <1>1. /\ n \in Nat /\ m \in Nat /\ DOMAIN a = 1 .. n /\ DOMAIN b = 1 .. m /\ DOMAIN c = 1 .. n + m
        /\ \A i \in 1 .. n : c[i] = a[i]
        /\ \A i \in 1 .. m : c[n + i] = b[i]
    <2>1. n \in Nat /\ m \in Nat /\ DOMAIN a = 1 .. n /\ DOMAIN b = 1 .. m /\ DOMAIN c = 1 .. n + m
      BY ONLY <1>0, Concat
    <2>2. /\ \A i \in 1 .. n : c[i] = a[i]
          /\ \A i \in 1 .. m : c[n + i] = b[i]
      BY ONLY <1>0, Concat
    <2>. QED BY <2>1, <2>2
  <1> HIDE DEF c, n, m
  <1>2. ASSUME NEW i \in 1 .. n + m, ~(i <= n)
        PROVE  i - n \in 1 .. m /\ c[i] = b[i - n]
    <2>1. i - n \in 1 .. m /\ n + (i - n) = i
      BY <1>1, <1>2
    <2>. QED BY <2>1, <1>1
  <1>3. ASSUME NEW i \in 1 .. n + m, NEW j \in 1 .. n + m, i <= j PROVE c[i].t <= c[j].t
    <2>1. CASE j <= n
      <3>1. i \in 1 .. n /\ j \in 1 .. n
        BY <2>1, <1>1, <1>3
      <3>. QED BY <3>1, <1>1, <1>3 DEF Sorted
    <2>2. CASE ~(i <= n)
      <3>1. ~(j <= n) /\ i - n <= j - n
        BY <2>2, <1>1, <1>3
      <3>2. i - n \in 1 .. m /\ c[i] = b[i - n] /\ j - n \in 1 .. m /\ c[j] = b[j - n]
        BY <3>1, <2>2, <1>2
      <3>. QED BY <3>1, <3>2, <1>1 DEF Sorted
    <2>3. CASE i <= n /\ ~(j <= n)
      <3>1. i \in 1 .. n
        BY <2>3, <1>1
      <3>2. c[i] \in Range(a)
        BY <3>1, <1>1 DEF Range
      <3>3. c[j] \in Range(b)
        BY <2>3, <1>2, <1>1 DEF Range
      <3>. QED BY <3>2, <3>3
    <2>. QED BY <2>1, <2>2, <2>3
  <1>. QED BY <1>1, <1>3 DEF Sorted, c

\* A set that is closed downwards is a prefix
LEMMA Prefix ==
    ASSUME NEW n \in Nat, NEW D, D \subseteq 1 .. n,
           \A i \in D : \A j \in 1 .. n : j <= i => j \in D
    PROVE  Cardinality(D) \in 0 .. n /\ D = 1 .. Cardinality(D)
  <1> DEFINE T == {i \in 1 .. n + 1 : i \notin D}
  <1>1. T \subseteq Nat /\ n + 1 \in T
    OBVIOUS
  <1>2. \E m \in T : \A i \in T : m <= i
    <2> HIDE DEF T
    <2>. QED BY <1>1, Least
  <1>3. PICK m \in T : \A i \in T : m <= i
    BY <1>2
  <1>4. D = 1 .. m - 1
    <2>1. ASSUME NEW i \in 1 .. m - 1 PROVE i \in D
      BY <1>3
    <2>2. ASSUME NEW i \in D PROVE i \in 1 .. m - 1
      <3>1. m \in 1 .. n + 1 /\ m \notin D
        BY <1>3
      <3>2. ~(m <= i)
        BY <3>1
      <3>. QED BY <3>1, <3>2
    <2>. QED BY <2>1, <2>2
  <1>5. m - 1 \in 0 .. n
    BY <1>3
  <1>6. Cardinality(1 .. m - 1) = m - 1
    <2>1. Cardinality(1 .. m - 1) = IF 1 > m - 1 THEN 0 ELSE m - 1 - 1 + 1
      BY <1>5, FS_Interval
    <2>. QED BY <2>1, <1>5
  <1>. QED BY <1>4, <1>5, <1>6

\* An event comes into the heap after those that are due no later.
LEMMA Inserted ==
    ASSUME NEW h, Sequence(h), Sorted(h), Timed(Range(h)), NEW e, e.t \in Nat
    PROVE  LET g == Pushed(h, e)
           IN /\ Sequence(g) /\ Range(g) = Range(h) \cup {e} /\ Sorted(g)
              /\ (Once(h) /\ \A f \in Range(h) : Differ(e, f)) => Once(g)
  <1> DEFINE D == {i \in DOMAIN h : h[i].t <= e.t}
             n == Cardinality(D)
             a == SubSeq(h, 1, n)
             b == SubSeq(h, n + 1, Len(h))
             g == Pushed(h, e)
  <1>1. Len(h) \in Nat /\ DOMAIN h = 1 .. Len(h) /\ \A i \in 1 .. Len(h) : h[i].t \in Nat
    BY LenProperties DEF Sequence, Timed, Range
  <1>2. n \in 0 .. Len(h) /\ D = 1 .. n
    <2>1. D \subseteq 1 .. Len(h)
      BY <1>1
    <2>2. \A i \in D : \A j \in 1 .. Len(h) : j <= i => j \in D
      BY <1>1 DEF Sorted
    <2> HIDE DEF D
    <2>. QED BY <1>1, <2>1, <2>2, Prefix
  <1>3. /\ h = a \o b /\ Sequence(a) /\ Sequence(b) /\ Len(a) = n /\ Len(b) = Len(h) - n
        /\ \A i \in 1 .. n : a[i] = h[i]
        /\ \A i \in 1 .. Len(h) - n : b[i] = h[n + i]
    <2> HIDE DEF n
    <2>. QED BY <1>2, Split
  <1>4. g = (a \o <<e>>) \o b
    BY DEF Pushed
  <1>5. \A i \in 1 .. Len(h) : h[i].t <= e.t <=> i <= n
    BY <1>1, <1>2
  <1>6. Len(a) = n /\ Len(b) = Len(h) - n /\ DOMAIN a = 1 .. n /\ DOMAIN b = 1 .. Len(h) - n
    BY <1>3, LenProperties DEF Sequence
  <1> HIDE DEF a, b, g, n, D
  <1>7. Sorted(a) /\ \A f \in Range(a) : f.t <= e.t
    <2>1. \A i \in 1 .. n : i \in 1 .. Len(h) /\ a[i] = h[i] /\ h[i].t <= e.t
      BY <1>2, <1>3, <1>5
    <2>. QED BY <2>1, <1>1, <1>6 DEF Sorted, Range
  <1>8. Sorted(b) /\ \A f \in Range(b) : e.t <= f.t
    <2>1. ASSUME NEW i \in 1 .. Len(h) - n
          PROVE  n + i \in 1 .. Len(h) /\ b[i] = h[n + i] /\ e.t <= h[n + i].t
      <3>1. n + i \in 1 .. Len(h) /\ ~(n + i <= n)
        BY <1>1, <1>2
      <3>. QED BY <3>1, <1>1, <1>3, <1>5
    <2>2. ASSUME NEW i \in 1 .. Len(h) - n, NEW j \in 1 .. Len(h) - n, i <= j
          PROVE  b[i].t <= b[j].t
      <3>1. n + i <= n + j
        BY <2>2, <1>2
      <3>2. n + i \in DOMAIN h /\ n + j \in DOMAIN h
        BY <2>1, <1>1
      <3>3. h[n + i].t <= h[n + j].t
        BY <3>1, <3>2 DEF Sorted
      <3>. QED BY <2>1, <3>3
    <2>. QED BY <2>1, <2>2, <1>6 DEF Sorted, Range
  <1>9. Sequence(<<e>>) /\ Range(<<e>>) = {e} /\ Sorted(<<e>>)
    BY Single DEF Sorted
  <1>10. Sequence(a \o <<e>>) /\ Range(a \o <<e>>) = Range(a) \cup {e} /\ Range(h) = Range(a) \cup Range(b)
    BY <1>3, <1>9, Concat
  <1>11. Sequence(g) /\ Range(g) = Range(h) \cup {e}
    <2>1. Sequence(g) /\ Range(g) = Range(a \o <<e>>) \cup Range(b)
      BY <1>3, <1>4, <1>10, Concat
    <2>. QED BY <2>1, <1>10
  <1>12. Sorted(a \o <<e>>)
    BY <1>3, <1>7, <1>9, SortedConcat
  <1>13. Sorted(g)
    <2>1. \A x \in Range(a \o <<e>>), y \in Range(b) : x.t <= y.t
      <3>1. \A x \in Range(a), y \in Range(b) : x.t \in Nat /\ y.t \in Nat
        BY <1>10 DEF Timed
      <3>. QED BY <3>1, <1>7, <1>8, <1>10
    <2>. QED BY <2>1, <1>3, <1>4, <1>8, <1>10, <1>12, SortedConcat
  <1>14. ASSUME Once(h), \A f \in Range(h) : Differ(e, f) PROVE Once(g)
    <2>0. \A x, y : Differ(x, y) => Differ(y, x)
      BY DEF Differ
    <2>1. Once(a) /\ Once(b) /\ \A x \in Range(a), y \in Range(b) : Differ(x, y)
      BY <1>3, <1>14, OnceConcat
    <2>2. Once(a \o <<e>>)
      BY <1>3, <1>9, <1>10, <1>14, <2>0, <2>1, OnceConcat, OnceSingle
    <2>. QED BY <1>3, <1>4, <1>10, <1>14, <2>1, <2>2, OnceConcat
  <1>. QED BY <1>11, <1>13, <1>14 DEF g

\* One more comes
LEMMA NumberPushed ==
    ASSUME NEW h, Sequence(h), Sorted(h), Timed(Range(h)), NEW e, e.t \in Nat, NEW S
    PROVE  NumberOf(Pushed(h, e), S) = NumberOf(h, S) + NumberOf(<<e>>, S)
  <1> DEFINE D == {i \in DOMAIN h : h[i].t <= e.t}
             n == Cardinality(D)
             a == SubSeq(h, 1, n)
             b == SubSeq(h, n + 1, Len(h))
  <1>1. Len(h) \in Nat /\ DOMAIN h = 1 .. Len(h) /\ \A i \in 1 .. Len(h) : h[i].t \in Nat
    BY LenProperties DEF Sequence, Timed, Range
  <1>2. n \in 0 .. Len(h)
    <2>1. D \subseteq 1 .. Len(h)
      BY <1>1
    <2>2. \A i \in D : \A j \in 1 .. Len(h) : j <= i => j \in D
      BY <1>1 DEF Sorted
    <2> HIDE DEF D
    <2>. QED BY <1>1, <2>1, <2>2, Prefix
  <1> HIDE DEF n
  <1>3. h = a \o b /\ Sequence(a) /\ Sequence(b)
    BY <1>2, Split
  <1>4. Pushed(h, e) = a \o <<e>> \o b
    BY DEF Pushed, n
  <1> HIDE DEF a, b
  <1>5. Sequence(<<e>>) /\ Sequence(a \o <<e>>)
    BY <1>3, Single, Concat
  <1>6. NumberOf((a \o <<e>>) \o b, S) = NumberOf(a \o <<e>>, S) + NumberOf(b, S)
    BY <1>3, <1>5, NumberConcat
  <1>7. NumberOf(a \o <<e>>, S) = NumberOf(a, S) + NumberOf(<<e>>, S)
    BY <1>3, <1>5, NumberConcat
  <1>8. NumberOf(a \o b, S) = NumberOf(a, S) + NumberOf(b, S) /\ NumberOf(a, S) \in Nat /\ NumberOf(b, S) \in Nat
    BY <1>3, NumberConcat
  <1>9. NumberOf(<<e>>, S) \in Nat
    BY <1>5, NumberNone
  <1>. QED BY <1>3, <1>4, <1>6, <1>7, <1>8, <1>9

\* It comes before what is due later only, so that boundaries stay in time
LEMMA InTimePushed ==
    ASSUME NEW h, Sequence(h), Sorted(h), Timed(Range(h)), NEW e, e.t \in Nat, NEW rest, Sequence(rest), NEW A,
           InTime(A, h, <<e>> \o rest)
    PROVE  InTime(A, Pushed(h, e), rest)
  <1> DEFINE D == {i \in DOMAIN h : h[i].t <= e.t}
             n == Cardinality(D)
             a == SubSeq(h, 1, n)
             b == SubSeq(h, n + 1, Len(h))
  <1>1. Len(h) \in Nat /\ DOMAIN h = 1 .. Len(h) /\ \A i \in 1 .. Len(h) : h[i].t \in Nat
    BY LenProperties DEF Sequence, Timed, Range
  <1>2. n \in 0 .. Len(h) /\ D = 1 .. n
    <2>1. D \subseteq 1 .. Len(h)
      BY <1>1
    <2>2. \A i \in D : \A j \in 1 .. Len(h) : j <= i => j \in D
      BY <1>1 DEF Sorted
    <2> HIDE DEF D
    <2>. QED BY <1>1, <2>1, <2>2, Prefix
  <1>3. \A i \in 1 .. Len(h) : i > n => h[i].t # e.t
    <2>1. ASSUME NEW i \in 1 .. Len(h), i > n PROVE ~(h[i].t <= e.t)
      <3>1. i \notin D
        <4>. HIDE DEF D, n
        <4>. QED BY <1>1, <1>2, <2>1
      <3>. QED BY <3>1, <1>1
    <2>2. ASSUME NEW i \in 1 .. Len(h), h[i].t = e.t PROVE h[i].t <= e.t
      BY <2>2
    <2>. QED BY <2>1, <2>2
  <1> HIDE DEF n
  <1>4. /\ h = a \o b /\ Sequence(a) /\ Sequence(b) /\ Len(b) = Len(h) - n
        /\ \A i \in 1 .. Len(h) - n : b[i] = h[n + i]
    BY <1>2, Split
  <1>5. Pushed(h, e) = (a \o <<e>>) \o b
    BY DEF Pushed, n
  <1> HIDE DEF a, b, D
  <1>6. \A f \in Range(b) : f.t # e.t
    <2>1. DOMAIN b = 1 .. Len(h) - n
      BY <1>4, LenProperties DEF Sequence
    <2>2. ASSUME NEW i \in 1 .. Len(h) - n PROVE b[i].t # e.t
      <3>1. n + i \in 1 .. Len(h) /\ n + i > n
        BY <1>1, <1>2
      <3>. QED BY <1>3, <1>4, <3>1
    <2>. QED BY <2>1, <2>2 DEF Range
  <1>7. /\ Sequence(<<e>>) /\ Range(<<e>>) = {e} /\ Sequence(a \o <<e>>) /\ Range(a \o <<e>>) = Range(a) \cup {e}
        /\ Range(h) = Range(a) \cup Range(b) /\ Range((a \o <<e>>) \o b) = (Range(a) \cup {e}) \cup Range(b)
        /\ Range(<<e>> \o rest) = {e} \cup Range(rest)
    <2>1. Sequence(<<e>>) /\ Range(<<e>>) = {e}
      BY Single
    <2>2. Sequence(a \o <<e>>) /\ Range(a \o <<e>>) = Range(a) \cup {e} /\ Range(h) = Range(a) \cup Range(b)
      BY <1>4, <2>1, Concat
    <2>3. Range((a \o <<e>>) \o b) = Range(a \o <<e>>) \cup Range(b) /\ Range(<<e>> \o rest) = {e} \cup Range(rest)
      BY <1>4, <2>1, <2>2, Concat
    <2>. QED BY <2>1, <2>2, <2>3
  <1>8. Early(h, A) /\ InOrder(A, <<e>> \o rest) /\ \A d \in Range(h), f \in {e} \cup Range(rest) : ~Misses(A, d, f)
    BY <1>7 DEF InTime
  <1>9. Early(a, A) /\ Early(b, A) /\ \A d \in Range(a), f \in Range(b) : Misses(A, d, f) => d.t # f.t
    BY <1>4, <1>8, EarlyConcat
  <1>10. Early(<<e>>, A)
    BY DEF Early
  <1>11. Early(a \o <<e>>, A)
    BY <1>4, <1>7, <1>8, <1>9, <1>10, EarlyConcat
  <1>12. Early((a \o <<e>>) \o b, A)
    BY <1>4, <1>6, <1>7, <1>9, <1>11, EarlyConcat
  <1>13. InOrder(A, rest) /\ \A f \in Range(rest) : ~Misses(A, e, f)
    BY <1>7, <1>8, InOrderConcat
  <1>. QED BY <1>5, <1>7, <1>8, <1>12, <1>13 DEF InTime

\* All of them, one after another.
LEMMA PushedAllOf ==
    ASSUME NEW h, NEW ev, Sequence(h), Sequence(ev), Sorted(h), Timed(Range(h) \cup Range(ev)),
           Once(h \o ev), NEW g \in PushedAll(h, ev)
    PROVE  /\ Sequence(g) /\ Range(g) = Range(h) \cup Range(ev) /\ Sorted(g) /\ Once(g)
           /\ \A S : NumberOf(g, S) = NumberOf(h, S) + NumberOf(ev, S)
           /\ \A A : InTime(A, h, ev) => Early(g, A)
  <1> DEFINE s0 == [heap |-> h, left |-> ev]
  <1>1. Pushes(s0, s0, 0)
    <2>1. Len(ev) \in Nat
      BY LenProperties DEF Sequence
    <2>. QED BY <2>1 DEF Pushes
  <1>2. ASSUME NEW k \in Nat, NEW s, Pushes(s0, s, k), NEW z \in PushedNext(s) PROVE Pushes(s0, z, k + 1)
    <2>1. Len(s0.left) \in Nat
      BY LenProperties DEF Sequence
    <2>2. CASE s.left = <<>>
      <3>1. z = s /\ Len(s.left) = 0
        BY <2>2 DEF PushedNext
      <3>2. ~(k + 1 <= Len(s0.left))
        BY <1>2, <2>1, <3>1 DEF Pushes
      <3>. HIDE DEF s0
      <3>. QED BY <3>1, <3>2, <1>2 DEF Pushes
    <2>3. CASE s.left # <<>>
      <3> DEFINE e == Head(s.left)
                 rest == Tail(s.left)
      <3>0. z.heap = Pushed(s.heap, e) /\ z.left = rest
        BY <2>3 DEF PushedNext
      <3>1. /\ Sequence(rest) /\ s.left = <<e>> \o rest /\ Range(s.left) = {e} \cup Range(rest)
            /\ Len(rest) = Len(s.left) - 1 /\ Len(s.left) \in Nat
        BY <1>2, <2>3, Headed DEF Pushes
      <3>2. Sequence(<<e>>) /\ Range(<<e>>) = {e}
        BY Single
      <3>. HIDE DEF s0, e, rest
      <3>3. Sequence(s.heap) /\ Sequence(s.left) /\ Sorted(s.heap) /\ Once(s.heap \o s.left)
        BY <1>2 DEF Pushes
      <3>4. Timed(Range(s.heap)) /\ e.t \in Nat
        BY <1>2, <3>1 DEF Pushes, Timed
      <3>5. Once(s.heap) /\ Once(s.left) /\ \A x \in Range(s.heap), y \in Range(s.left) : Differ(x, y)
        BY <3>3, OnceConcat
      <3>6. Once(rest) /\ \A y \in Range(rest) : Differ(e, y)
        <4>1. Once(<<e>> \o rest)
          BY <3>5, <3>1
        <4>. QED BY <4>1, <3>1, <3>2, OnceConcat
      <3>7. \A x \in Range(s.heap) : Differ(e, x)
        BY <3>5, <3>1 DEF Differ
      <3>8. Sequence(z.heap) /\ Range(z.heap) = Range(s.heap) \cup {e} /\ Sorted(z.heap) /\ Once(z.heap)
        BY <3>0, <3>3, <3>4, <3>5, <3>7, Inserted
      <3>9. Once(z.heap \o rest)
        <4>1. \A x \in Range(z.heap), y \in Range(rest) : Differ(x, y)
          BY <3>1, <3>5, <3>6, <3>8
        <4>. QED BY <4>1, <3>1, <3>6, <3>8, OnceConcat
      <3>10. k + 1 <= Len(s0.left) => Len(z.left) = Len(s0.left) - (k + 1)
        BY <1>2, <2>1, <3>0, <3>1 DEF Pushes
      <3>11. Range(z.heap) \cup Range(z.left) = Range(s0.heap) \cup Range(s0.left)
        BY <1>2, <3>0, <3>1, <3>8 DEF Pushes
      <3>12. \A S : NumberOf(z.heap, S) + NumberOf(z.left, S) = NumberOf(s0.heap, S) + NumberOf(s0.left, S)
        <4> SUFFICES ASSUME NEW S PROVE NumberOf(z.heap, S) + NumberOf(z.left, S) = NumberOf(s0.heap, S) + NumberOf(s0.left, S)
          OBVIOUS
        <4>1. NumberOf(z.heap, S) = NumberOf(s.heap, S) + NumberOf(<<e>>, S)
          BY <3>0, <3>3, <3>4, NumberPushed
        <4>2. NumberOf(s.left, S) = NumberOf(<<e>>, S) + NumberOf(rest, S) /\ NumberOf(<<e>>, S) \in Nat /\ NumberOf(rest, S) \in Nat
          BY <3>1, <3>2, NumberConcat
        <4>3. NumberOf(s.heap, S) \in Nat
          BY <3>3, NumberNone
        <4>4. NumberOf(s.heap, S) + NumberOf(s.left, S) = NumberOf(s0.heap, S) + NumberOf(s0.left, S)
          BY <1>2 DEF Pushes
        <4>. QED BY <4>1, <4>2, <4>3, <4>4, <3>0
      <3>13. \A A : InTime(A, s0.heap, s0.left) => InTime(A, z.heap, z.left)
        <4> SUFFICES ASSUME NEW A, InTime(A, s0.heap, s0.left) PROVE InTime(A, z.heap, z.left)
          OBVIOUS
        <4>1. InTime(A, s.heap, <<e>> \o rest)
          BY <1>2, <3>1 DEF Pushes
        <4>. QED BY <3>0, <3>1, <3>3, <3>4, <4>1, InTimePushed
      <3>. QED BY <1>2, <3>0, <3>1, <3>8, <3>9, <3>10, <3>11, <3>12, <3>13 DEF Pushes
    <2>. QED BY <2>2, <2>3
  <1>3. \A s \in Rounds(s0, Len(ev), PushedNext) : Pushes(s0, s, Len(ev))
    <2>1. Len(ev) \in Nat
      BY LenProperties DEF Sequence
    <2>. HIDE DEF s0
    <2>. QED BY <1>1, <1>2, <2>1, PushesGoOn
  <1>4. PICK s \in Rounds(s0, Len(ev), PushedNext) : g = s.heap
    BY DEF PushedAll
  <1>5. Pushes(s0, s, Len(ev)) /\ s0.left = ev /\ s0.heap = h
    BY <1>3, <1>4
  <1>6. Len(ev) \in Nat /\ s.left \in Seq(Range(s.left))
    BY <1>5, LenProperties DEF Sequence, Pushes
  <1> HIDE DEF s0
  <1>7. s.left = <<>> /\ Range(s.left) = {} /\ Sequence(s.heap)
    <2>1. Len(s.left) = 0
      BY <1>5, <1>6 DEF Pushes
    <2>. QED BY <2>1, <1>5, <1>6, EmptySeq, Empty DEF Pushes
  <1>8. Once(s.heap)
    BY <1>5, <1>7, WithNothing DEF Pushes
  <1>9. \A S : NumberOf(g, S) = NumberOf(h, S) + NumberOf(ev, S)
    <2> SUFFICES ASSUME NEW S PROVE NumberOf(g, S) = NumberOf(h, S) + NumberOf(ev, S)
      OBVIOUS
    <2>1. NumberOf(s.heap, S) + NumberOf(s.left, S) = NumberOf(h, S) + NumberOf(ev, S)
      BY <1>5 DEF Pushes
    <2>2. NumberOf(s.left, S) = 0
      BY <1>7, NumberSingle
    <2>3. NumberOf(s.heap, S) \in Nat
      BY <1>7, NumberNone
    <2>. QED BY <2>1, <2>2, <2>3, <1>4
  <1>10. \A A : InTime(A, h, ev) => Early(g, A)
    BY <1>4, <1>5 DEF Pushes, InTime
  <1>. QED BY <1>4, <1>5, <1>7, <1>8, <1>9, <1>10 DEF Pushes

-----------------------------------------------------------------------------
(* The model *)

\* What the tables of a model hold, by the assumption on models
LEMMA Statics ==
    ASSUME model \in Models
    PROVE  /\ Out \in [Nodes -> Seq(Nodes)]
           /\ Needs \in [Nodes -> Seq((SUBSET Pools) \ {{}})]
           /\ Times \in [Nodes -> SUBSET Nat]
           /\ Borders \in [Nodes \cup Subs -> Seq(Nodes)]
           /\ model.errors \in [Nodes \cup Subs -> Seq(Nodes)]
           /\ Inside \in [Nodes -> Seq(Subs)]
           /\ Starts \in Seq(Nodes)
           /\ \A s \in Range(Starts) : model.intervals[s] \subseteq Nat
           /\ model.capacity \in [Pools -> [0 .. Horizon -> Nat \ {0}]]
           /\ Horizon \in Nat /\ TStop \in Nat /\ IsFiniteSet(Pools) /\ IsFiniteSet(Subs)
           /\ NoNode \notin Nodes
  BY ModelsAssumption DEF Out, Nodes, Needs, Times, Borders, Inside, Starts, Pools, Subs, Horizon, TStop

-----------------------------------------------------------------------------
(* Pools *)

\* An activity, and the activities of a state with cs cases, the next one na
ActFields == {"case", "node", "marks", "lasts", "held", "loop", "entry"}
IsAct(a, cs) ==
    /\ a = [x \in ActFields |-> a[x]]
    /\ a.node \in Nodes /\ a.case \in 1 .. cs /\ a.lasts \in Nat
    /\ a.held \in 0 .. Len(Needs[a.node])
Acts(A, na, cs) ==
    /\ na \in Nat \ {0} /\ DOMAIN A \subseteq 1 .. na - 1
    /\ \A i \in DOMAIN A : IsAct(A[i], cs)

\* The alternatives of a node are sets of pools, none of them empty
LEMMA Needed ==
    ASSUME model \in Models, NEW n \in Nodes
    PROVE  /\ Len(Needs[n]) \in Nat /\ DOMAIN Needs[n] = 1 .. Len(Needs[n])
           /\ \A b \in 1 .. Len(Needs[n]) : Needs[n][b] \subseteq Pools /\ Needs[n][b] # {}
           /\ \A d \in DemandsOf(n) : d \subseteq Pools /\ d # {}
           /\ Needs[n] # <<>> <=> Len(Needs[n]) # 0
           /\ Needs[n] # <<>> <=> DemandsOf(n) # {}
  <1> DEFINE s == Needs[n]
             D == (SUBSET Pools) \ {{}}
  <1>1. s \in Seq(D)
    BY Statics
  <1> HIDE DEF s, D
  <1>2. Len(s) \in Nat /\ DOMAIN s = 1 .. Len(s) /\ (s # <<>> => Len(s) # 0) /\ Len(<<>>) = 0
    BY <1>1, LenProperties, EmptySeq
  <1>3. \A b \in 1 .. Len(s) : s[b] \in D
    BY <1>1, ElementOfSeq
  <1>4. Range(s) = {s[b] : b \in 1 .. Len(s)}
    BY <1>2 DEF Range
  <1>5. s # <<>> <=> Range(s) # {}
    BY <1>2, <1>4
  <1>. QED BY <1>2, <1>3, <1>4, <1>5 DEF s, D, DemandsOf

\* A pool has units at every time
LEMMA UnitsOf ==
    ASSUME model \in Models, NEW p \in Pools, NEW t \in Nat
    PROVE  Units(p, t) \in Nat \ {0}
  <1> DEFINE i == IF t < Horizon THEN t ELSE Horizon
  <1>1. i \in 0 .. Horizon
    BY Statics
  <1>2. model.capacity[p] \in [0 .. Horizon -> Nat \ {0}]
    BY Statics
  <1> HIDE DEF i
  <1>3. model.capacity[p][i] \in Nat \ {0}
    BY <1>1, <1>2
  <1>. QED BY <1>3 DEF Units, i

\* Activities are finitely many, and so is what they hold
LEMMA Finite ==
    ASSUME NEW A, NEW na \in Nat, DOMAIN A \subseteq 1 .. na - 1
    PROVE  /\ IsFiniteSet(DOMAIN A) /\ IsFiniteSet(Waiting(A))
           /\ \A p : InUse(A, p) \in Nat
  <1>1. IsFiniteSet(DOMAIN A)
    <2>1. 1 \in Int /\ na - 1 \in Int
      OBVIOUS
    <2>2. IsFiniteSet(1 .. na - 1)
      BY <2>1, FS_Interval
    <2>. QED BY <2>2, FS_Subset
  <1>2. Waiting(A) \subseteq DOMAIN A
    BY DEF Waiting
  <1>3. ASSUME NEW p PROVE InUse(A, p) \in Nat
    BY <1>1, FS_Subset, FS_CardinalityType DEF InUse
  <1>. QED BY <1>1, <1>2, <1>3, FS_Subset

\* Activity x that holds units of its alternative a
ServedBy(x, a) == [x EXCEPT !.held = a]

\* An activity is what it would be with what it holds
LEMMA Itself ==
    ASSUME NEW a, DOMAIN a = ActFields, a = [x \in ActFields |-> a[x]] PROVE a = ServedBy(a, a.held)
  BY DEF ActFields, ServedBy

\* What n turns of the drain loop have done
Turns(s0, s, k) ==
    LET A == s0.acts
        B == s.acts
    IN /\ DOMAIN B = DOMAIN A /\ IsFiniteSet(DOMAIN B)
       /\ \A i \in DOMAIN A :
             /\ IsAct(B[i], Len(cases))
             /\ B[i] = ServedBy(A[i], B[i].held)
             /\ i \notin Waiting(A) => B[i] = A[i]
       /\ Sequence(s.events) /\ Once(s.events)
       /\ \A e \in Range(s.events) :
             /\ e.kind = "done" /\ e.t \in Nat /\ Due.t <= e.t
             /\ e.node \in Nodes /\ e.act \in Waiting(A) \ Waiting(B)
             /\ e.case = A[e.act].case /\ e.node = A[e.act].node
       /\ \A i \in Waiting(A) \ Waiting(B) : \E e \in Range(s.events) : e.act = i
       /\ Waiting(B) \subseteq Waiting(A)
       /\ \A p : InUse(A, p) \in Nat /\ InUse(B, p) \in Nat /\ InUse(A, p) <= InUse(B, p)
       /\ s0.marked \subseteq s.marked
       /\ Cardinality(Waiting(A)) \in Nat
       /\ \/ Startable(B, s.marked) = {}
          \/ Cardinality(Waiting(B)) + k = Cardinality(Waiting(A))

\* So it is after all turns: by induction over them
LEMMA TurnsGoOn ==
    \A s : \A n \in Nat :
       /\ Turns(s, s, 0)
       /\ \A k \in Nat : \A x : Turns(s, x, k) => \A y \in Turn(x) : Turns(s, y, k + 1)
       => \A y \in Rounds(s, n, Turn) : Turns(s, y, n)
  <1> SUFFICES ASSUME NEW s, NEW n \in Nat, Turns(s, s, 0),
                      \A k \in Nat : \A x : Turns(s, x, k) => \A y \in Turn(x) : Turns(s, y, k + 1)
               PROVE  \A y \in Rounds(s, n, Turn) : Turns(s, y, n)
    OBVIOUS
  <1>1. PICK f : Chain(f, s, n, "turn") /\ Rounds(s, n, Turn) = f[n]
    BY TurnRounds
  <1>2. f[0] = {s} /\ \A k \in 0 .. n - 1 : f[k + 1] = UNION {Turn(x) : x \in f[k]}
    BY <1>1 DEF Chain, StepOf
  <1> DEFINE T == {k \in 0 .. n : \A y \in f[k] : Turns(s, y, k)}
  <1>3. 0 \in T
    BY <1>2
  <1>4. \A k \in 0 .. n - 1 : k \in T => k + 1 \in T
    BY <1>2
  <1>5. n \in T
    <2>. HIDE DEF T
    <2>. QED BY <1>3, <1>4, Upwards
  <1>. QED BY <1>1, <1>5

\* A grant
OneMore(B, i, a, C) ==
    /\ DOMAIN C = DOMAIN B
    /\ C[i] = ServedBy(B[i], a) /\ \A j \in DOMAIN B \ {i} : C[j] = B[j]
    /\ IsAct(C[i], Len(cases))
    /\ Waiting(C) = Waiting(B) \ {i}
    /\ Cardinality(Waiting(B)) \in Nat /\ Cardinality(Waiting(C)) = Cardinality(Waiting(B)) - 1
    /\ \A p : InUse(B, p) \in Nat /\ InUse(C, p) \in Nat /\ InUse(B, p) <= InUse(C, p)

\* What a grant leaves as it is, and what it adds to use
LEMMA OneGrant ==
    ASSUME model \in Models, Due.t \in Nat
    PROVE  \A B, i, a, C :
             /\ IsFiniteSet(DOMAIN B) /\ \A j \in DOMAIN B : IsAct(B[j], Len(cases))
             /\ i \in Waiting(B) /\ a \in DOMAIN Needs[B[i].node] /\ C = [B EXCEPT ![i].held = a]
             => OneMore(B, i, a, C)
  <1> SUFFICES ASSUME NEW B, NEW i, NEW a, NEW C,
                      IsFiniteSet(DOMAIN B), \A j \in DOMAIN B : IsAct(B[j], Len(cases)),
                      i \in Waiting(B), a \in DOMAIN Needs[B[i].node], C = [B EXCEPT ![i].held = a]
               PROVE  OneMore(B, i, a, C)
    OBVIOUS
  <1>1. i \in DOMAIN B /\ B[i].held = 0 /\ IsAct(B[i], Len(cases))
    BY DEF Waiting
  <1>2. DOMAIN C = DOMAIN B /\ C[i] = ServedBy(B[i], a) /\ \A j \in DOMAIN B \ {i} : C[j] = B[j]
    BY <1>1 DEF ServedBy
  <1>3. /\ DOMAIN C[i] = ActFields /\ C[i].held = a /\ C[i].node = B[i].node /\ C[i].case = B[i].case
        /\ C[i].lasts = B[i].lasts
    BY <1>1, <1>2 DEF IsAct, ActFields, ServedBy
  <1>4. a \in 1 .. Len(Needs[B[i].node]) /\ Len(Needs[B[i].node]) \in Nat
    BY <1>1, Needed DEF IsAct
  <1>5. IsAct(C[i], Len(cases))
    BY <1>1, <1>3, <1>4 DEF IsAct
  <1>6. Waiting(C) = Waiting(B) \ {i}
    BY <1>1, <1>2, <1>3, <1>4 DEF Waiting
  <1>7. IsFiniteSet(Waiting(B)) /\ Cardinality(Waiting(B)) \in Nat
    <2>1. Waiting(B) \subseteq DOMAIN B
      BY DEF Waiting
    <2>. QED BY <2>1, FS_Subset, FS_CardinalityType
  <1>8. Cardinality(Waiting(C)) = Cardinality(Waiting(B)) - 1
    BY <1>6, <1>7, FS_RemoveElement
  <1>9. ASSUME NEW p PROVE InUse(B, p) \in Nat /\ InUse(C, p) \in Nat /\ InUse(B, p) <= InUse(C, p)
    <2> DEFINE U(F) == {j \in DOMAIN F : F[j].held # 0 /\ p \in Needs[F[j].node][F[j].held]}
    <2>1. U(B) \subseteq U(C)
      BY <1>1, <1>2
    <2>2. U(C) \subseteq DOMAIN B
      BY <1>2
    <2>3. IsFiniteSet(U(C)) /\ IsFiniteSet(U(B)) /\ Cardinality(U(B)) <= Cardinality(U(C))
      BY <2>1, <2>2, FS_Subset
    <2>4. Cardinality(U(B)) \in Nat /\ Cardinality(U(C)) \in Nat
      BY <2>3, FS_CardinalityType
    <2>. QED BY <2>3, <2>4 DEF InUse
  <1>. QED BY <1>2, <1>5, <1>6, <1>7, <1>8, <1>9 DEF OneMore

\* The request chosen waits, and the alternative chosen is one of its own
LEMMA Chosen ==
    ASSUME NEW B, NEW M, NEW o \in First(Startable(B, M))
    PROVE  /\ o[1] \in Waiting(B) /\ o[2] \in DOMAIN Needs[B[o[1]].node]
           /\ Startable(B, M) # {}
  <1>1. o \in Startable(B, M)
    BY DEF First
  <1>2. PICK i \in Waiting(B) :
          o \in {<<i, a>> : a \in {b \in DOMAIN Needs[B[i].node] :
                                    /\ Needs[B[i].node][b] \in M
                                    /\ Fits(B, Needs[B[i].node][b], Due.t)}}
    BY <1>1 DEF Startable
  <1>3. PICK a \in DOMAIN Needs[B[i].node] : o = <<i, a>>
    BY <1>2
  <1>. QED BY <1>1, <1>3

\* One turn of the drain loop keeps what is known of n turns
LEMMA TurnTurns ==
    ASSUME model \in Models, Due.t \in Nat, NEW s0, NEW s, NEW k \in Nat, Turns(s0, s, k), NEW z \in Turn(s)
    PROVE  Turns(s0, z, k + 1)
  <1> DEFINE A == s0.acts
             B == s.acts
  <1>1. CASE Startable(B, s.marked) = {}
    <2>1. z = s
      BY <1>1 DEF Turn
    <2>. QED BY <2>1, <1>1 DEF Turns
  <1>2. CASE Startable(B, s.marked) # {}
    <2>1. PICK o \in First(Startable(B, s.marked)) : z = Granted(s, o)
      BY <1>2 DEF Turn
    <2> DEFINE i == o[1]
               a == o[2]
               C == z.acts
               end == Event(Due.t + B[i].lasts, "done", B[i].case, B[i].node, i)
    <2>2. i \in Waiting(B) /\ a \in DOMAIN Needs[B[i].node]
      BY Chosen
    <2>3. /\ DOMAIN B = DOMAIN A /\ IsFiniteSet(DOMAIN B)
          /\ \A j \in DOMAIN B : IsAct(B[j], Len(cases))
          /\ \A j \in DOMAIN A : B[j] = ServedBy(A[j], B[j].held) /\ (j \notin Waiting(A) => B[j] = A[j])
          /\ Waiting(B) \subseteq Waiting(A)
      BY DEF Turns
    <2>4. /\ C = [B EXCEPT ![i].held = a]
          /\ z.marked = s.marked \cup DemandsOf(B[i].node) \cup DemandsOn(Needs[B[i].node][a])
          /\ z.events = Append(s.events, end)
      BY <2>1 DEF Granted
    <2> HIDE DEF i, a, C, A, B, end
    <2>5. /\ DOMAIN C = DOMAIN B
          /\ C[i] = ServedBy(B[i], a) /\ \A j \in DOMAIN B \ {i} : C[j] = B[j]
          /\ IsAct(C[i], Len(cases))
          /\ Waiting(C) = Waiting(B) \ {i}
          /\ Cardinality(Waiting(B)) \in Nat /\ Cardinality(Waiting(C)) = Cardinality(Waiting(B)) - 1
          /\ \A p : InUse(B, p) \in Nat /\ InUse(C, p) \in Nat /\ InUse(B, p) <= InUse(C, p)
      <3>1. /\ model \in Models /\ Due.t \in Nat /\ IsFiniteSet(DOMAIN B) /\ \A j \in DOMAIN B : IsAct(B[j], Len(cases))
            /\ i \in Waiting(B) /\ a \in DOMAIN Needs[B[i].node] /\ C = [B EXCEPT ![i].held = a]
        BY <2>2, <2>3, <2>4
      <3>2. OneMore(B, i, a, C)
        BY ONLY <3>1, OneGrant
      <3>. QED BY <3>2 DEF OneMore
    <2>6. i \in DOMAIN B
      BY <2>2 DEF Waiting
    <2>7. ASSUME NEW j \in DOMAIN A
          PROVE  /\ IsAct(C[j], Len(cases))
                 /\ C[j] = ServedBy(A[j], C[j].held)
                 /\ j \notin Waiting(A) => C[j] = A[j]
      <3>1. CASE j # i
        BY <3>1, <2>3, <2>5
      <3>2. CASE j = i
        <4>1. C[i] = ServedBy(B[i], a) /\ B[i] = ServedBy(A[i], B[i].held)
          BY <2>3, <2>5, <3>2
        <4>2. DOMAIN B[i] = ActFields
          BY <2>3, <2>6 DEF IsAct
        <4>3. C[i].held = a
          BY <4>1, <4>2 DEF ActFields, ServedBy
        <4>4. ServedBy(ServedBy(A[i], B[i].held), a) = ServedBy(A[i], a)
          BY DEF ServedBy
        <4>5. C[i] = ServedBy(A[i], C[i].held)
          BY <4>1, <4>3, <4>4
        <4>. QED BY <3>2, <4>5, <2>2, <2>3, <2>5
      <3>. QED BY <3>1, <3>2
    <2>8. /\ end.kind = "done" /\ end.t = Due.t + B[i].lasts /\ end.node = B[i].node
          /\ end.case = B[i].case /\ end.act = i
      BY DEF end, Event
    <2>9. /\ Sequence(s.events) /\ Once(s.events)
          /\ \A e \in Range(s.events) :
                /\ e.kind = "done" /\ e.t \in Nat /\ Due.t <= e.t
                /\ e.node \in Nodes /\ e.act \in Waiting(A) \ Waiting(B)
                /\ e.case = A[e.act].case /\ e.node = A[e.act].node
          /\ \A j \in Waiting(A) \ Waiting(B) : \E e \in Range(s.events) : e.act = j
      BY DEF Turns, A, B
    <2>10. z.events = s.events \o <<end>> /\ Sequence(<<end>>) /\ Range(<<end>>) = {end}
      BY <2>4, <2>9, Appended, Single
    <2>11. Sequence(z.events) /\ Range(z.events) = Range(s.events) \cup {end}
      <3>1. Sequence(s.events)
        BY <2>9
      <3>2. Sequence(s.events \o <<end>>) /\ Range(s.events \o <<end>>) = Range(s.events) \cup Range(<<end>>)
        BY ONLY <3>1, <2>10, Concat
      <3>. QED BY <3>2, <2>10
    <2>12. Once(z.events)
      <3>1. \A e \in Range(s.events) : Differ(e, end)
        BY <2>2, <2>8, <2>9 DEF Differ
      <3>. QED BY <3>1, <2>9, <2>10, OnceConcat, OnceSingle
    <2>13. /\ end.t \in Nat /\ Due.t <= end.t /\ end.node \in Nodes /\ end.case = A[end.act].case
           /\ end.act \in Waiting(A) \ Waiting(C) /\ end.node = A[end.act].node
      <3>1. B[i].case = A[i].case /\ B[i].node = A[i].node
        BY <2>3, <2>6 DEF IsAct, ServedBy, ActFields
      <3>. QED BY <3>1, <2>2, <2>3, <2>5, <2>6, <2>8 DEF IsAct
    <2>14. \A e \in Range(z.events) :
             /\ e.kind = "done" /\ e.t \in Nat /\ Due.t <= e.t
             /\ e.node \in Nodes /\ e.act \in Waiting(A) \ Waiting(C)
             /\ e.case = A[e.act].case /\ e.node = A[e.act].node
      BY <2>5, <2>8, <2>9, <2>11, <2>13
    <2>15. \A j \in Waiting(A) \ Waiting(C) : \E e \in Range(z.events) : e.act = j
      BY <2>5, <2>8, <2>9, <2>11
    <2>16. \A p : InUse(A, p) \in Nat /\ InUse(C, p) \in Nat /\ InUse(A, p) <= InUse(C, p)
      <3> TAKE p
      <3>1. InUse(A, p) \in Nat /\ InUse(B, p) \in Nat /\ InUse(A, p) <= InUse(B, p)
        BY DEF Turns, A, B
      <3>2. InUse(C, p) \in Nat /\ InUse(B, p) <= InUse(C, p)
        BY <2>5
      <3>. QED BY <3>1, <3>2
    <2>17. s0.marked \subseteq z.marked
      BY <2>4 DEF Turns
    <2>18. Cardinality(Waiting(A)) \in Nat /\ Cardinality(Waiting(C)) + (k + 1) = Cardinality(Waiting(A))
      <3>1. Cardinality(Waiting(A)) \in Nat /\ Cardinality(Waiting(B)) + k = Cardinality(Waiting(A))
        BY <1>2 DEF Turns, A, B
      <3>. QED BY <3>1, <2>5
    <2>. QED BY <2>3, <2>5, <2>7, <2>11, <2>12, <2>14, <2>15, <2>16, <2>17, <2>18 DEF Turns, A, C
  <1>. QED BY <1>1, <1>2

\* What the drain loop does: it only grants what waited, with one end for each, until
\* nothing that is marked fits.
Settled(A, M, na, d) ==
    LET B == d.acts
    IN /\ Acts(B, na, Len(cases)) /\ DOMAIN B = DOMAIN A
       /\ \A i \in DOMAIN A : /\ B[i].node = A[i].node /\ B[i].case = A[i].case
                               /\ B[i].entry = A[i].entry /\ B[i].loop = A[i].loop
                               /\ B[i].marks = A[i].marks
       /\ Sequence(d.events) /\ Once(d.events)
       /\ \A e \in Range(d.events) :
             /\ e.kind = "done" /\ e.t \in Nat /\ Due.t <= e.t
             /\ e.node \in Nodes /\ e.act \in Waiting(A) \ Waiting(B)
             /\ e.case = A[e.act].case /\ e.node = A[e.act].node
       /\ \A i \in Waiting(A) \ Waiting(B) : \E e \in Range(d.events) : e.act = i
       /\ Waiting(B) \subseteq Waiting(A)
       /\ \A i \in Waiting(B) : \A q \in DemandsOf(B[i].node) :
             Fits(B, q, Due.t) => q \notin M /\ Fits(A, q, Due.t)

\* The turns end: there are at most as many as requests wait, by induction over them
LEMMA Drains ==
    ASSUME model \in Models, Due.t \in Nat
    PROVE  \A na, A, M : Acts(A, na, Len(cases)) => \A d \in Drained(A, M) : Settled(A, M, na, d)
  <1> SUFFICES ASSUME NEW na, NEW A, Acts(A, na, Len(cases)), NEW M, NEW d \in Drained(A, M)
               PROVE  Settled(A, M, na, d)
    OBVIOUS
  <1> DEFINE s0 == [acts |-> A, marked |-> M, events |-> <<>>]
             n == Cardinality(Waiting(A))
             B == d.acts
  <1>1. na \in Nat /\ DOMAIN A \subseteq 1 .. na - 1 /\ \A i \in DOMAIN A : IsAct(A[i], Len(cases))
    BY DEF Acts
  <1>2. IsFiniteSet(DOMAIN A) /\ IsFiniteSet(Waiting(A)) /\ n \in Nat /\ \A p : InUse(A, p) \in Nat
    BY <1>1, Finite, FS_CardinalityType
  <1>3. Turns(s0, s0, 0)
    <2>1. ASSUME NEW i \in DOMAIN A PROVE A[i] = ServedBy(A[i], A[i].held)
      BY <1>1, Itself DEF IsAct
    <2>2. s0.acts = A /\ s0.marked = M /\ s0.events = <<>>
      OBVIOUS
    <2> HIDE DEF s0, n
    <2>3. n + 0 = n
      BY <1>2
    <2>. QED BY <1>1, <1>2, <2>1, <2>2, <2>3, Empty, OnceEmpty DEF Turns, n
  <1>4. \A s \in Rounds(s0, n, Turn) : Turns(s0, s, n)
    <2> HIDE DEF s0, n
    <2>1. \A k \in Nat : \A x : Turns(s0, x, k) => \A y \in Turn(x) : Turns(s0, y, k + 1)
      BY TurnTurns
    <2>. QED BY <1>2, <1>3, <2>1, TurnsGoOn
  <1>5. Drained(A, M) = Rounds(s0, n, Turn)
    BY DEF Drained
  <1>6. Turns(s0, d, n) /\ s0.acts = A /\ s0.marked = M
    BY <1>4, <1>5
  <1> HIDE DEF s0, n
  <1>7. /\ DOMAIN B = DOMAIN A /\ IsFiniteSet(DOMAIN B)
        /\ \A i \in DOMAIN A : IsAct(B[i], Len(cases)) /\ B[i] = ServedBy(A[i], B[i].held)
        /\ Waiting(B) \subseteq Waiting(A)
        /\ \A p : InUse(A, p) \in Nat /\ InUse(B, p) \in Nat /\ InUse(A, p) <= InUse(B, p)
        /\ M \subseteq d.marked
    BY <1>6 DEF Turns
  <1>8. /\ Sequence(d.events) /\ Once(d.events)
        /\ \A e \in Range(d.events) :
              /\ e.kind = "done" /\ e.t \in Nat /\ Due.t <= e.t
              /\ e.node \in Nodes /\ e.act \in Waiting(A) \ Waiting(B)
              /\ e.case = A[e.act].case /\ e.node = A[e.act].node
        /\ \A i \in Waiting(A) \ Waiting(B) : \E e \in Range(d.events) : e.act = i
    BY <1>6 DEF Turns
  <1>9. Startable(B, d.marked) = {}
    <2>1. CASE Cardinality(Waiting(B)) + n = Cardinality(Waiting(A))
      <3>1. Waiting(B) \subseteq DOMAIN B
        BY DEF Waiting
      <3>2. IsFiniteSet(Waiting(B)) /\ Cardinality(Waiting(B)) \in Nat
        BY <1>7, <3>1, FS_Subset, FS_CardinalityType
      <3>3. Cardinality(Waiting(B)) = 0
        BY <2>1, <3>2, <1>2 DEF n
      <3>4. Waiting(B) = {}
        BY <3>2, <3>3, FS_EmptySet
      <3>. QED BY <3>4 DEF Startable
    <2>. QED BY <2>1, <1>6 DEF Turns
  <1>10. Acts(B, na, Len(cases))
    BY <1>7 DEF Acts
  <1>11. \A i \in DOMAIN A : /\ B[i].node = A[i].node /\ B[i].case = A[i].case
                             /\ B[i].entry = A[i].entry /\ B[i].loop = A[i].loop
                             /\ B[i].marks = A[i].marks
    BY <1>1, <1>7 DEF IsAct, ActFields, ServedBy
  <1>12. ASSUME NEW i \in Waiting(B), NEW q \in DemandsOf(B[i].node), Fits(B, q, Due.t)
         PROVE  q \notin M /\ Fits(A, q, Due.t)
    <2>1. i \in DOMAIN B /\ B[i].node \in Nodes
      BY <1>7 DEF Waiting, IsAct
    <2>2. PICK b \in DOMAIN Needs[B[i].node] : q = Needs[B[i].node][b]
      BY DEF DemandsOf, Range
    <2>3. q \notin d.marked
      <3>1. ASSUME q \in d.marked PROVE <<i, b>> \in Startable(B, d.marked)
        BY <3>1, <2>2, <1>12 DEF Startable
      <3>. QED BY <3>1, <1>9
    <2>4. ASSUME NEW p \in q PROVE InUse(A, p) < Units(p, Due.t)
      <3>1. p \in Pools
        BY <2>1, Needed
      <3>2. Units(p, Due.t) \in Nat
        BY <3>1, UnitsOf
      <3>3. InUse(B, p) < Units(p, Due.t)
        BY <1>12 DEF Fits
      <3>4. InUse(A, p) \in Nat /\ InUse(B, p) \in Nat /\ InUse(A, p) <= InUse(B, p)
        BY <1>7
      <3>. QED BY <3>2, <3>3, <3>4
    <2>. QED BY <2>3, <2>4, <1>7 DEF Fits
  <1>. QED BY <1>7, <1>8, <1>10, <1>11, <1>12 DEF Settled

-----------------------------------------------------------------------------
(* What is ahead of a state *)

\* An event that may be in the heap from t on
IsEvent(e, t, na, cs) ==
    /\ e.t \in Nat /\ t <= e.t
    /\ e.kind = "capacity" => e.node \in Pools
    /\ e.kind # "capacity" => e.node \in Nodes
    /\ e.kind \notin {"capacity", "arrive"} => e.case \in 1 .. cs
    /\ e.kind = "arrive" => e.node \in Range(Starts)
    /\ e.kind = "done" => e.act \in 1 .. na - 1
    /\ e.kind = "enter" => e.t = t /\ e.times \subseteq Nat
Events(E, t, na, cs) == \A e \in E : IsEvent(e, t, na, cs)

\* The activities, but those of X, belong to the entries they say
Entered(A, N, ni, X) ==
    /\ ni \in Nat \ {0} /\ \A e \in DOMAIN N : e \in 1 .. ni - 1 /\ N[e].node \in Nodes
    /\ \A i \in DOMAIN A \ X : A[i].entry # 0 =>
          /\ A[i].entry \in DOMAIN N
          /\ N[A[i].entry].node = A[i].node /\ N[A[i].entry].case = A[i].case

\* The activities, but those of X, have an end ahead unless they wait
OneEnd(A, E, X) ==
    /\ \A i \in DOMAIN A \ X : i \notin Waiting(A) <=> \E e \in E : e.kind = "done" /\ e.act = i
    /\ \A e \in E : e.kind = "done" /\ e.act \in DOMAIN A => e.case = A[e.act].case

\* The pools of P have an event at their first rise after t; all the others that have a
\* rise have nobody who waits for them
Woken(A, E, P, t) ==
    /\ \A p \in Pools : p \in P <=> \E e \in E : e.kind = "capacity" /\ e.node = p
    /\ \A e \in E : e.kind = "capacity" => \A u \in Rises(e.node, t) : e.t <= u
    /\ \A i \in Waiting(A) : \A p \in PoolsOf(A[i].node) : Rises(p, t) # {} => p \in P

\* What fits at t is going to be looked at at t
LookedAt(A, E, t) ==
    \A i \in Waiting(A) : \A d \in DemandsOf(A[i].node) :
        Fits(A, d, t) => \E e \in E : e.kind = "capacity" /\ e.t = t /\ e.node \in d

\* What a handler works on.  The ends of the activities of X have left the heap, or will
\* never be looked at.
WorkFields == {"k", "acts", "loops", "entries", "nextAct", "nextId", "rows", "pending", "blocked", "events"}
Coming(w) == Range(Tail(heap)) \cup Range(w.events)
Good(w, X) ==
    /\ DOMAIN w = WorkFields /\ "instant" \in DOMAIN w.k /\ w.k.instant = Due.t
    /\ Acts(w.acts, w.nextAct, Len(cases))
    /\ Entered(w.acts, w.entries, w.nextId, X)
    /\ Sequence(w.events) /\ Once(Tail(heap) \o w.events)
    /\ Events(Coming(w), Due.t, w.nextAct, Len(cases))
    /\ OneEnd(w.acts, Coming(w), X)
    /\ Woken(w.acts, Coming(w), w.pending, Due.t)
    /\ LookedAt(w.acts, Coming(w), Due.t)

\* Where it works
Here ==
    /\ model \in Models /\ Due.t \in Nat /\ Sequence(Tail(heap))
    /\ Len(cases) \in Nat /\ Due.case \in 1 .. Len(cases)

\* Acts and events apart, w may change
LEMMA Likewise ==
    \A w, x, X, Y :
       /\ Good(w, X) /\ X \subseteq Y
       /\ DOMAIN x = WorkFields /\ "instant" \in DOMAIN x.k /\ x.k.instant = w.k.instant
       /\ x.acts = w.acts /\ x.nextAct = w.nextAct /\ x.events = w.events /\ x.pending = w.pending
       /\ Entered(x.acts, x.entries, x.nextId, Y)
       => Good(x, Y)
  <1> SUFFICES ASSUME NEW w, NEW x, NEW X, NEW Y, Good(w, X), X \subseteq Y,
                DOMAIN x = WorkFields, "instant" \in DOMAIN x.k, x.k.instant = w.k.instant,
                x.acts = w.acts, x.nextAct = w.nextAct, x.events = w.events, x.pending = w.pending,
                Entered(x.acts, x.entries, x.nextId, Y)
         PROVE  Good(x, Y)
    OBVIOUS
  <1>1. Coming(x) = Coming(w)
    BY DEF Coming
  <1>2. OneEnd(x.acts, Coming(x), Y)
    <2>1. OneEnd(w.acts, Coming(w), X)
      BY DEF Good
    <2>. QED BY <1>1, <2>1 DEF OneEnd
  <1>. QED BY <1>1, <1>2 DEF Good

\* Only an event of an activity or of a pool changes what is ahead of one
LEMMA MoreEvents ==
    ASSUME NEW A, NEW E, NEW F, NEW X, NEW P, NEW t,
           \A e \in F : e.kind \notin {"done", "capacity"}
    PROVE  /\ OneEnd(A, E, X) => OneEnd(A, E \cup F, X)
           /\ Woken(A, E, P, t) => Woken(A, E \cup F, P, t)
           /\ LookedAt(A, E, t) => LookedAt(A, E \cup F, t)
  <1>1. OneEnd(A, E, X) => OneEnd(A, E \cup F, X)
    BY DEF OneEnd
  <1>2. Woken(A, E, P, t) => Woken(A, E \cup F, P, t)
    BY DEF Woken
  <1>3. LookedAt(A, E, t) => LookedAt(A, E \cup F, t)
    BY DEF LookedAt
  <1>. QED BY <1>1, <1>2, <1>3

\* Events of nodes may be added
IsMore(ev, na) ==
    /\ Sequence(ev)
    /\ \A e \in Range(ev) : IsEvent(e, Due.t, na, Len(cases)) /\ e.kind \notin {"done", "capacity"}

\* They disturb nothing
LEMMA Adding ==
    ASSUME Here
    PROVE  \A w, x, X, ev :
              Good(w, X) /\ IsMore(ev, w.nextAct) /\ x = [w EXCEPT !.events = @ \o ev] => Good(x, X)
  <1> SUFFICES ASSUME NEW w, NEW x, NEW X, NEW ev, Good(w, X), IsMore(ev, w.nextAct),
                      x = [w EXCEPT !.events = @ \o ev]
               PROVE  Good(x, X)
    OBVIOUS
  <1>1. /\ x.events = w.events \o ev /\ DOMAIN x = WorkFields
        /\ x.k = w.k /\ x.acts = w.acts /\ x.nextAct = w.nextAct /\ x.pending = w.pending
        /\ x.entries = w.entries /\ x.nextId = w.nextId
    BY DEF Good, WorkFields
  <1>2. Sequence(w.events) /\ Sequence(ev) /\ Sequence(Tail(heap)) /\ Once(Tail(heap) \o w.events)
    BY DEF Good, IsMore, Here
  <1>3. Sequence(x.events) /\ Range(x.events) = Range(w.events) \cup Range(ev)
    <2>1. Sequence(w.events \o ev) /\ Range(w.events \o ev) = Range(w.events) \cup Range(ev)
      BY ONLY <1>2, Concat
    <2>. QED BY <2>1, <1>1
  <1>4. Coming(x) = Coming(w) \cup Range(ev)
    BY <1>3 DEF Coming
  <1>5. Once(Tail(heap) \o x.events)
    <2>1. Sequence(Tail(heap) \o w.events)
      BY ONLY <1>2, Concat
    <2>2. \A e \in Range(ev) : e.kind \notin {"done", "capacity"}
      BY DEF IsMore
    <2>3. Once(ev)
      BY <1>2, <2>2, SequenceOf DEF Once, Differ, Range
    <2>4. Once((Tail(heap) \o w.events) \o ev)
      BY <1>2, <2>1, <2>2, <2>3, OnceConcat DEF Differ
    <2>5. (Tail(heap) \o w.events) \o ev = Tail(heap) \o (w.events \o ev)
      <3> DEFINE a == Tail(heap)
                 b == w.events
      <3>1. Sequence(a) /\ Sequence(b) /\ Sequence(ev)
        BY <1>2
      <3> HIDE DEF a, b
      <3>2. (a \o b) \o ev = a \o (b \o ev)
        BY ONLY <3>1, Assoc
      <3>. QED BY <3>2 DEF a, b
    <2>. QED BY <1>1, <2>4, <2>5
  <1>6. Events(Coming(x), Due.t, x.nextAct, Len(cases))
    BY <1>1, <1>4 DEF Good, Events, IsMore
  <1>7. \A e \in Range(ev) : e.kind \notin {"done", "capacity"}
    BY DEF IsMore
  <1>8. /\ OneEnd(w.acts, Coming(w), X) /\ Woken(w.acts, Coming(w), w.pending, Due.t)
        /\ LookedAt(w.acts, Coming(w), Due.t)
    BY DEF Good
  <1>9. /\ OneEnd(w.acts, Coming(w) \cup Range(ev), X)
        /\ Woken(w.acts, Coming(w) \cup Range(ev), w.pending, Due.t)
        /\ LookedAt(w.acts, Coming(w) \cup Range(ev), Due.t)
    BY ONLY <1>7, <1>8, MoreEvents
  <1>. QED BY <1>1, <1>3, <1>4, <1>5, <1>6, <1>9 DEF Good

-----------------------------------------------------------------------------
(* Units given back and granted *)

\* What the drain loop makes of activities that all have their ends
Comes(A, M, na, d, E) ==
    LET B == d.acts
        F == E \cup Range(d.events)
    IN /\ OneEnd(B, F, {}) /\ Events(Range(d.events), Due.t, na, Len(cases))
       /\ \A e \in E, f \in Range(d.events) : Differ(e, f)
       /\ \A P : Woken(A, E, P, Due.t) => Woken(B, F, P, Due.t)
       /\ (\A i \in Waiting(A) : \A q \in DemandsOf(A[i].node) :
              q \notin M /\ Fits(A, q, Due.t)
              => \E e \in E : e.kind = "capacity" /\ e.t = Due.t /\ e.node \in q)
          => LookedAt(B, F, Due.t)

\* After the drain loop, what has been granted has its end and what fits has been looked at
LEMMA Settling ==
    \A A, M, na, d, E :
              Acts(A, na, Len(cases)) /\ Settled(A, M, na, d) /\ OneEnd(A, E, {}) => Comes(A, M, na, d, E)
  <1> SUFFICES ASSUME NEW A, NEW M, NEW na, NEW d, NEW E,
                      Acts(A, na, Len(cases)), Settled(A, M, na, d), OneEnd(A, E, {})
               PROVE  Comes(A, M, na, d, E)
    OBVIOUS
  <1> DEFINE B == d.acts
             D == Range(d.events)
             F == E \cup D
  <1>1. /\ DOMAIN B = DOMAIN A /\ Waiting(B) \subseteq Waiting(A)
        /\ \A i \in DOMAIN A : B[i].node = A[i].node /\ B[i].case = A[i].case
    BY DEF Settled
  <1>2. /\ \A f \in D : /\ f.kind = "done" /\ f.t \in Nat /\ Due.t <= f.t
                        /\ f.node \in Nodes /\ f.act \in Waiting(A) \ Waiting(B)
                        /\ f.case = A[f.act].case
        /\ \A i \in Waiting(A) \ Waiting(B) : \E e \in D : e.act = i
    BY DEF Settled
  <1>3. Waiting(A) \subseteq DOMAIN A
    BY DEF Waiting
  <1>4. \A i \in Waiting(B) : \A q \in DemandsOf(B[i].node) :
             Fits(B, q, Due.t) => q \notin M /\ Fits(A, q, Due.t)
    BY DEF Settled
  <1>5. \A i \in DOMAIN A : A[i].case \in 1 .. Len(cases) /\ i \in 1 .. na - 1
    BY DEF Acts, IsAct
  <1> HIDE DEF B, D
  <1>6. OneEnd(B, F, {})
    <2>1. ASSUME NEW i \in DOMAIN B PROVE i \notin Waiting(B) <=> \E e \in F : e.kind = "done" /\ e.act = i
      <3>1. i \notin Waiting(A) <=> \E e \in E : e.kind = "done" /\ e.act = i
        BY <1>1 DEF OneEnd
      <3>. QED BY <3>1, <1>1, <1>2
    <2>2. ASSUME NEW e \in F, e.kind = "done", e.act \in DOMAIN B PROVE e.case = B[e.act].case
      BY <2>2, <1>1, <1>2, <1>3 DEF OneEnd
    <2>. QED BY <2>1, <2>2 DEF OneEnd
  <1>7. Events(D, Due.t, na, Len(cases))
    BY <1>2, <1>3, <1>5 DEF Events, IsEvent
  <1>8. \A e \in E, f \in D : Differ(e, f)
    BY <1>2, <1>3 DEF Differ, OneEnd
  <1>9. \A P : Woken(A, E, P, Due.t) => Woken(B, F, P, Due.t)
    BY <1>1, <1>2, <1>3 DEF Woken
  <1>10. ASSUME \A i \in Waiting(A) : \A q \in DemandsOf(A[i].node) :
                  q \notin M /\ Fits(A, q, Due.t)
                  => \E e \in E : e.kind = "capacity" /\ e.t = Due.t /\ e.node \in q
         PROVE  LookedAt(B, F, Due.t)
    <2> SUFFICES ASSUME NEW i \in Waiting(B), NEW q \in DemandsOf(B[i].node), Fits(B, q, Due.t)
                 PROVE  \E e \in F : e.kind = "capacity" /\ e.t = Due.t /\ e.node \in q
      BY DEF LookedAt
    <2>1. i \in Waiting(A) /\ q \in DemandsOf(A[i].node) /\ q \notin M /\ Fits(A, q, Due.t)
      BY <1>1, <1>3, <1>4
    <2>. QED BY <2>1, <1>10
  <1>. QED BY <1>6, <1>7, <1>8, <1>9, <1>10 DEF Comes, B, D

\* What is left of activities that some have been taken from
LEMMA Left ==
    ASSUME NEW A, NEW S
    PROVE  LET B == Without(A, S)
           IN /\ DOMAIN B = DOMAIN A \ S /\ \A i \in DOMAIN B : B[i] = A[i]
              /\ Waiting(B) = Waiting(A) \ S
  BY DEF Without, Waiting

\* The events of a handler grow by those of the drain loop
LEMMA Longer ==
    ASSUME Here
    PROVE  \A s, a : /\ Sequence(s) /\ Sequence(a) /\ Once(Tail(heap) \o s) /\ Once(a)
                     /\ \A e \in Range(Tail(heap)) \cup Range(s), f \in Range(a) : Differ(e, f)
                     => /\ Sequence(s \o a) /\ Range(s \o a) = Range(s) \cup Range(a)
                        /\ Once(Tail(heap) \o (s \o a))
  <1> SUFFICES ASSUME NEW s, NEW a, Sequence(s), Sequence(a), Once(Tail(heap) \o s), Once(a),
                      \A e \in Range(Tail(heap)) \cup Range(s), f \in Range(a) : Differ(e, f)
               PROVE  /\ Sequence(s \o a) /\ Range(s \o a) = Range(s) \cup Range(a)
                      /\ Once(Tail(heap) \o (s \o a))
    OBVIOUS
  <1> DEFINE h == Tail(heap)
  <1>1. Sequence(h) /\ Sequence(s) /\ Sequence(a) /\ Once(h \o s) /\ Once(a)
    BY DEF Here
  <1>2. \A e \in Range(h) \cup Range(s), f \in Range(a) : Differ(e, f)
    OBVIOUS
  <1> HIDE DEF h
  <1>3. Sequence(s \o a) /\ Range(s \o a) = Range(s) \cup Range(a)
    BY ONLY <1>1, Concat
  <1>4. Sequence(h \o s) /\ Range(h \o s) = Range(h) \cup Range(s)
    BY ONLY <1>1, Concat
  <1>5. Once((h \o s) \o a)
    <2> DEFINE g == h \o s
    <2>1. Sequence(g) /\ Once(g) /\ \A e \in Range(g), f \in Range(a) : Differ(e, f)
      BY <1>1, <1>2, <1>4
    <2> HIDE DEF g
    <2>2. Once(g \o a)
      BY ONLY <1>1, <2>1, OnceConcat
    <2>. QED BY <2>2 DEF g
  <1>6. (h \o s) \o a = h \o (s \o a)
    BY ONLY <1>1, Assoc
  <1>. QED BY <1>3, <1>5, <1>6 DEF h

\* Who else holds units does not depend on those that hold none of a pool
LEMMA SameUse ==
    ASSUME NEW A, NEW B, NEW p,
           \A i : (i \in DOMAIN A /\ A[i].held # 0 /\ p \in Needs[A[i].node][A[i].held])
                  <=> (i \in DOMAIN B /\ B[i].held # 0 /\ p \in Needs[B[i].node][B[i].held])
    PROVE  InUse(A, p) = InUse(B, p)
  <1>1. {i \in DOMAIN A : A[i].held # 0 /\ p \in Needs[A[i].node][A[i].held]}
        = {i \in DOMAIN B : B[i].held # 0 /\ p \in Needs[B[i].node][B[i].held]}
    OBVIOUS
  <1>. QED BY <1>1 DEF InUse

\* A batch of requests is dropped: the activities left have their ends, and nobody is
\* passed over, because every class that uses a pool given back is looked at
GivenBack(w, ids, x) ==
    /\ Good(x, {})
    /\ x.k = w.k /\ x.entries = w.entries /\ x.nextId = w.nextId
    /\ DOMAIN x.acts = DOMAIN w.acts \ ids
    /\ \A i \in DOMAIN x.acts : x.acts[i].entry = w.acts[i].entry

\* Their units are given back and granted (release and cancel, with the drain that follows)
LEMMA Releasing ==
    ASSUME Here
    PROVE  \A w, ids : Good(w, ids) => \A x \in Released(w, ids) : GivenBack(w, ids, x)
  <1> SUFFICES ASSUME NEW w, NEW ids, Good(w, ids), NEW x \in Released(w, ids)
               PROVE  GivenBack(w, ids, x)
    OBVIOUS
  <1> DEFINE A == w.acts
             na == w.nextAct
             E == Coming(w)
             A0 == Without(A, ids)
             M == UNION {IF A[i].held # 0 THEN DemandsOn(Needs[A[i].node][A[i].held])
                                          ELSE DemandsOf(A[i].node) : i \in ids}
  <1>1. PICK d \in Drained(A0, M) : x = [w EXCEPT !.acts = d.acts, !.events = @ \o d.events]
    BY DEF Released, Dropped
  <1> DEFINE B == d.acts
             D == Range(d.events)
  <1>2. /\ x.acts = B /\ x.events = w.events \o d.events /\ DOMAIN x = WorkFields
        /\ x.k = w.k /\ x.entries = w.entries /\ x.nextId = w.nextId /\ x.nextAct = na
        /\ x.pending = w.pending
    BY <1>1 DEF Good, WorkFields
  <1>3. /\ Acts(A, na, Len(cases)) /\ Entered(A, w.entries, w.nextId, ids)
        /\ Sequence(w.events) /\ Once(Tail(heap) \o w.events)
        /\ Events(E, Due.t, na, Len(cases)) /\ OneEnd(A, E, ids)
        /\ Woken(A, E, w.pending, Due.t) /\ LookedAt(A, E, Due.t)
        /\ "instant" \in DOMAIN w.k /\ w.k.instant = Due.t
    BY DEF Good
  <1> HIDE DEF A, na, E, M
  <1>4. DOMAIN A0 = DOMAIN A \ ids /\ (\A i \in DOMAIN A0 : A0[i] = A[i]) /\ Waiting(A0) = Waiting(A) \ ids
    BY Left
  <1> HIDE DEF A0
  <1>5. Acts(A0, na, Len(cases))
    BY <1>3, <1>4 DEF Acts
  <1>6. OneEnd(A0, E, {})
    BY <1>3, <1>4 DEF OneEnd
  <1>7. model \in Models /\ Due.t \in Nat
    BY DEF Here
  <1>8. Settled(A0, M, na, d)
    BY ONLY <1>1, <1>5, <1>7, Drains
  <1>9. Comes(A0, M, na, d, E)
    BY <1>5, <1>6, <1>8, Settling
  <1>10. /\ Acts(B, na, Len(cases)) /\ DOMAIN B = DOMAIN A0
         /\ \A i \in DOMAIN A0 : B[i].node = A0[i].node /\ B[i].case = A0[i].case /\ B[i].entry = A0[i].entry
         /\ Sequence(d.events) /\ Once(d.events)
    BY <1>8 DEF Settled
  <1>11. /\ OneEnd(B, E \cup D, {}) /\ Events(D, Due.t, na, Len(cases))
         /\ \A e \in E, f \in D : Differ(e, f)
         /\ \A P : Woken(A0, E, P, Due.t) => Woken(B, E \cup D, P, Due.t)
         /\ (\A i \in Waiting(A0) : \A q \in DemandsOf(A0[i].node) :
                q \notin M /\ Fits(A0, q, Due.t)
                => \E e \in E : e.kind = "capacity" /\ e.t = Due.t /\ e.node \in q)
            => LookedAt(B, E \cup D, Due.t)
    BY <1>9 DEF Comes
  <1> HIDE DEF B
  <1>12. Entered(B, w.entries, w.nextId, {})
    BY <1>3, <1>4, <1>10 DEF Entered
  <1>13. /\ Sequence(x.events) /\ Range(x.events) = Range(w.events) \cup D
         /\ Once(Tail(heap) \o x.events)
    <2>1. \A e \in Range(Tail(heap)) \cup Range(w.events), f \in Range(d.events) : Differ(e, f)
      BY <1>11 DEF E, Coming
    <2>2. /\ Sequence(w.events \o d.events) /\ Range(w.events \o d.events) = Range(w.events) \cup D
          /\ Once(Tail(heap) \o (w.events \o d.events))
      BY <1>3, <1>10, <2>1, Longer
    <2>. QED BY <2>2, <1>2
  <1>14. Coming(x) = E \cup D
    BY <1>13 DEF Coming, E
  <1>15. Events(E \cup D, Due.t, na, Len(cases))
    BY <1>3, <1>11 DEF Events
  <1>16. Woken(B, E \cup D, w.pending, Due.t)
    <2>1. Woken(A0, E, w.pending, Due.t)
      <3>1. \A i \in Waiting(A0) : i \in Waiting(A) /\ A0[i] = A[i]
        BY <1>4 DEF Waiting
      <3>. QED BY <1>3, <3>1 DEF Woken
    <2>. QED BY <2>1, <1>11
  <1>17. ASSUME NEW i \in Waiting(A0), NEW q \in DemandsOf(A0[i].node), q \notin M, Fits(A0, q, Due.t)
         PROVE  \E e \in E : e.kind = "capacity" /\ e.t = Due.t /\ e.node \in q
    <2>1. i \in Waiting(A) /\ A0[i] = A[i] /\ A0[i].node \in Nodes
      BY <1>4, <1>5 DEF Waiting, Acts, IsAct
    <2>2. ASSUME NEW p \in q PROVE InUse(A0, p) = InUse(A, p)
      <3>1. ASSUME NEW j \in DOMAIN A, A[j].held # 0, p \in Needs[A[j].node][A[j].held], j \in ids
            PROVE  FALSE
        <4>1. q \in DemandsOn(Needs[A[j].node][A[j].held])
          BY <2>1, <3>1 DEF DemandsOn
        <4>2. q \in M
          BY <4>1, <3>1 DEF M
        <4>. QED BY <4>2, <1>17
      <3>2. \A j : (j \in DOMAIN A0 /\ A0[j].held # 0 /\ p \in Needs[A0[j].node][A0[j].held])
                   <=> (j \in DOMAIN A /\ A[j].held # 0 /\ p \in Needs[A[j].node][A[j].held])
        BY <1>4, <3>1
      <3>. QED BY <3>2, SameUse
    <2>3. Fits(A, q, Due.t)
      BY <2>2, <1>17 DEF Fits
    <2>. QED BY <2>1, <2>3, <1>3 DEF LookedAt
  <1>18. LookedAt(B, E \cup D, Due.t)
    BY <1>11, <1>17
  <1>19. Good(x, {})
    BY <1>2, <1>3, <1>10, <1>11, <1>12, <1>13, <1>14, <1>15, <1>16, <1>18 DEF Good
  <1>20. \A i \in DOMAIN x.acts : x.acts[i].entry = w.acts[i].entry
    BY <1>2, <1>4, <1>10 DEF A
  <1>21. DOMAIN x.acts = DOMAIN w.acts \ ids
    BY <1>2, <1>4, <1>10 DEF A
  <1>. QED BY <1>2, <1>19, <1>20, <1>21 DEF GivenBack

\* The events of the pools that will rise
Rising(P, pend, r) ==
    /\ Sequence(r) /\ Once(r)
    /\ \A e \in Range(r) : /\ e.kind = "capacity" /\ e.t \in Nat /\ Due.t <= e.t
                           /\ e.node \in P /\ e.node \notin pend
                           /\ \A u \in Rises(e.node, Due.t) : e.t <= u
    /\ \A p \in P \ pend : Rises(p, Due.t) # {} => \E e \in Range(r) : e.node = p

\* They are events of those pools, at their first rise, and each has one
LEMMA RisesAhead ==
    ASSUME model \in Models, Due.t \in Nat
    PROVE  \A P, pend : P \subseteq Pools => Rising(P, pend, RiseEvents(P, pend))
  <1> SUFFICES ASSUME NEW P, NEW pend, P \subseteq Pools
               PROVE  Rising(P, pend, RiseEvents(P, pend))
    OBVIOUS
  <1> DEFINE rising == {p \in P \ pend : Rises(p, Due.t) # {}}
             n == Cardinality(rising)
             ps == CHOOSE f \in Bijection(1 .. n, rising) : TRUE
             r == [k \in 1 .. n |-> Event(FirstRise(ps[k]), "capacity", 0, ps[k], 0)]
  <1>1. r = RiseEvents(P, pend)
    BY DEF RiseEvents
  <1>2. IsFiniteSet(rising)
    BY Statics, FS_Subset
  <1> HIDE DEF rising
  <1>3. n \in Nat /\ \E f : f \in Bijection(1 .. n, rising)
    BY <1>2, FS_CardinalityType DEF ExistsBijection
  <1> HIDE DEF n
  <1>4. ps \in Bijection(1 .. n, rising)
    BY <1>3
  <1> HIDE DEF ps
  <1>5. /\ \A k \in 1 .. n : ps[k] \in rising
        /\ \A j, k \in 1 .. n : j # k => ps[j] # ps[k]
        /\ \A p \in rising : \E k \in 1 .. n : ps[k] = p
    BY <1>4 DEF Bijection, Injection, Surjection, IsInjective
  <1>6. ASSUME NEW p \in rising
        PROVE  /\ FirstRise(p) \in Nat /\ Due.t <= FirstRise(p)
               /\ \A u \in Rises(p, Due.t) : FirstRise(p) <= u
    <2>1. Rises(p, Due.t) # {} /\ \A u \in Rises(p, Due.t) : u \in Nat /\ Due.t <= u
      BY Statics DEF rising, Rises
    <2>2. \E u \in Rises(p, Due.t) : \A v \in Rises(p, Due.t) : u <= v
      <3> DEFINE T == Rises(p, Due.t)
      <3>1. T \subseteq Nat /\ T # {}
        BY <2>1
      <3> HIDE DEF T
      <3>2. \E u \in T : \A v \in T : u <= v
        BY <3>1, Least
      <3>. QED BY <3>2 DEF T
    <2>3. FirstRise(p) \in Rises(p, Due.t) /\ \A v \in Rises(p, Due.t) : FirstRise(p) <= v
      BY <2>2 DEF FirstRise
    <2>. QED BY <2>1, <2>3
  <1>7. DOMAIN r = 1 .. n
    OBVIOUS
  <1>8. \A k \in 1 .. n : r[k].kind = "capacity" /\ r[k].node = ps[k] /\ r[k].t = FirstRise(ps[k])
    BY DEF Event
  <1> HIDE DEF r
  <1>9. Sequence(r)
    <2>1. r \in [1 .. n -> Range(r)]
      <3>1. r = [k \in 1 .. n |-> r[k]]
        BY DEF r
      <3>2. \A k \in 1 .. n : r[k] \in Range(r)
        BY <1>7 DEF Range
      <3>. QED BY <3>1, <3>2
    <2>. QED BY <2>1, <1>3, SeqDef DEF Sequence
  <1>10. Once(r)
    BY <1>5, <1>7, <1>8 DEF Once, Differ
  <1>11. ASSUME NEW e \in Range(r)
         PROVE  /\ e.kind = "capacity" /\ e.t \in Nat /\ Due.t <= e.t
                /\ e.node \in P /\ e.node \notin pend
                /\ \A u \in Rises(e.node, Due.t) : e.t <= u
    <2>1. PICK k \in 1 .. n : e = r[k]
      BY <1>7 DEF Range
    <2>2. ps[k] \in rising
      BY <1>5
    <2>3. ps[k] \in P /\ ps[k] \notin pend
      BY <2>2 DEF rising
    <2>. QED BY <2>1, <2>2, <2>3, <1>6, <1>8
  <1>12. ASSUME NEW p \in P \ pend, Rises(p, Due.t) # {} PROVE \E e \in Range(r) : e.node = p
    <2>1. p \in rising
      BY <1>12 DEF rising
    <2>2. PICK k \in 1 .. n : ps[k] = p
      BY <2>1, <1>5
    <2>3. r[k] \in Range(r)
      BY <1>7 DEF Range
    <2>. QED BY <2>2, <2>3, <1>8
  <1>. QED BY <1>1, <1>9, <1>10, <1>11, <1>12 DEF Rising

\* The pools of a node are pools
LEMMA PoolsNeeded ==
    ASSUME model \in Models, NEW n \in Nodes PROVE PoolsOf(n) \subseteq Pools
  <1>1. \A d \in DemandsOf(n) : d \subseteq Pools
    BY Needed
  <1>. QED BY <1>1 DEF PoolsOf

\* A new activity
IsNew(w, new) ==
    /\ IsAct(new, Len(cases)) /\ new.held = 0 /\ new.case = Due.case
    /\ new.entry # 0 => /\ new.entry \in DOMAIN w.entries
                        /\ w.entries[new.entry].node = new.node /\ w.entries[new.entry].case = new.case

\* An activity has come to w, and x is what it makes of it
Started(w, x) == Good(x, {}) /\ x.entries = w.entries /\ x.nextId = w.nextId

\* The pool and the entry of a new activity
LEMMA Added ==
    ASSUME Here, NEW w, Good(w, {}), NEW new, IsNew(w, new)
    PROVE  LET i == w.nextAct
               B == With(w.acts, i, new)
           IN /\ i \in Nat \ {0} /\ i \notin DOMAIN w.acts
              /\ DOMAIN B = DOMAIN w.acts \cup {i} /\ B[i] = new /\ \A j \in DOMAIN w.acts : B[j] = w.acts[j]
              /\ Acts(B, i + 1, Len(cases)) /\ Entered(B, w.entries, w.nextId, {})
              /\ Waiting(B) \ {i} = Waiting(w.acts)
              /\ \A p : InUse(B, p) = InUse(w.acts, p)
              /\ \A e \in Coming(w) : e.kind = "done" => e.act # i
              /\ Events(Coming(w), Due.t, i + 1, Len(cases))
  <1> DEFINE A == w.acts
             i == w.nextAct
             B == With(A, i, new)
  <1>1. Acts(A, i, Len(cases)) /\ Entered(A, w.entries, w.nextId, {}) /\ Events(Coming(w), Due.t, i, Len(cases))
    BY DEF Good
  <1> HIDE DEF A, i
  <1>2. i \in Nat \ {0} /\ i \notin DOMAIN A
    BY <1>1 DEF Acts
  <1>3. DOMAIN B = DOMAIN A \cup {i} /\ B[i] = new /\ \A j \in DOMAIN A : B[j] = A[j]
    BY <1>2 DEF With
  <1> HIDE DEF B
  <1>4. Acts(B, i + 1, Len(cases))
    BY <1>1, <1>2, <1>3 DEF Acts, IsNew
  <1>5. Entered(B, w.entries, w.nextId, {})
    BY <1>1, <1>3 DEF Entered, IsNew
  <1>6. Waiting(B) \ {i} = Waiting(A)
    BY <1>2, <1>3 DEF Waiting
  <1>7. ASSUME NEW p PROVE InUse(B, p) = InUse(A, p)
    <2>1. new.held = 0
      BY DEF IsNew
    <2>2. \A j : (j \in DOMAIN B /\ B[j].held # 0 /\ p \in Needs[B[j].node][B[j].held])
                 <=> (j \in DOMAIN A /\ A[j].held # 0 /\ p \in Needs[A[j].node][A[j].held])
      BY <1>2, <1>3, <2>1
    <2>. QED BY <2>2, SameUse
  <1>8. \A e \in Coming(w) : e.kind = "done" => e.act # i
    BY <1>1, <1>2 DEF Events, IsEvent
  <1>9. Events(Coming(w), Due.t, i + 1, Len(cases))
    BY <1>1, <1>2 DEF Events, IsEvent
  <1>. QED BY <1>2, <1>3, <1>4, <1>5, <1>6, <1>7, <1>8, <1>9 DEF A, B, i

\* An activity that needs no units starts at once
LEMMA StartsAtOnce ==
    ASSUME Here, NEW w, Good(w, {}), NEW new, IsNew(w, new), Needs[new.node] = <<>>, NEW x,
           x = [w EXCEPT !.acts = With(@, w.nextAct, new), !.nextAct = @ + 1,
                         !.events = Append(@, Event(Due.t + new.lasts, "done", Due.case, new.node, w.nextAct))]
    PROVE  Started(w, x)
  <1> DEFINE A == w.acts
             i == w.nextAct
             B == With(A, i, new)
             E == Coming(w)
             end == Event(Due.t + new.lasts, "done", Due.case, new.node, i)
  <1>1. /\ x.acts = B /\ x.nextAct = i + 1 /\ x.events = Append(w.events, end) /\ DOMAIN x = WorkFields
        /\ x.k = w.k /\ x.entries = w.entries /\ x.nextId = w.nextId /\ x.pending = w.pending
    BY DEF Good, WorkFields
  <1>2. /\ i \in Nat \ {0} /\ i \notin DOMAIN A
        /\ DOMAIN B = DOMAIN A \cup {i} /\ B[i] = new /\ \A j \in DOMAIN A : B[j] = A[j]
        /\ Acts(B, i + 1, Len(cases)) /\ Entered(B, w.entries, w.nextId, {})
        /\ Waiting(B) \ {i} = Waiting(A)
        /\ \A p : InUse(B, p) = InUse(A, p)
        /\ \A e \in E : e.kind = "done" => e.act # i
        /\ Events(E, Due.t, i + 1, Len(cases))
    BY Added
  <1>3. /\ Sequence(w.events) /\ Once(Tail(heap) \o w.events)
        /\ OneEnd(A, E, {}) /\ Woken(A, E, w.pending, Due.t) /\ LookedAt(A, E, Due.t)
        /\ "instant" \in DOMAIN w.k /\ w.k.instant = Due.t
    BY DEF Good
  <1>4. end.kind = "done" /\ end.t = Due.t + new.lasts /\ end.case = Due.case /\ end.node = new.node /\ end.act = i
    BY DEF Event
  <1>5. new.lasts \in Nat /\ new.node \in Nodes /\ new.case = Due.case /\ new.held = 0 /\ Due.t \in Nat
        /\ Due.case \in 1 .. Len(cases)
    BY DEF IsNew, IsAct, Here
  <1> HIDE DEF A, B, E, i, end
  <1>6. Waiting(B) = Waiting(A)
    <2>1. i \notin Waiting(B) /\ i \notin Waiting(A)
      BY <1>2 DEF Waiting
    <2>. QED BY <2>1, <1>2
  <1>7. /\ Sequence(x.events) /\ Range(x.events) = Range(w.events) \cup {end}
        /\ Once(Tail(heap) \o x.events)
    <2>1. Append(w.events, end) = w.events \o <<end>>
      BY <1>3, Appended
    <2>2. Sequence(<<end>>) /\ Range(<<end>>) = {end} /\ Once(<<end>>)
      BY Single, OnceSingle
    <2>3. \A e \in Range(Tail(heap)) \cup Range(w.events) : Differ(e, end)
      BY <1>2, <1>4 DEF Differ, E, Coming
    <2>4. \A e \in Range(Tail(heap)) \cup Range(w.events), f \in Range(<<end>>) : Differ(e, f)
      BY <2>2, <2>3
    <2>5. /\ Sequence(w.events \o <<end>>) /\ Range(w.events \o <<end>>) = Range(w.events) \cup Range(<<end>>)
          /\ Once(Tail(heap) \o (w.events \o <<end>>))
      BY <1>3, <2>2, <2>4, Longer
    <2>. QED BY <1>1, <2>1, <2>2, <2>5
  <1>8. Coming(x) = E \cup {end}
    BY <1>7 DEF Coming, E
  <1>9. Events(E \cup {end}, Due.t, i + 1, Len(cases))
    BY <1>2, <1>4, <1>5 DEF Events, IsEvent
  <1>10. OneEnd(B, E \cup {end}, {})
    <2>1. ASSUME NEW j \in DOMAIN B
          PROVE  j \notin Waiting(B) <=> \E e \in E \cup {end} : e.kind = "done" /\ e.act = j
      <3>1. CASE j = i
        <4>1. i \notin Waiting(B)
          BY <1>2 DEF Waiting
        <4>. QED BY <3>1, <4>1, <1>4
      <3>2. CASE j # i
        BY <3>2, <1>2, <1>3, <1>4, <1>6 DEF OneEnd
      <3>. QED BY <3>1, <3>2
    <2>2. ASSUME NEW e \in E \cup {end}, e.kind = "done", e.act \in DOMAIN B PROVE e.case = B[e.act].case
      BY <2>2, <1>2, <1>3, <1>4, <1>5 DEF OneEnd
    <2>. QED BY <2>1, <2>2 DEF OneEnd
  <1>11. \A j \in Waiting(B) : j \in Waiting(A) /\ B[j] = A[j]
    BY <1>2, <1>6 DEF Waiting
  <1>12. Woken(B, E \cup {end}, w.pending, Due.t)
    BY <1>3, <1>4, <1>11 DEF Woken
  <1>13. LookedAt(B, E \cup {end}, Due.t)
    <2>1. \A q : Fits(B, q, Due.t) => Fits(A, q, Due.t)
      BY <1>2 DEF Fits
    <2>. QED BY <2>1, <1>3, <1>11 DEF LookedAt
  <1>14. Good(x, {})
    BY <1>1, <1>2, <1>3, <1>7, <1>8, <1>9, <1>10, <1>12, <1>13 DEF Good
  <1>. QED BY <1>1, <1>14 DEF Started

\* It has come into the queues, from which the drain loop d takes what it grants, and r are the
\* rises that are arranged for it
Queued(w, new, d, r, x) ==
    /\ Needs[new.node] # <<>>
    /\ d \in Drained(With(w.acts, w.nextAct, new), DemandsOf(new.node))
    /\ r = IF w.nextAct \in Waiting(d.acts) THEN RiseEvents(PoolsOf(new.node), w.pending) ELSE <<>>
    /\ x = [w EXCEPT !.acts = d.acts, !.nextAct = @ + 1, !.events = (@ \o d.events) \o r,
                     !.pending = @ \cup {r[j].node : j \in DOMAIN r}]

\* Another one waits, is granted units in the drain loop, or has its pools arranged to rise
LEMMA Queues ==
    ASSUME Here
    PROVE  \A w, new, d, r, x : Good(w, {}) /\ IsNew(w, new) /\ Queued(w, new, d, r, x) => Started(w, x)
  <1> SUFFICES ASSUME NEW w, NEW new, NEW d, NEW r, NEW x, Good(w, {}), IsNew(w, new), Queued(w, new, d, r, x)
               PROVE  Started(w, x)
    OBVIOUS
  <1> DEFINE A == w.acts
             i == w.nextAct
             n == new.node
             A1 == With(A, i, new)
             E == Coming(w)
             B == d.acts
             D == Range(d.events)
             R == Range(r)
             P == w.pending \cup {e.node : e \in R}
  <1>1. /\ x.acts = B /\ x.nextAct = i + 1 /\ x.events = (w.events \o d.events) \o r /\ DOMAIN x = WorkFields
        /\ x.k = w.k /\ x.entries = w.entries /\ x.nextId = w.nextId
        /\ x.pending = w.pending \cup {r[j].node : j \in DOMAIN r}
    BY DEF Good, WorkFields, Queued
  <1>2. {r[j].node : j \in DOMAIN r} = {e.node : e \in R}
    BY DEF Range
  <1>3. x.pending = P
    BY <1>1, <1>2
  <1>4. /\ i \in Nat \ {0} /\ i \notin DOMAIN A
        /\ DOMAIN A1 = DOMAIN A \cup {i} /\ A1[i] = new /\ \A j \in DOMAIN A : A1[j] = A[j]
        /\ Acts(A1, i + 1, Len(cases)) /\ Entered(A1, w.entries, w.nextId, {})
        /\ Waiting(A1) \ {i} = Waiting(A)
        /\ \A p : InUse(A1, p) = InUse(A, p)
        /\ \A e \in E : e.kind = "done" => e.act # i
        /\ Events(E, Due.t, i + 1, Len(cases))
    BY Added
  <1>5. /\ Sequence(w.events) /\ Once(Tail(heap) \o w.events)
        /\ OneEnd(A, E, {}) /\ Woken(A, E, w.pending, Due.t) /\ LookedAt(A, E, Due.t)
        /\ "instant" \in DOMAIN w.k /\ w.k.instant = Due.t
    BY DEF Good
  <1>6. n \in Nodes /\ new.case = Due.case /\ new.held = 0 /\ model \in Models /\ Due.t \in Nat
    BY DEF IsNew, IsAct, Here
  <1>7. Needs[n] # <<>> /\ d \in Drained(A1, DemandsOf(n))
    BY DEF Queued
  <1>8. r = IF i \in Waiting(B) THEN RiseEvents(PoolsOf(n), w.pending) ELSE <<>>
    BY DEF Queued
  <1> HIDE DEF A, A1, E, i, n
  <1>9. i \in Waiting(A1)
    BY <1>4, <1>6, <1>7 DEF Waiting, n
  <1>10. OneEnd(A1, E, {})
    <2>1. ASSUME NEW j \in DOMAIN A1
          PROVE  j \notin Waiting(A1) <=> \E e \in E : e.kind = "done" /\ e.act = j
      <3>1. CASE j = i
        BY <3>1, <1>4, <1>9
      <3>2. CASE j # i
        BY <3>2, <1>4, <1>5 DEF OneEnd
      <3>. QED BY <3>1, <3>2
    <2>2. ASSUME NEW e \in E, e.kind = "done", e.act \in DOMAIN A1 PROVE e.case = A1[e.act].case
      BY <2>2, <1>4, <1>5 DEF OneEnd
    <2>. QED BY <2>1, <2>2 DEF OneEnd
  <1>11. Settled(A1, DemandsOf(n), i + 1, d)
    BY ONLY <1>4, <1>6, <1>7, Drains
  <1>12. Comes(A1, DemandsOf(n), i + 1, d, E)
    BY <1>4, <1>10, <1>11, Settling
  <1>13. /\ Acts(B, i + 1, Len(cases)) /\ DOMAIN B = DOMAIN A1 /\ Waiting(B) \subseteq Waiting(A1)
         /\ \A j \in DOMAIN A1 : B[j].node = A1[j].node /\ B[j].case = A1[j].case /\ B[j].entry = A1[j].entry
         /\ Sequence(d.events) /\ Once(d.events)
         /\ \A f \in D : f.kind = "done"
    BY <1>11 DEF Settled
  <1>14. /\ OneEnd(B, E \cup D, {}) /\ Events(D, Due.t, i + 1, Len(cases))
         /\ \A e \in E, f \in D : Differ(e, f)
         /\ (\A j \in Waiting(A1) : \A q \in DemandsOf(A1[j].node) :
                q \notin DemandsOf(n) /\ Fits(A1, q, Due.t)
                => \E e \in E : e.kind = "capacity" /\ e.t = Due.t /\ e.node \in q)
            => LookedAt(B, E \cup D, Due.t)
    BY <1>12 DEF Comes
  <1>15. /\ Sequence(r) /\ Once(r)
         /\ \A e \in R : /\ e.kind = "capacity" /\ e.t \in Nat /\ Due.t <= e.t
                         /\ e.node \in Pools /\ e.node \notin w.pending
                         /\ \A u \in Rises(e.node, Due.t) : e.t <= u
         /\ i \in Waiting(B) =>
               \A p \in PoolsOf(n) \ w.pending : Rises(p, Due.t) # {} => \E e \in R : e.node = p
    <2>1. PoolsOf(n) \subseteq Pools
      BY <1>6, PoolsNeeded
    <2>2. CASE i \in Waiting(B)
      <3>1. Rising(PoolsOf(n), w.pending, r)
        BY <2>1, <2>2, <1>6, <1>8, RisesAhead
      <3>. QED BY <2>1, <3>1 DEF Rising
    <2>3. CASE i \notin Waiting(B)
      BY <2>3, <1>8, Empty, OnceEmpty
    <2>. QED BY <2>2, <2>3
  <1> HIDE DEF B, D, R, P
  <1>16. Entered(B, w.entries, w.nextId, {})
    BY <1>4, <1>13 DEF Entered
  <1>17. \A e \in E : e.kind = "capacity" /\ e.node \in Pools => e.node \in w.pending
    BY <1>5 DEF Woken
  <1>18. \A e \in E \cup D, f \in R : Differ(e, f)
    BY <1>13, <1>15, <1>17 DEF Differ
  <1>19. /\ Sequence(x.events) /\ Range(x.events) = Range(w.events) \cup D \cup R
         /\ Once(Tail(heap) \o x.events)
    <2>1. \A e \in Range(Tail(heap)) \cup Range(w.events), f \in Range(d.events) : Differ(e, f)
      BY <1>14 DEF E, Coming, D
    <2> DEFINE s == w.events \o d.events
    <2>2. /\ Sequence(s) /\ Range(s) = Range(w.events) \cup D /\ Once(Tail(heap) \o s)
      BY <1>5, <1>13, <2>1, Longer DEF D
    <2> HIDE DEF s
    <2>3. \A e \in Range(Tail(heap)) \cup Range(s), f \in Range(r) : Differ(e, f)
      BY <2>2, <1>18 DEF E, Coming, R
    <2>4. /\ Sequence(s \o r) /\ Range(s \o r) = Range(s) \cup Range(r) /\ Once(Tail(heap) \o (s \o r))
      BY <2>2, <2>3, <1>15, Longer
    <2>. QED BY <1>1, <2>2, <2>4 DEF s, R
  <1>20. Coming(x) = (E \cup D) \cup R
    BY <1>19 DEF Coming, E
  <1>21. Events((E \cup D) \cup R, Due.t, i + 1, Len(cases))
    <2>1. Events(R, Due.t, i + 1, Len(cases))
      BY <1>15 DEF Events, IsEvent
    <2>. QED BY <2>1, <1>4, <1>14 DEF Events
  <1>22. OneEnd(B, (E \cup D) \cup R, {})
    BY <1>14, <1>15 DEF OneEnd
  <1>23. \A j \in Waiting(B) : j # i => j \in Waiting(A) /\ B[j].node = A[j].node
    BY <1>4, <1>13 DEF Waiting
  <1>24. Woken(B, (E \cup D) \cup R, P, Due.t)
    <2>1. ASSUME NEW p \in Pools PROVE p \in P <=> \E e \in (E \cup D) \cup R : e.kind = "capacity" /\ e.node = p
      BY <1>5, <1>13, <1>15 DEF Woken, P
    <2>2. \A e \in (E \cup D) \cup R : e.kind = "capacity" => \A u \in Rises(e.node, Due.t) : e.t <= u
      BY <1>5, <1>13, <1>15 DEF Woken
    <2>3. ASSUME NEW j \in Waiting(B), NEW p \in PoolsOf(B[j].node), Rises(p, Due.t) # {} PROVE p \in P
      <3>1. CASE j = i
        <4>1. B[j].node = n
          BY <3>1, <1>4, <1>13 DEF n
        <4>. QED BY <3>1, <4>1, <2>3, <1>15 DEF P
      <3>2. CASE j # i
        BY <3>2, <2>3, <1>5, <1>23 DEF Woken, P
      <3>. QED BY <3>1, <3>2
    <2>. QED BY <2>1, <2>2, <2>3 DEF Woken
  <1>25. ASSUME NEW j \in Waiting(A1), NEW q \in DemandsOf(A1[j].node), q \notin DemandsOf(n), Fits(A1, q, Due.t)
         PROVE  \E e \in E : e.kind = "capacity" /\ e.t = Due.t /\ e.node \in q
    <2>1. j # i
      BY <1>4, <1>25 DEF n
    <2>2. j \in Waiting(A) /\ A1[j] = A[j]
      BY <2>1, <1>4 DEF Waiting
    <2>3. Fits(A, q, Due.t)
      BY <1>4, <1>25 DEF Fits
    <2>. QED BY <2>2, <2>3, <1>5 DEF LookedAt
  <1>26. LookedAt(B, (E \cup D) \cup R, Due.t)
    <2>1. LookedAt(B, E \cup D, Due.t)
      BY <1>14, <1>25
    <2>. QED BY <2>1 DEF LookedAt
  <1>27. Good(x, {})
    BY <1>1, <1>3, <1>5, <1>13, <1>16, <1>19, <1>20, <1>21, <1>22, <1>24, <1>26 DEF Good
  <1>. QED BY <1>1, <1>27 DEF Started

\* Both of them: scheduleActivity
LEMMA Scheduling ==
    ASSUME Here
    PROVE  \A w, new : Good(w, {}) /\ IsNew(w, new) => \A x \in Scheduled(w, new) : Started(w, x)
  <1> SUFFICES ASSUME NEW w, NEW new, Good(w, {}), IsNew(w, new), NEW x \in Scheduled(w, new)
               PROVE  Started(w, x)
    OBVIOUS
  <1> DEFINE y == [w EXCEPT !.acts = With(@, w.nextAct, new), !.nextAct = @ + 1]
             n == new.node
  <1>1. y.acts = With(w.acts, w.nextAct, new) /\ DOMAIN w = WorkFields
    BY DEF Good, WorkFields
  <1>2. CASE Needs[n] = <<>>
    <2>1. x = [y EXCEPT !.events = Append(@, Event(Due.t + new.lasts, "done", Due.case, n, w.nextAct))]
      BY <1>2 DEF Scheduled
    <2>2. x = [w EXCEPT !.acts = With(@, w.nextAct, new), !.nextAct = @ + 1,
                        !.events = Append(@, Event(Due.t + new.lasts, "done", Due.case, n, w.nextAct))]
      BY <2>1, <1>1 DEF WorkFields
    <2>. QED BY <2>2, <1>2, StartsAtOnce
  <1>3. CASE Needs[n] # <<>>
    <2>1. PICK d \in Drained(y.acts, DemandsOf(n)) :
             LET r == IF w.nextAct \in Waiting(d.acts) THEN RiseEvents(PoolsOf(n), w.pending) ELSE <<>>
             IN x = [y EXCEPT !.acts = d.acts, !.events = @ \o d.events \o r,
                              !.pending = @ \cup {r[j].node : j \in DOMAIN r}]
      BY <1>3 DEF Scheduled
    <2> DEFINE r == IF w.nextAct \in Waiting(d.acts) THEN RiseEvents(PoolsOf(n), w.pending) ELSE <<>>
    <2>2. x = [w EXCEPT !.acts = d.acts, !.nextAct = @ + 1, !.events = (@ \o d.events) \o r,
                        !.pending = @ \cup {r[j].node : j \in DOMAIN r}]
      BY <2>1, <1>1 DEF WorkFields
    <2>3. Queued(w, new, d, r, x)
      BY <2>1, <2>2, <1>1, <1>3 DEF Queued
    <2> HIDE DEF r
    <2>. QED BY <2>3, Queues
  <1>. QED BY <1>2, <1>3

-----------------------------------------------------------------------------
(* Tokens *)

\* Handlers count tokens and keep records without any effect on what is ahead
Retold(w, x) ==
    /\ DOMAIN x = WorkFields /\ "instant" \in DOMAIN x.k /\ x.k.instant = w.k.instant
    /\ x.acts = w.acts /\ x.nextAct = w.nextAct /\ x.events = w.events /\ x.pending = w.pending
    /\ x.entries = w.entries /\ x.nextId = w.nextId

\* To keep records disturbs nothing ahead
LEMMA Retelling == \A w, x, X : Good(w, X) /\ Retold(w, x) => Good(x, X)
  <1> SUFFICES ASSUME NEW w, NEW x, NEW X, Good(w, X), Retold(w, x) PROVE Good(x, X)
    OBVIOUS
  <1>1. Entered(x.acts, x.entries, x.nextId, X)
    BY DEF Good, Retold
  <1>. QED BY <1>1, Likewise DEF Retold

\* To count tokens disturbs nothing ahead
LEMMA Gaining == \A w, X, n, delta : Good(w, X) => Good(Gain(w, n, delta), X)
  <1> SUFFICES ASSUME NEW w, NEW X, NEW n, NEW delta, Good(w, X) PROVE Good(Gain(w, n, delta), X)
    OBVIOUS
  <1> DEFINE x == Gain(w, n, delta)
             k == [[w.k EXCEPT !.tokens = @ + delta] EXCEPT
                     !.subs = [u \in Subs |-> IF u \in Range(Inside[n]) THEN Moved(@[u], delta) ELSE @[u]]]
  <1>1. DOMAIN w = WorkFields /\ "instant" \in DOMAIN w.k
    BY DEF Good
  <1>2. x = [w EXCEPT !.k = k]
    BY <1>1 DEF Gain, WorkFields
  <1>3. "instant" \in DOMAIN k /\ k.instant = w.k.instant
    BY <1>1
  <1> HIDE DEF k, x
  <1>4. Retold(w, x)
    BY <1>1, <1>2, <1>3 DEF Retold, WorkFields
  <1>. QED BY <1>4, Retelling DEF x

\* A number more is given out
LEMMA NextEntry ==
    \A A, N, ni, X : Entered(A, N, ni, X) => Entered(A, N, ni + 1, X)
  BY DEF Entered

\* The boundaries of a host
LEMMA Arming ==
    ASSUME Here
    PROVE  \A kind, host, i, delay, na :
              /\ kind \in {"boundary", "multiBoundary", "deadline"}
              /\ host \in Nodes \cup Subs /\ delay \in Delays(host)
              => IsMore(Armed(kind, host, i, delay), na)
  <1> SUFFICES ASSUME NEW kind, NEW host, NEW i, NEW delay, NEW na,
                      kind \in {"boundary", "multiBoundary", "deadline"},
                      host \in Nodes \cup Subs, delay \in Delays(host)
               PROVE  IsMore(Armed(kind, host, i, delay), na)
    OBVIOUS
  <1> DEFINE s == Borders[host]
             r == Armed(kind, host, i, delay)
  <1>0. model \in Models
    BY DEF Here
  <1>1. s \in Seq(Nodes) /\ Times \in [Nodes -> SUBSET Nat]
    BY <1>0, Statics
  <1>2. \A b \in Range(s) : delay[b] \in Times[b]
    BY DEF Delays
  <1>3. r = [j \in DOMAIN s |-> Event(Due.t + delay[s[j]], kind, Due.case, s[j], i)]
    BY DEF Armed
  <1> HIDE DEF s, r
  <1>4. Len(s) \in Nat /\ DOMAIN s = 1 .. Len(s) /\ \A j \in 1 .. Len(s) : s[j] \in Nodes /\ s[j] \in Range(s)
    BY <1>1, LenProperties, ElementOfSeq DEF Range
  <1>5. ASSUME NEW j \in 1 .. Len(s)
        PROVE  /\ IsEvent(r[j], Due.t, na, Len(cases))
               /\ r[j].kind \notin {"done", "capacity"}
    <2>1. delay[s[j]] \in Nat
      BY <1>1, <1>2, <1>4
    <2>2. r[j].t = Due.t + delay[s[j]] /\ r[j].kind = kind /\ r[j].case = Due.case /\ r[j].node = s[j]
      BY <1>3, <1>4 DEF Event
    <2>3. Due.t \in Nat /\ Due.case \in 1 .. Len(cases)
      BY DEF Here
    <2>. QED BY <2>1, <2>2, <2>3, <1>4 DEF IsEvent
  <1>6. DOMAIN r = 1 .. Len(s)
    BY <1>3, <1>4
  <1>7. Sequence(r)
    <2>1. r = [j \in 1 .. Len(s) |-> r[j]] /\ \A j \in 1 .. Len(s) : r[j] \in Range(r)
      BY <1>3, <1>6 DEF Range
    <2>2. r \in [1 .. Len(s) -> Range(r)]
      BY <2>1
    <2>. QED BY <2>2, <1>4, SeqDef DEF Sequence
  <1>. QED BY <1>5, <1>6, <1>7 DEF IsMore, Range, r

\* A token enters a sub-process, the deadlines of which are armed (enterSubprocess)
LEMMA Entering ==
    ASSUME Here
    PROVE  \A w, u, marks : Good(w, {}) /\ u \in Subs => \A x \in EnterSubprocess(w, u, marks) : Good(x, {})
  <1> SUFFICES ASSUME NEW w, NEW u, NEW marks, Good(w, {}), u \in Subs, NEW x \in EnterSubprocess(w, u, marks)
               PROVE  Good(x, {})
    OBVIOUS
  <1>1. /\ DOMAIN w = WorkFields /\ "instant" \in DOMAIN w.k /\ Entered(w.acts, w.entries, w.nextId, {})
    BY DEF Good
  <1>2. CASE w.k.subs[u].instance # 0
    <2> DEFINE sub == w.k.subs[u]
               inside == [sub EXCEPT !.tokens = sub.tokens + 1]
               subs == [w.k.subs EXCEPT ![u] = inside]
               k == [w.k EXCEPT !.subs = subs]
    <2>1. x = [w EXCEPT !.k = k]
      BY <1>1, <1>2 DEF EnterSubprocess, WorkFields
    <2>2. "instant" \in DOMAIN k /\ k.instant = w.k.instant
      BY <1>1
    <2> HIDE DEF k
    <2>3. Retold(w, x)
      BY <2>1, <2>2, <1>1 DEF Retold, WorkFields
    <2>. QED BY <2>3, Retelling
  <1>3. CASE w.k.subs[u].instance = 0
    <2>1. PICK delay \in Delays(u) :
            x = [w EXCEPT !.k.subs[u] = [w.k.subs[u] EXCEPT !.tokens = w.k.subs[u].tokens + 1,
                                                            !.instance = w.nextId, !.marks = marks],
                          !.nextId = @ + 1,
                          !.events = @ \o Armed("deadline", u, w.nextId, delay)]
      BY <1>3 DEF EnterSubprocess
    <2> DEFINE sub == w.k.subs[u]
               inside == [sub EXCEPT !.tokens = sub.tokens + 1, !.instance = w.nextId, !.marks = marks]
               subs == [w.k.subs EXCEPT ![u] = inside]
               k == [w.k EXCEPT !.subs = subs]
               y == [w EXCEPT !.k = k, !.nextId = @ + 1]
               ev == Armed("deadline", u, w.nextId, delay)
    <2>2. "instant" \in DOMAIN k /\ k.instant = w.k.instant
      BY <1>1
    <2>3. x = [y EXCEPT !.events = @ \o ev]
      BY <2>1, <1>1 DEF WorkFields
    <2> HIDE DEF k
    <2>4. /\ DOMAIN y = WorkFields /\ y.k = k /\ y.acts = w.acts /\ y.nextAct = w.nextAct
          /\ y.events = w.events /\ y.pending = w.pending /\ y.entries = w.entries /\ y.nextId = w.nextId + 1
      BY <1>1 DEF WorkFields
    <2> HIDE DEF y, ev
    <2>5. Entered(y.acts, y.entries, y.nextId, {})
      BY <2>4, <1>1, NextEntry
    <2>6. Good(y, {})
      BY <2>2, <2>4, <2>5, Likewise
    <2>7. IsMore(ev, y.nextAct)
      BY <2>1, Arming DEF ev
    <2>. QED BY <2>3, <2>6, <2>7, Adding
  <1>. QED BY <1>2, <1>3

\* What is inside goes, with the entries all the activities of which are inside
LEMMA Interrupting ==
    ASSUME Here
    PROVE  \A w, u, b : Good(w, {}) => \A x \in InterruptSubprocess(w, u, b) : Good(x, {})
  <1> SUFFICES ASSUME NEW w, NEW u, NEW b, Good(w, {}), NEW x \in InterruptSubprocess(w, u, b)
               PROVE  Good(x, {})
    OBVIOUS
  <1> DEFINE mine == {i \in DOMAIN w.acts : w.acts[i].case = Due.case /\ u \in Range(Inside[w.acts[i].node])}
             gone == {w.acts[i].entry : i \in mine}
             y == [w EXCEPT
                    !.rows = Logged(@, mine, "interrupted"),
                    !.entries = Without(@, {w.acts[i].entry : i \in mine}),
                    !.blocked = {g \in @ : g[2] # Due.case \/ u \notin Range(Inside[g[1]])},
                    !.k = CancelledTokens(@, u, b)]
  <1>1. x \in Released(y, mine)
    BY DEF InterruptSubprocess
  <1>2. /\ DOMAIN w = WorkFields /\ "instant" \in DOMAIN w.k /\ Entered(w.acts, w.entries, w.nextId, {})
    BY DEF Good
  <1>3. "instant" \in DOMAIN CancelledTokens(w.k, u, b) /\ CancelledTokens(w.k, u, b).instant = w.k.instant
    BY <1>2 DEF CancelledTokens
  <1> HIDE DEF gone, mine
  <1>4. /\ DOMAIN y = WorkFields /\ y.k = CancelledTokens(w.k, u, b) /\ y.acts = w.acts /\ y.nextAct = w.nextAct
        /\ y.events = w.events /\ y.pending = w.pending /\ y.entries = Without(w.entries, gone)
        /\ y.nextId = w.nextId
    BY <1>2 DEF WorkFields, gone
  <1> HIDE DEF y
  <1>5. Entered(y.acts, y.entries, y.nextId, mine)
    <2> DEFINE A == w.acts
               N == w.entries
    <2>1. /\ DOMAIN y.entries = DOMAIN N \ gone /\ \A e \in DOMAIN y.entries : y.entries[e] = N[e]
      BY <1>4 DEF Without
    <2>2. ASSUME NEW i \in DOMAIN A, i \notin mine, A[i].entry # 0 PROVE A[i].entry \notin gone
      <3>1. ASSUME NEW j \in mine, A[i].entry = A[j].entry PROVE FALSE
        <4>1. j \in DOMAIN A /\ A[j].case = Due.case /\ u \in Range(Inside[A[j].node])
          BY DEF mine
        <4>2. A[i].node = A[j].node /\ A[i].case = A[j].case
          BY <4>1, <3>1, <2>2, <1>2 DEF Entered
        <4>. QED BY <4>1, <4>2, <2>2 DEF mine
      <3>. QED BY <3>1 DEF gone
    <2>3. \A i \in DOMAIN A \ mine : A[i].entry # 0 =>
             /\ A[i].entry \in DOMAIN y.entries
             /\ y.entries[A[i].entry].node = A[i].node /\ y.entries[A[i].entry].case = A[i].case
      BY <2>1, <2>2, <1>2 DEF Entered
    <2>. QED BY <2>1, <2>3, <1>2, <1>4 DEF Entered
  <1>6. Good(y, mine)
    BY <1>3, <1>4, <1>5, Likewise
  <1>7. GivenBack(y, mine, x)
    BY <1>1, <1>6, Releasing
  <1>. QED BY <1>7 DEF GivenBack

\* The sub-processes a token crosses
LEMMA PathOf ==
    ASSUME model \in Models PROVE \A n, m \in Nodes : Path(n, m) \in Seq(Subs)
  <1> SUFFICES ASSUME NEW n \in Nodes, NEW m \in Nodes PROVE Path(n, m) \in Seq(Subs)
    OBVIOUS
  <1> DEFINE a == Inside[n]
             b == Inside[m]
             shared == Cardinality(Range(a) \cap Range(b))
             out == SubSeq(a, 1, Len(a) - shared)
             depth == Len(b) - shared
             in == [j \in 1 .. depth |-> b[depth + 1 - j]]
  <1>1. a \in Seq(Subs) /\ b \in Seq(Subs) /\ IsFiniteSet(Subs)
    BY Statics
  <1>2. Path(n, m) = out \o in
    BY DEF Path
  <1> HIDE DEF a, b
  <1>3. Len(a) \in Nat /\ Len(b) \in Nat /\ \A j \in 1 .. Len(a) : a[j] \in Subs
    BY <1>1, LenProperties, ElementOfSeq
  <1>4. \A j \in 1 .. Len(b) : b[j] \in Subs
    BY <1>1, ElementOfSeq
  <1>5. shared \in Nat
    <2>1. Range(a) \subseteq Subs
      BY <1>1, SequenceOf
    <2>. QED BY <2>1, <1>1, FS_Subset, FS_CardinalityType
  <1> HIDE DEF shared
  <1>6. out \in Seq(Subs)
    <2>1. 1 \in Int /\ Len(a) - shared \in Int /\ \A j \in 1 .. Len(a) - shared : a[j] \in Subs
      BY <1>3, <1>5
    <2>. QED BY <1>1, <2>1, SubSeqProperties
  <1>7. in \in Seq(Subs)
    <2>1. depth \in Int
      BY <1>3, <1>5
    <2>2. \A j \in 1 .. depth : depth + 1 - j \in 1 .. Len(b)
      BY <1>3, <1>5
    <2>3. \A j \in 1 .. depth : b[depth + 1 - j] \in Subs
      BY <2>2, <1>4
    <2> HIDE DEF depth
    <2>4. CASE depth >= 0
      <3>1. depth \in Nat /\ in \in [1 .. depth -> Subs]
        BY <2>1, <2>3, <2>4
      <3>. QED BY <3>1, SeqDef
    <2>5. CASE ~(depth >= 0)
      <3>1. 1 .. depth = {} /\ 1 .. 0 = {}
        BY <2>1, <2>5
      <3>2. in = [j \in {} |-> b[depth + 1 - j]]
        BY <3>1
      <3>3. in = <<>>
        BY <3>2
      <3> HIDE DEF in
      <3>. QED BY <3>3, EmptySeq
    <2>. QED BY <2>4, <2>5
  <1> HIDE DEF out, in
  <1>. QED BY <1>2, <1>6, <1>7, ConcatProperties

\* A token on its way
TokenFields == {"w", "from", "to", "path", "marks", "times"}
Token(s) ==
    /\ DOMAIN s = TokenFields /\ Good(s.w, {})
    /\ s.from \in Nodes /\ s.to \in Nodes \cup {NoNode} /\ s.path \in Seq(Subs) /\ s.times \subseteq Nat

\* It is one after any number of crossings
StillToken(s0, s, k) == Token(s)

\* So it is after all crossings: by induction over the path
LEMMA StillTokenGoesOn ==
    \A s : \A n \in Nat :
       /\ StillToken(s, s, 0)
       /\ \A k \in Nat : \A x : StillToken(s, x, k) => \A y \in Crossing(x) : StillToken(s, y, k + 1)
       => \A y \in Rounds(s, n, Crossing) : StillToken(s, y, n)
  <1> SUFFICES ASSUME NEW s, NEW n \in Nat, StillToken(s, s, 0),
                      \A k \in Nat : \A x : StillToken(s, x, k) => \A y \in Crossing(x) : StillToken(s, y, k + 1)
               PROVE  \A y \in Rounds(s, n, Crossing) : StillToken(s, y, n)
    OBVIOUS
  <1>1. PICK f : Chain(f, s, n, "cross") /\ Rounds(s, n, Crossing) = f[n]
    BY CrossRounds
  <1>2. f[0] = {s} /\ \A k \in 0 .. n - 1 : f[k + 1] = UNION {Crossing(x) : x \in f[k]}
    BY <1>1 DEF Chain, StepOf
  <1> DEFINE T == {k \in 0 .. n : \A y \in f[k] : StillToken(s, y, k)}
  <1>3. 0 \in T
    BY <1>2
  <1>4. \A k \in 0 .. n - 1 : k \in T => k + 1 \in T
    BY <1>2
  <1>5. n \in T
    <2>. HIDE DEF T
    <2>. QED BY <1>3, <1>4, Upwards
  <1>. QED BY <1>1, <1>5

\* A token that leaves a node is one on its way
LEMMA LeavingToken ==
    ASSUME Here
    PROVE  \A w, n, m, marks, times :
              Good(w, {}) /\ n \in Nodes /\ m \in Nodes /\ times \subseteq Nat
              => Token(Leaving(w, n, m, marks, times))
  <1> SUFFICES ASSUME NEW w, NEW n, NEW m, NEW marks, NEW times,
                      Good(w, {}), n \in Nodes, m \in Nodes, times \subseteq Nat
               PROVE  Token(Leaving(w, n, m, marks, times))
    OBVIOUS
  <1>1. model \in Models
    BY DEF Here
  <1>2. Path(n, m) \in Seq(Subs)
    BY <1>1, PathOf
  <1>. QED BY <1>2 DEF Token, TokenFields, Leaving

\* The first flow out of a node leads to a node
LEMMA HeadOfOut ==
    ASSUME model \in Models, NEW b \in Nodes, Out[b] # <<>>
    PROVE  Head(Out[b]) \in Nodes /\ Times[Head(Out[b])] \subseteq Nat
  <1> DEFINE s == Out[b]
  <1>1. s \in Seq(Nodes) /\ s # <<>>
    BY Statics
  <1> HIDE DEF s
  <1>2. Head(s) \in Nodes
    BY <1>1, HeadTailProperties
  <1>. QED BY <1>2, Statics DEF s

\* It crosses one sub-process more, or is sent to an error boundary
LEMMA Crosses ==
    ASSUME Here
    PROVE  \A s : Token(s) => \A z \in Crossing(s) : Token(z)
  <1> SUFFICES ASSUME NEW s, Token(s), NEW z \in Crossing(s) PROVE Token(z)
    OBVIOUS
  <1> DEFINE u == Head(s.path)
  <1>0. model \in Models
    BY DEF Here
  <1>1. /\ DOMAIN s = TokenFields /\ Good(s.w, {}) /\ s.path \in Seq(Subs) /\ s.from \in Nodes
        /\ s.to \in Nodes \cup {NoNode} /\ s.times \subseteq Nat
    BY DEF Token
  <1>2. CASE s.path = <<>>
    BY <1>2 DEF Crossing
  <1>3. CASE s.path # <<>>
    <2>1. u \in Subs /\ Tail(s.path) \in Seq(Subs)
      BY <1>1, <1>3, HeadTailProperties
    <2>2. CASE u \in Range(Inside[s.from]) /\ z = [s EXCEPT !.w.k.subs[u] = Moved(@, -1), !.path = Tail(@)]
      <3> DEFINE w == s.w
                 subs == [w.k.subs EXCEPT ![u] = Moved(@, -1)]
                 k == [w.k EXCEPT !.subs = subs]
                 x == [w EXCEPT !.k = k]
      <3>0. DOMAIN w = WorkFields /\ "instant" \in DOMAIN w.k
        BY <1>1 DEF Good
      <3>1. z = [s EXCEPT !.w = x, !.path = Tail(@)]
        BY <2>2, <1>1, <3>0 DEF TokenFields, WorkFields
      <3>2. "instant" \in DOMAIN k /\ k.instant = w.k.instant
        BY <3>0
      <3> HIDE DEF k
      <3>3. Retold(w, x)
        BY <3>0, <3>2 DEF Retold, WorkFields
      <3> HIDE DEF x
      <3>4. Good(x, {})
        BY <1>1, <3>3, Retelling
      <3>. QED BY <3>1, <3>4, <1>1, <2>1 DEF Token, TokenFields
    <2>3. CASE /\ u \in Range(Inside[s.from])
               /\ \E b \in Errors(u) : \E x \in InterruptSubprocess(s.w, u, b) : z = Diverted(x, b, s.marks)
      <3>0. PICK b \in Errors(u) : \E x \in InterruptSubprocess(s.w, u, b) : z = Diverted(x, b, s.marks)
        BY <2>3
      <3>1. PICK x \in InterruptSubprocess(s.w, u, b) : z = Diverted(x, b, s.marks)
        BY <3>0
      <3>2. b \in Nodes
        <4> DEFINE e == model.errors[u]
        <4>1. e \in Seq(Nodes) /\ b \in Range(e)
          BY <1>0, <2>1, Statics DEF Errors
        <4> HIDE DEF e
        <4>. QED BY <4>1, SequenceOf
      <3>3. Good(x, {})
        BY <1>1, Interrupting
      <3>4. CASE Out[b] = <<>>
        <4>1. z = [w |-> x, from |-> b, to |-> NoNode, path |-> <<>>, marks |-> s.marks, times |-> {}]
          BY <3>1, <3>4 DEF Diverted
        <4>. QED BY <4>1, <3>2, <3>3, EmptySeq DEF Token, TokenFields
      <3>5. CASE Out[b] # <<>>
        <4>1. z = Leaving(x, b, Head(Out[b]), s.marks, Times[Head(Out[b])])
          BY <3>1, <3>5 DEF Diverted
        <4>2. Head(Out[b]) \in Nodes /\ Times[Head(Out[b])] \subseteq Nat
          BY <1>0, <3>2, <3>5, HeadOfOut
        <4>. QED BY <4>1, <4>2, <3>2, <3>3, LeavingToken
      <3>. QED BY <3>4, <3>5
    <2>4. CASE \E x \in EnterSubprocess(s.w, u, s.marks) : z = [s EXCEPT !.w = x, !.path = Tail(@)]
      <3>1. PICK x \in EnterSubprocess(s.w, u, s.marks) : z = [s EXCEPT !.w = x, !.path = Tail(@)]
        BY <2>4
      <3>2. Good(x, {})
        BY <1>1, <2>1, Entering
      <3>. QED BY <3>1, <3>2, <1>1, <2>1 DEF Token, TokenFields
    <2>. QED BY <1>3, <2>2, <2>3, <2>4 DEF Crossing
  <1>. QED BY <1>2, <1>3

\* A token that comes to m
LEMMA Arriving ==
    ASSUME Here
    PROVE  \A s : Token(s) => Good(Arrived(s), {})
  <1> SUFFICES ASSUME NEW s, Token(s) PROVE Good(Arrived(s), {})
    OBVIOUS
  <1> DEFINE w == s.w
             e == Enter(Due.t, Due.case, s.to, s.marks, s.times, EpochAt(w.k, s.to), 0)
             x == [w EXCEPT !.events = @ \o <<e>>]
  <1>1. Good(w, {}) /\ s.to \in Nodes \cup {NoNode} /\ s.times \subseteq Nat
    BY DEF Token
  <1>2. CASE s.to = NoNode
    BY <1>1, <1>2 DEF Arrived
  <1>3. CASE s.to # NoNode
    <2>1. Sequence(w.events)
      BY <1>1 DEF Good
    <2>2. e.t = Due.t /\ e.kind = "enter" /\ e.case = Due.case /\ e.node = s.to /\ e.times = s.times
      BY DEF Enter
    <2>3. Due.t \in Nat /\ Due.case \in 1 .. Len(cases)
      BY DEF Here
    <2> HIDE DEF e
    <2>4. IsEvent(e, Due.t, w.nextAct, Len(cases))
      BY <2>2, <2>3, <1>1, <1>3 DEF IsEvent
    <2>5. IsMore(<<e>>, w.nextAct)
      <3>1. Sequence(<<e>>) /\ Range(<<e>>) = {e}
        BY Single
      <3>. QED BY <3>1, <2>2, <2>4 DEF IsMore
    <2>6. Append(w.events, e) = w.events \o <<e>>
      BY <2>1, Appended
    <2>7. Arrived(s) = x
      BY <1>3, <2>6 DEF Arrived, e
    <2> HIDE DEF w
    <2>. QED BY <2>5, <2>7, <1>1, Adding
  <1>. QED BY <1>2, <1>3

\* It crosses them all, by induction over them (crossSubprocesses)
LEMMA Crossings ==
    ASSUME Here
    PROVE  \A w, n, m, marks, times :
              Good(w, {}) /\ n \in Nodes /\ m \in Nodes /\ times \subseteq Nat
              => \A x \in Crossed(w, n, m, marks, times) : Good(x, {})
  <1> SUFFICES ASSUME NEW w, NEW n, NEW m, NEW marks, NEW times,
                      Good(w, {}), n \in Nodes, m \in Nodes, times \subseteq Nat,
                      NEW x \in Crossed(w, n, m, marks, times)
               PROVE  Good(x, {})
    OBVIOUS
  <1> DEFINE s0 == Leaving(w, n, m, marks, times)
             c == 2 * Cardinality(Subs)
  <1>1. c \in Nat
    <2>1. IsFiniteSet(Subs)
      BY Statics DEF Here
    <2>. QED BY <2>1, FS_CardinalityType
  <1>2. Token(s0)
    BY LeavingToken
  <1>3. PICK s \in Rounds(s0, c, Crossing) : x = Arrived(s)
    BY DEF Crossed
  <1> HIDE DEF s0, c
  <1>4. Token(s)
    <2>1. \A k \in Nat : \A y : StillToken(s0, y, k) => \A z \in Crossing(y) : StillToken(s0, z, k + 1)
      BY Crosses DEF StillToken
    <2>2. StillToken(s0, s0, 0)
      BY <1>2 DEF StillToken
    <2>3. \A y \in Rounds(s0, c, Crossing) : StillToken(s0, y, c)
      BY <1>1, <2>1, <2>2, StillTokenGoesOn
    <2>. QED BY <2>3 DEF StillToken
  <1>. QED BY <1>3, <1>4, Arriving

\* Tokens that leave one after another
RowFields == {"w", "from", "left", "marks", "drawn", "epoch"}
Row(s) ==
    /\ DOMAIN s = RowFields /\ Good(s.w, {})
    /\ s.from \in Nodes /\ s.left \in Seq(Nodes) /\ s.drawn \subseteq Nat

\* It is one after any number of them
StillRow(s0, s, k) == Row(s)

\* So it is after all of them: by induction over the targets
LEMMA StillRowGoesOn ==
    \A s : \A n \in Nat :
       /\ StillRow(s, s, 0)
       /\ \A k \in Nat : \A x : StillRow(s, x, k) => \A y \in Leave(x) : StillRow(s, y, k + 1)
       => \A y \in Rounds(s, n, Leave) : StillRow(s, y, n)
  <1> SUFFICES ASSUME NEW s, NEW n \in Nat, StillRow(s, s, 0),
                      \A k \in Nat : \A x : StillRow(s, x, k) => \A y \in Leave(x) : StillRow(s, y, k + 1)
               PROVE  \A y \in Rounds(s, n, Leave) : StillRow(s, y, n)
    OBVIOUS
  <1>1. PICK f : Chain(f, s, n, "leave") /\ Rounds(s, n, Leave) = f[n]
    BY LeaveRounds
  <1>2. f[0] = {s} /\ \A k \in 0 .. n - 1 : f[k + 1] = UNION {Leave(x) : x \in f[k]}
    BY <1>1 DEF Chain, StepOf
  <1> DEFINE T == {k \in 0 .. n : \A y \in f[k] : StillRow(s, y, k)}
  <1>3. 0 \in T
    BY <1>2
  <1>4. \A k \in 0 .. n - 1 : k \in T => k + 1 \in T
    BY <1>2
  <1>5. n \in T
    <2>. HIDE DEF T
    <2>. QED BY <1>3, <1>4, Upwards
  <1>. QED BY <1>1, <1>5

\* One token more leaves, unless the sub-process they are in has been cancelled
LEMMA Leaves ==
    ASSUME Here PROVE \A s : Row(s) => \A z \in Leave(s) : Row(z)
  <1> SUFFICES ASSUME NEW s, Row(s), NEW z \in Leave(s) PROVE Row(z)
    OBVIOUS
  <1>1. /\ DOMAIN s = RowFields /\ Good(s.w, {})
        /\ s.from \in Nodes /\ s.left \in Seq(Nodes) /\ s.drawn \subseteq Nat
    BY DEF Row
  <1>2. CASE z = s
    BY <1>2
  <1>3. CASE z # s
    <2> DEFINE m == Head(s.left)
               times == IF s.drawn = {} THEN Times[m] ELSE s.drawn
    <2>1. s.left # <<>> /\ \E x \in Crossed(s.w, s.from, m, s.marks, times) : z = [s EXCEPT !.w = x, !.left = Tail(@)]
      BY <1>3 DEF Leave
    <2>2. m \in Nodes /\ Tail(s.left) \in Seq(Nodes)
      BY <1>1, <2>1, HeadTailProperties
    <2>3. times \subseteq Nat
      <3>1. model \in Models
        BY DEF Here
      <3>. QED BY <3>1, <1>1, <2>2, Statics
    <2> HIDE DEF m, times
    <2>4. PICK x \in Crossed(s.w, s.from, m, s.marks, times) : z = [s EXCEPT !.w = x, !.left = Tail(@)]
      BY <2>1
    <2>5. Good(x, {})
      BY <1>1, <2>2, <2>3, Crossings
    <2>. QED BY <2>2, <2>4, <2>5, <1>1 DEF Row, RowFields
  <1>. QED BY <1>2, <1>3

\* They all leave, by induction over them (emit)
LEMMA Sends ==
    ASSUME Here
    PROVE  \A w, n, targets, marks, drawn :
              Good(w, {}) /\ n \in Nodes /\ targets \in Seq(Nodes) /\ drawn \subseteq Nat
              => \A x \in Sent(w, n, targets, marks, drawn) : Good(x, {})
  <1> SUFFICES ASSUME NEW w, NEW n, NEW targets, NEW marks, NEW drawn,
                      Good(w, {}), n \in Nodes, targets \in Seq(Nodes), drawn \subseteq Nat,
                      NEW x \in Sent(w, n, targets, marks, drawn)
               PROVE  Good(x, {})
    OBVIOUS
  <1> DEFINE s0 == [w |-> w, from |-> n, left |-> targets, marks |-> marks, drawn |-> drawn,
                    epoch |-> EpochAt(w.k, n)]
             c == Len(targets)
  <1>1. c \in Nat
    BY LenProperties
  <1>2. Row(s0)
    BY DEF Row, RowFields
  <1>3. PICK s \in Rounds(s0, c, Leave) : x = s.w
    BY DEF Sent
  <1> HIDE DEF s0, c
  <1>4. Row(s)
    <2>1. \A k \in Nat : \A y : StillRow(s0, y, k) => \A z \in Leave(y) : StillRow(s0, z, k + 1)
      BY Leaves DEF StillRow
    <2>2. StillRow(s0, s0, 0)
      BY <1>2 DEF StillRow
    <2>3. \A y \in Rounds(s0, c, Leave) : StillRow(s0, y, c)
      BY <1>1, <2>1, <2>2, StillRowGoesOn
    <2>. QED BY <2>3 DEF StillRow
  <1>. QED BY <1>3, <1>4 DEF Row

\* A token goes on through the first flow out of a node (forward)
LEMMA Forwards ==
    ASSUME Here
    PROVE  \A w, n, marks : Good(w, {}) /\ n \in Nodes => \A x \in Forward(w, n, marks) : Good(x, {})
  <1> SUFFICES ASSUME NEW w, NEW n, NEW marks, Good(w, {}), n \in Nodes, NEW x \in Forward(w, n, marks)
               PROVE  Good(x, {})
    OBVIOUS
  <1>1. CASE Out[n] = <<>>
    BY <1>1 DEF Forward
  <1>2. CASE Out[n] # <<>>
    <2> DEFINE t == <<Head(Out[n])>>
    <2>1. Head(Out[n]) \in Nodes
      BY <1>2, HeadOfOut DEF Here
    <2>2. t \in Seq(Nodes)
      BY <2>1
    <2>3. x \in Sent(w, n, t, marks, {})
      BY <1>2 DEF Forward, Emit
    <2> HIDE DEF t
    <2>. QED BY <2>2, <2>3, Sends
  <1>. QED BY <1>1, <1>2

\* The activity a handler makes of what is due is new
LEMMA ActivityNew ==
    ASSUME Here
    PROVE  \A w, n, marks, lasts, loop, entry :
              /\ n \in Nodes /\ lasts \in Nat
              /\ entry # 0 => entry \in DOMAIN w.entries /\ w.entries[entry].node = n /\ w.entries[entry].case = Due.case
              => IsNew(w, Activity(n, marks, lasts, loop, entry))
  <1> SUFFICES ASSUME NEW w, NEW n, NEW marks, NEW lasts, NEW loop, NEW entry, n \in Nodes, lasts \in Nat,
                      entry # 0 => entry \in DOMAIN w.entries /\ w.entries[entry].node = n /\ w.entries[entry].case = Due.case
               PROVE  IsNew(w, Activity(n, marks, lasts, loop, entry))
    OBVIOUS
  <1> DEFINE a == Activity(n, marks, lasts, loop, entry)
  <1>1. a = [x \in ActFields |-> a[x]]
    BY DEF Activity, ActFields
  <1>2. a.node = n /\ a.case = Due.case /\ a.lasts = lasts /\ a.held = 0 /\ a.entry = entry
    BY DEF Activity
  <1>3. 0 \in 0 .. Len(Needs[n])
    BY Needed DEF Here
  <1> HIDE DEF a
  <1>4. IsAct(a, Len(cases))
    BY <1>1, <1>2, <1>3 DEF IsAct, Here
  <1>. QED BY <1>2, <1>4 DEF IsNew, a

\* An instance of a multi-instance task
HasEntry(w, e) == Good(w, {}) /\ e \in DOMAIN w.entries /\ w.entries[e].case = Due.case

\* One instance more of a multi-instance task is enabled (enableInstance)
LEMMA Enabling ==
    ASSUME Here
    PROVE  \A w, e : HasEntry(w, e) => \A x \in Enabled(w, e) : HasEntry(x, e)
  <1> SUFFICES ASSUME NEW w, NEW e, HasEntry(w, e), NEW x \in Enabled(w, e) PROVE HasEntry(x, e)
    OBVIOUS
  <1> DEFINE N == w.entries
             entry == [N[e] EXCEPT !.enabled = @ + 1]
             M == [N EXCEPT ![e] = entry]
             y == [w EXCEPT !.entries = M]
             n == N[e].node
  <1>1. Good(w, {}) /\ e \in DOMAIN N /\ N[e].case = Due.case
    BY DEF HasEntry
  <1>2. DOMAIN w = WorkFields /\ Entered(w.acts, N, w.nextId, {}) /\ "instant" \in DOMAIN w.k
    BY <1>1 DEF Good
  <1>3. n \in Nodes
    BY <1>1, <1>2 DEF Entered
  <1>4. PICK lasts \in Times[n] :
          x \in Scheduled([w EXCEPT !.entries[e].enabled = @ + 1], Activity(n, N[e].marks, lasts, 0, e))
    BY DEF Enabled
  <1>5. lasts \in Nat
    BY <1>3, <1>4, Statics DEF Here
  <1>6. entry.node = N[e].node /\ entry.case = N[e].case
    OBVIOUS
  <1> HIDE DEF entry
  <1>7. /\ DOMAIN M = DOMAIN N /\ M[e] = entry /\ \A f \in DOMAIN N : M[f].node = N[f].node /\ M[f].case = N[f].case
    BY <1>1, <1>6
  <1>8. y = [w EXCEPT !.entries[e].enabled = @ + 1]
    BY <1>2 DEF WorkFields, entry
  <1> HIDE DEF M
  <1>9. /\ DOMAIN y = WorkFields /\ y.k = w.k /\ y.acts = w.acts /\ y.nextAct = w.nextAct /\ y.events = w.events
        /\ y.pending = w.pending /\ y.entries = M /\ y.nextId = w.nextId
    BY <1>2 DEF WorkFields
  <1>10. x \in Scheduled(y, Activity(n, N[e].marks, lasts, 0, e))
    BY <1>4, <1>8
  <1> HIDE DEF y
  <1>11. Entered(y.acts, y.entries, y.nextId, {})
    BY <1>2, <1>7, <1>9 DEF Entered
  <1>12. Good(y, {})
    BY <1>1, <1>2, <1>9, <1>11, Likewise
  <1>13. IsNew(y, Activity(n, N[e].marks, lasts, 0, e))
    BY <1>1, <1>3, <1>5, <1>7, <1>9, ActivityNew
  <1>14. Started(y, x)
    BY <1>10, <1>12, <1>13, Scheduling
  <1>. QED BY <1>1, <1>7, <1>9, <1>14 DEF Started, HasEntry

\* It has its entry after any number of them
StillEntry(s0, s, k) == DOMAIN s = {"w", "entry"} /\ HasEntry(s.w, s.entry)

\* So it is after all of them: by induction over the instances
LEMMA StillEntryGoesOn ==
    \A s : \A n \in Nat :
       /\ StillEntry(s, s, 0)
       /\ \A k \in Nat : \A x : StillEntry(s, x, k) => \A y \in EnableNext(x) : StillEntry(s, y, k + 1)
       => \A y \in Rounds(s, n, EnableNext) : StillEntry(s, y, n)
  <1> SUFFICES ASSUME NEW s, NEW n \in Nat, StillEntry(s, s, 0),
                      \A k \in Nat : \A x : StillEntry(s, x, k) => \A y \in EnableNext(x) : StillEntry(s, y, k + 1)
               PROVE  \A y \in Rounds(s, n, EnableNext) : StillEntry(s, y, n)
    OBVIOUS
  <1>1. PICK f : Chain(f, s, n, "enable") /\ Rounds(s, n, EnableNext) = f[n]
    BY EnableRounds
  <1>2. f[0] = {s} /\ \A k \in 0 .. n - 1 : f[k + 1] = UNION {EnableNext(x) : x \in f[k]}
    BY <1>1 DEF Chain, StepOf
  <1> DEFINE T == {k \in 0 .. n : \A y \in f[k] : StillEntry(s, y, k)}
  <1>3. 0 \in T
    BY <1>2
  <1>4. \A k \in 0 .. n - 1 : k \in T => k + 1 \in T
    BY <1>2
  <1>5. n \in T
    <2>. HIDE DEF T
    <2>. QED BY <1>3, <1>4, Upwards
  <1>. QED BY <1>1, <1>5

\* Instances are enabled one after another, by induction over them
LEMMA AllEnabled ==
    ASSUME Here
    PROVE  \A w, e, n : HasEntry(w, e) /\ n \in Nat
              => \A s \in Rounds([w |-> w, entry |-> e], n, EnableNext) : Good(s.w, {})
  <1> SUFFICES ASSUME NEW w, NEW e, NEW n \in Nat, HasEntry(w, e),
                      NEW s \in Rounds([w |-> w, entry |-> e], n, EnableNext)
               PROVE  Good(s.w, {})
    OBVIOUS
  <1> DEFINE s0 == [w |-> w, entry |-> e]
  <1>1. StillEntry(s0, s0, 0)
    BY DEF StillEntry
  <1>2. s \in Rounds(s0, n, EnableNext)
    OBVIOUS
  <1> HIDE DEF s0
  <1>3. ASSUME NEW y, NEW k, StillEntry(s0, y, k), NEW z \in EnableNext(y) PROVE StillEntry(s0, z, k + 1)
    <2>1. DOMAIN y = {"w", "entry"} /\ HasEntry(y.w, y.entry)
      BY <1>3 DEF StillEntry
    <2>2. PICK x \in Enabled(y.w, y.entry) : z = [y EXCEPT !.w = x]
      BY DEF EnableNext
    <2>3. HasEntry(x, y.entry)
      BY <2>1, Enabling
    <2>4. z.w = x /\ z.entry = y.entry /\ DOMAIN z = {"w", "entry"}
      BY <2>1, <2>2
    <2>. QED BY <2>3, <2>4 DEF StillEntry
  <1>4. \A y \in Rounds(s0, n, EnableNext) : StillEntry(s0, y, n)
    BY <1>1, <1>3, StillEntryGoesOn
  <1>. QED BY <1>2, <1>4 DEF StillEntry, HasEntry

\* All the instances of an entry go
LEMMA EntryInterrupted ==
    ASSUME Here
    PROVE  \A w, e, completed : Good(w, completed) => \A x \in InterruptEntry(w, e, completed) : Good(x, {})
  <1> SUFFICES ASSUME NEW w, NEW e, NEW completed, Good(w, completed), NEW x \in InterruptEntry(w, e, completed)
               PROVE  Good(x, {})
    OBVIOUS
  <1> DEFINE open == {i \in DOMAIN w.acts : w.acts[i].entry = e} \ completed
             X == open \cup completed
             y == [w EXCEPT !.rows = Logged(@, open, "interrupted"), !.entries = Without(@, {e})]
  <1>1. x \in Released(y, X)
    BY DEF InterruptEntry
  <1>2. DOMAIN w = WorkFields /\ "instant" \in DOMAIN w.k /\ Entered(w.acts, w.entries, w.nextId, completed)
    BY DEF Good
  <1>3. \A i \in DOMAIN w.acts \ X : i \notin completed /\ w.acts[i].entry # e
    OBVIOUS
  <1> HIDE DEF open
  <1>4. /\ DOMAIN y = WorkFields /\ y.k = w.k /\ y.acts = w.acts /\ y.nextAct = w.nextAct /\ y.events = w.events
        /\ y.pending = w.pending /\ y.entries = Without(w.entries, {e}) /\ y.nextId = w.nextId
    BY <1>2 DEF WorkFields
  <1> HIDE DEF y
  <1>5. Entered(y.acts, y.entries, y.nextId, X)
    <2> DEFINE N == w.entries
               M == Without(N, {e})
    <2>1. DOMAIN M = DOMAIN N \ {e} /\ \A f \in DOMAIN M : M[f] = N[f]
      BY DEF Without
    <2>. HIDE DEF X, M
    <2>2. completed \subseteq X
      BY DEF X
    <2>3. \A i \in DOMAIN w.acts \ X : i \in DOMAIN w.acts \ completed
      BY <2>2
    <2>4. Entered(w.acts, M, w.nextId, X)
      BY <2>1, <2>3, <1>2, <1>3 DEF Entered
    <2>. QED BY <2>4, <1>4 DEF M
  <1>6. completed \subseteq X
    OBVIOUS
  <1> HIDE DEF X
  <1>7. Good(y, X)
    BY <1>2, <1>4, <1>5, <1>6, Likewise
  <1>8. GivenBack(y, X, x)
    BY <1>1, <1>7, Releasing
  <1>. QED BY <1>8 DEF GivenBack

-----------------------------------------------------------------------------
(* The inductive invariant *)

\* All of it but what the main loop has looked at
Ordered(h, A, na, N, ni, P, t, cs) ==
    /\ Sequence(h) /\ Sorted(h) /\ Once(h)
    /\ Acts(A, na, cs) /\ Entered(A, N, ni, {})
    /\ Events(Range(h), t, na, cs)
    /\ OneEnd(A, Range(h), {}) /\ Woken(A, Range(h), P, t)

\* Something happened to a case at t
Happened(S, t) == \E c \in DOMAIN S : S[c].instant = t

\* The inductive invariant
IInv ==
    /\ model \in Models /\ clock \in Nat
    /\ Sequence(cases) /\ \A c \in DOMAIN cases : "instant" \in DOMAIN cases[c]
    /\ Ordered(heap, acts, nextAct, entries, nextId, pending, clock, Len(cases))
    /\ outcome = "running" =>
          /\ LookedAt(acts, Range(heap), clock)
          /\ cases # <<>> /\ DOMAIN acts = {} => Happened(cases, clock)
    /\ outcome = "drained" /\ cases # <<>> => Happened(cases, clock)

\* The operators of the model alone mean the same after a step
LEMMA Unmoved ==
    ASSUME model' = model
    PROVE  /\ \A A : Waiting(A)' = Waiting(A)
           /\ \A A, p : InUse(A, p)' = InUse(A, p)
           /\ \A p, t : Units(p, t)' = Units(p, t)
           /\ \A p, t : Rises(p, t)' = Rises(p, t)
           /\ \A n : PoolsOf(n)' = PoolsOf(n) /\ DemandsOf(n)' = DemandsOf(n)
           /\ Pools' = Pools /\ Nodes' = Nodes /\ Needs' = Needs /\ Starts' = Starts
  <1>1. \A A : Waiting(A)' = Waiting(A)
    BY DEF Waiting, Needs
  <1>2. \A A, p : InUse(A, p)' = InUse(A, p)
    BY DEF InUse, Needs
  <1>3. \A p, t : Units(p, t)' = Units(p, t)
    BY DEF Units, Horizon
  <1>4. \A p, t : Rises(p, t)' = Rises(p, t)
    BY DEF Rises, Horizon, TStop, Units
  <1>5. \A n : DemandsOf(n)' = DemandsOf(n)
    BY DEF DemandsOf, Needs, Range
  <1>6. \A n : PoolsOf(n)' = PoolsOf(n)
    BY DEF PoolsOf, DemandsOf, Needs, Range
  <1>. QED BY <1>1, <1>2, <1>3, <1>4, <1>5, <1>6 DEF Pools, Nodes, Needs, Starts

\* So do the parts of the invariant, given the values they are about: the activities
LEMMA SameActs == ASSUME model' = model PROVE \A A, na, cs : Acts(A, na, cs)' = Acts(A, na, cs)
  <1>1. \A a, cs : IsAct(a, cs)' = IsAct(a, cs)
    BY Unmoved DEF IsAct, ActFields
  <1>. QED BY <1>1 DEF Acts

\* ... the events
LEMMA SameEvents == ASSUME model' = model PROVE \A E, t, na, cs : Events(E, t, na, cs)' = Events(E, t, na, cs)
  <1>1. \A e, t, na, cs : IsEvent(e, t, na, cs)' = IsEvent(e, t, na, cs)
    BY Unmoved DEF IsEvent, Range
  <1>. QED BY <1>1 DEF Events

\* ... the entries
LEMMA SameEntered == ASSUME model' = model PROVE \A A, N, ni, X : Entered(A, N, ni, X)' = Entered(A, N, ni, X)
  BY Unmoved DEF Entered

\* ... the ends
LEMMA SameOneEnd == ASSUME model' = model PROVE \A A, E, X : OneEnd(A, E, X)' = OneEnd(A, E, X)
  BY Unmoved DEF OneEnd

\* ... the rises
LEMMA SameWoken == ASSUME model' = model PROVE \A A, E, P, t : Woken(A, E, P, t)' = Woken(A, E, P, t)
  BY Unmoved DEF Woken

\* ... what is looked at
LEMMA SameLookedAt == ASSUME model' = model PROVE \A A, E, t : LookedAt(A, E, t)' = LookedAt(A, E, t)
  <1>1. \A A, d, t : Fits(A, d, t)' = Fits(A, d, t)
    BY Unmoved DEF Fits
  <1>. QED BY <1>1, Unmoved DEF LookedAt

\* ... and all of them together
LEMMA SameOrdered ==
    ASSUME model' = model
    PROVE  \A h, A, na, N, ni, P, t, cs :
              Ordered(h, A, na, N, ni, P, t, cs)' = Ordered(h, A, na, N, ni, P, t, cs)
  BY SameActs, SameEvents, SameEntered, SameOneEnd, SameWoken DEF Ordered, Sequence, Sorted, Once, Range, Differ

\* The invariant of the next state, from the values of its variables
LEMMA NextInvariant ==
    ASSUME model' = model, model \in Models,
           NEW h, NEW A, NEW na, NEW N, NEW ni, NEW P, NEW t \in Nat, NEW S, NEW o,
           heap' = h, acts' = A, nextAct' = na, entries' = N, nextId' = ni, pending' = P,
           clock' = t, cases' = S, outcome' = o,
           Sequence(S), \A c \in DOMAIN S : "instant" \in DOMAIN S[c],
           Ordered(h, A, na, N, ni, P, t, Len(S)),
           o = "running" => LookedAt(A, Range(h), t),
           (o = "running" /\ DOMAIN A = {}) \/ o = "drained" => (S # <<>> => Happened(S, t))
    PROVE  IInv'
  <1>1. Ordered(heap, acts, nextAct, entries, nextId, pending, clock, Len(cases))'
    BY SameOrdered
  <1>2. LookedAt(acts, Range(heap), clock)' = LookedAt(A, Range(h), t)
    BY SameLookedAt DEF Range
  <1>3. Happened(cases, clock)' = Happened(S, t)
    BY DEF Happened
  <1>4. Sequence(cases)' = Sequence(S)
    BY DEF Sequence, Range
  <1>. QED BY <1>1, <1>2, <1>3, <1>4 DEF IInv

\* The event that is due leaves the heap
LEMMA Popped ==
    ASSUME IInv, heap # <<>>
    PROVE  /\ Due.t \in Nat /\ clock <= Due.t /\ IsEvent(Due, clock, nextAct, Len(cases))
           /\ Due \in Range(heap) /\ Range(heap) = {Due} \cup Range(Tail(heap))
           /\ Sequence(Tail(heap)) /\ Sorted(Tail(heap)) /\ Once(Tail(heap))
           /\ \A e \in Range(Tail(heap)) : Differ(Due, e)
           /\ \A e \in Range(heap) : Due.t <= e.t
           /\ Timed(Range(heap))
  <1> DEFINE e1 == Head(heap)
             h == Tail(heap)
  <1>1. Sequence(heap) /\ Sorted(heap) /\ Once(heap) /\ Events(Range(heap), clock, nextAct, Len(cases))
    BY DEF IInv, Ordered
  <1>2. /\ Sequence(h) /\ heap = <<e1>> \o h /\ e1 \in Range(heap) /\ Range(heap) = {e1} \cup Range(h)
        /\ Len(h) = Len(heap) - 1 /\ Len(heap) \in Nat \ {0}
        /\ DOMAIN heap = 1 .. Len(heap) /\ e1 = heap[1]
        /\ \A i \in 1 .. Len(heap) - 1 : h[i] = heap[i + 1]
    BY <1>1, Headed
  <1>3. DOMAIN h = 1 .. Len(heap) - 1
    BY <1>2, SequenceOf DEF Sequence
  <1> HIDE DEF h, e1
  <1>4. Sorted(h)
    <2>1. ASSUME NEW i \in 1 .. Len(heap) - 1, NEW j \in 1 .. Len(heap) - 1, i <= j PROVE h[i].t <= h[j].t
      <3>1. i + 1 \in 1 .. Len(heap) /\ j + 1 \in 1 .. Len(heap) /\ i + 1 <= j + 1
        BY <1>2, <2>1
      <3>2. heap[i + 1].t <= heap[j + 1].t
        BY <1>1, <1>2, <3>1 DEF Sorted
      <3>. QED BY <1>2, <3>2
    <2>. QED BY <1>3, <2>1 DEF Sorted
  <1>5. Once(h) /\ \A e \in Range(h) : Differ(e1, e)
    <2>1. Sequence(<<e1>>) /\ Range(<<e1>>) = {e1}
      BY Single
    <2>2. Once(<<e1>> \o h)
      BY <1>1, <1>2
    <2>. QED BY ONLY <1>2, <2>1, <2>2, OnceConcat
  <1>6. \A e \in Range(heap) : e1.t <= e.t
    BY <1>1, <1>2 DEF Sorted, Range
  <1>7. Timed(Range(heap)) /\ IsEvent(e1, clock, nextAct, Len(cases)) /\ e1.t \in Nat /\ clock <= e1.t
    BY <1>1, <1>2 DEF Timed, Events, IsEvent
  <1>. QED BY <1>2, <1>4, <1>5, <1>6, <1>7 DEF h, e1, Due

\* A pool that has more units later has risen in between
LEMMA RisenBetween ==
    ASSUME model \in Models, NEW p \in Pools, NEW t \in Nat, NEW u \in Nat, t <= u, u < TStop,
           Units(p, t) < Units(p, u)
    PROVE  \E v \in Rises(p, t) : v <= u
  <1> DEFINE T == {v \in Nat : t < v /\ Units(p, t) < Units(p, v)}
  <1>1. t # u
    BY UnitsOf
  <1>2. u \in T
    BY <1>1
  <1>3. T \subseteq Nat
    OBVIOUS
  <1> HIDE DEF T
  <1>4. PICK v \in T : \A m \in T : v <= m
    BY <1>2, <1>3, Least
  <1>5. v \in Nat /\ t < v /\ Units(p, t) < Units(p, v) /\ v <= u
    BY <1>2, <1>4 DEF T
  <1>6. v - 1 \in Nat /\ t <= v - 1 /\ v - 1 \notin T
    BY <1>3, <1>4, <1>5
  <1>7. Units(p, v - 1) <= Units(p, t)
    <2>1. Units(p, t) \in Nat /\ Units(p, v - 1) \in Nat
      BY <1>5, <1>6, UnitsOf
    <2>2. CASE v - 1 = t
      BY <2>1, <2>2
    <2>3. CASE v - 1 # t
      BY <1>6, <2>1, <2>3 DEF T
    <2>. QED BY <2>2, <2>3
  <1>8. Units(p, v) > Units(p, v - 1)
    BY <1>5, <1>6, <1>7, UnitsOf
  <1>9. v <= Horizon
    <2> SUFFICES ASSUME Horizon < v PROVE FALSE
      BY <1>5, Statics
    <2>1. Units(p, v) = Units(p, v - 1)
      BY <1>5, <1>6, Statics DEF Units
    <2>. QED BY <1>8, <2>1, <1>5, <1>6, UnitsOf
  <1>10. v < TStop
    BY <1>5, Statics
  <1>. QED BY <1>5, <1>8, <1>9, <1>10, Statics DEF Rises

\* A rise after a later time is one after an earlier time
LEMMA RisesLater ==
    ASSUME model \in Models, NEW p, NEW t \in Nat, NEW u \in Nat, t <= u
    PROVE  Rises(p, u) \subseteq Rises(p, t)
  BY Statics DEF Rises

\* Time goes by until an event is due
LEMMA TimePasses ==
    ASSUME IInv, heap # <<>>
    PROVE  /\ Events(Range(heap), Due.t, nextAct, Len(cases))
           /\ Woken(acts, Range(heap), pending, Due.t)
           /\ outcome = "running" /\ Due.t < TStop => LookedAt(acts, Range(heap), Due.t)
  <1> DEFINE E == Range(heap)
             t == Due.t
  <1>1. /\ t \in Nat /\ clock <= t /\ \A e \in E : t <= e.t
        /\ model \in Models /\ clock \in Nat
    BY Popped DEF IInv
  <1>2. /\ Acts(acts, nextAct, Len(cases)) /\ Events(E, clock, nextAct, Len(cases)) /\ Woken(acts, E, pending, clock)
        /\ outcome = "running" => LookedAt(acts, E, clock)
    BY DEF IInv, Ordered
  <1> HIDE DEF E, t
  <1>3. Events(E, t, nextAct, Len(cases))
    BY <1>1, <1>2 DEF Events, IsEvent
  <1>4. Woken(acts, E, pending, t)
    BY <1>1, <1>2, RisesLater DEF Woken
  <1>5. ASSUME outcome = "running", t < TStop, NEW i \in Waiting(acts), NEW d \in DemandsOf(acts[i].node),
               Fits(acts, d, t)
        PROVE  \E e \in E : e.kind = "capacity" /\ e.t = t /\ e.node \in d
    <2>1. i \in DOMAIN acts /\ acts[i].node \in Nodes
      BY <1>2, <1>5 DEF Waiting, Acts, IsAct
    <2>2. d \subseteq Pools /\ d \subseteq PoolsOf(acts[i].node)
      BY <2>1, <1>1, <1>5, Needed DEF PoolsOf
    <2>3. CASE Fits(acts, d, clock)
      <3>1. PICK e \in E : e.kind = "capacity" /\ e.t = clock /\ e.node \in d
        BY <1>2, <1>5, <2>3 DEF LookedAt
      <3>2. t = clock
        BY <1>1, <3>1
      <3>. QED BY <3>1, <3>2
    <2>4. CASE ~Fits(acts, d, clock)
      <3>1. PICK p \in d : ~(InUse(acts, p) < Units(p, clock))
        BY <2>4 DEF Fits
      <3>2. InUse(acts, p) < Units(p, t)
        BY <1>5, <3>1 DEF Fits
      <3>3. p \in Pools /\ p \in PoolsOf(acts[i].node)
        BY <2>2, <3>1
      <3>4. InUse(acts, p) \in Nat /\ Units(p, clock) \in Nat /\ Units(p, t) \in Nat
        BY <1>1, <1>2, <3>3, UnitsOf, Finite DEF Acts
      <3>5. PICK v \in Rises(p, clock) : v <= t
        <4>1. Units(p, clock) < Units(p, t)
          BY <3>1, <3>2, <3>4
        <4>. QED BY ONLY <1>1, <1>5, <3>3, <4>1, RisenBetween
      <3>6. p \in pending
        BY <1>2, <1>5, <3>3, <3>5 DEF Woken
      <3>7. PICK e \in E : e.kind = "capacity" /\ e.node = p
        BY <1>2, <3>3, <3>6 DEF Woken
      <3>8. e.t <= v /\ t <= e.t /\ e.t \in Nat
        BY <1>1, <1>2, <3>5, <3>7 DEF Woken, Events, IsEvent
      <3>9. v \in Nat
        BY <1>1, <3>5, Statics DEF Rises
      <3>10. e.t = t
        BY <1>1, <3>5, <3>8, <3>9
      <3>. QED BY <3>1, <3>7, <3>10
    <2>. QED BY <2>3, <2>4
  <1>. QED BY <1>3, <1>4, <1>5 DEF E, t, LookedAt

-----------------------------------------------------------------------------
(* From the event that is due to the next state *)

\* An event with an effect on a case
LEMMA OwnerKeepsInstant ==
    ASSUME NEW e, "instant" \in DOMAIN cases[e.case]
    PROVE  "instant" \in DOMAIN Owner(e) /\ Owner(e).instant = e.t
  BY DEF Owner

\* What a handler begins with is good, but for the activity the end of which is due
LEMMA Starting ==
    ASSUME IInv, Running, Due.kind \notin {"capacity", "arrive"},
           NEW X, Due.kind = "done" => X = {Due.act}, Due.kind # "done" => X = {}
    PROVE  Here /\ Good(Now, X)
  <1> DEFINE h == Tail(heap)
             E == Range(heap)
             F == Range(h)
             t == Due.t
  <1>0. outcome = "running" /\ heap # <<>> /\ t < TStop
    BY DEF Running
  <1>1. /\ t \in Nat /\ IsEvent(Due, clock, nextAct, Len(cases))
        /\ E = {Due} \cup F /\ Sequence(h) /\ Once(h)
    BY <1>0, Popped
  <1>2. Events(E, t, nextAct, Len(cases)) /\ Woken(acts, E, pending, t) /\ LookedAt(acts, E, t)
    BY <1>0, TimePasses
  <1>3. /\ model \in Models /\ Sequence(cases) /\ \A c \in DOMAIN cases : "instant" \in DOMAIN cases[c]
        /\ Acts(acts, nextAct, Len(cases)) /\ Entered(acts, entries, nextId, {}) /\ OneEnd(acts, E, {})
    BY DEF IInv, Ordered
  <1>4. Len(cases) \in Nat /\ DOMAIN cases = 1 .. Len(cases) /\ Due.case \in 1 .. Len(cases)
    BY <1>1, <1>3, SequenceOf DEF Sequence, IsEvent
  <1>5. Here
    BY <1>1, <1>3, <1>4 DEF Here
  <1>6. "instant" \in DOMAIN Owner(Due) /\ Owner(Due).instant = t
    BY <1>3, <1>4, OwnerKeepsInstant
  <1>7. /\ DOMAIN Now = WorkFields /\ Now.k = Owner(Due) /\ Now.acts = acts /\ Now.nextAct = nextAct
        /\ Now.entries = entries /\ Now.nextId = nextId /\ Now.pending = pending /\ Now.events = <<>>
    BY DEF Now, WorkFields
  <1> HIDE DEF h, E, F, t
  <1>8. Sequence(Now.events) /\ h \o Now.events = h /\ Range(Now.events) = {}
    BY <1>1, <1>7, WithNothing, Empty
  <1>9. Coming(Now) = F
    BY <1>8 DEF Coming, F, h
  <1>10. Events(F, t, nextAct, Len(cases))
    BY <1>1, <1>2 DEF Events
  <1>11. Entered(acts, entries, nextId, X)
    BY <1>3 DEF Entered
  <1>12. OneEnd(acts, F, X)
    <2>1. CASE Due.kind = "done"
      BY <1>1, <1>3, <2>1 DEF OneEnd
    <2>2. CASE Due.kind # "done"
      BY <1>1, <1>3, <2>2 DEF OneEnd
    <2>. QED BY <2>1, <2>2
  <1>13. Woken(acts, F, pending, t)
    BY <1>1, <1>2 DEF Woken
  <1>14. LookedAt(acts, F, t)
    BY <1>1, <1>2 DEF LookedAt
  <1>. QED BY <1>1, <1>3, <1>5, <1>6, <1>7, <1>8, <1>9, <1>10, <1>11, <1>12, <1>13, <1>14 DEF Good, t, h

\* What a handler ends with makes the next state
LEMMA Becoming ==
    ASSUME IInv, Running, Here, clock' = Due.t
    PROVE  \A w : Good(w, {}) /\ Becomes(w) => IInv'
  <1> SUFFICES ASSUME NEW w, Good(w, {}), Becomes(w) PROVE IInv'
    OBVIOUS
  <1> DEFINE h == Tail(heap)
             t == Due.t
             S == [cases EXCEPT ![Due.case] = w.k]
  <1>1. outcome = "running" /\ heap # <<>>
    BY DEF Running
  <1>2. /\ model \in Models /\ t \in Nat /\ Sequence(h) /\ Sorted(h)
        /\ Sequence(cases) /\ \A c \in DOMAIN cases : "instant" \in DOMAIN cases[c]
        /\ DOMAIN cases = 1 .. Len(cases) /\ Due.case \in 1 .. Len(cases)
    BY <1>1, Popped, SequenceOf DEF IInv, Here, Sequence
  <1>3. /\ heap' \in PushedAll(h, w.events)
        /\ acts' = w.acts /\ entries' = w.entries /\ nextAct' = w.nextAct /\ nextId' = w.nextId
        /\ pending' = w.pending /\ cases' = S /\ model' = model /\ outcome' = "running"
    BY <1>1 DEF Becomes
  <1>4. /\ "instant" \in DOMAIN w.k /\ w.k.instant = t
        /\ Acts(w.acts, w.nextAct, Len(cases)) /\ Entered(w.acts, w.entries, w.nextId, {})
        /\ Sequence(w.events) /\ Once(h \o w.events)
        /\ Events(Range(h) \cup Range(w.events), t, w.nextAct, Len(cases))
        /\ OneEnd(w.acts, Range(h) \cup Range(w.events), {})
        /\ Woken(w.acts, Range(h) \cup Range(w.events), w.pending, t)
        /\ LookedAt(w.acts, Range(h) \cup Range(w.events), t)
    BY DEF Good, Coming
  <1>5. /\ DOMAIN S = DOMAIN cases /\ S[Due.case] = w.k /\ \A c \in DOMAIN cases \ {Due.case} : S[c] = cases[c]
    BY <1>2
  <1>6. Sequence(S) /\ Len(S) = Len(cases)
    <2>1. S = [i \in 1 .. Len(cases) |-> S[i]] /\ Len(cases) \in Nat
      BY <1>2, <1>5 DEF Here
    <2>. HIDE DEF S
    <2>2. \A i \in 1 .. Len(cases) : S[i] \in Range(S)
      BY <1>2, <1>5 DEF Range
    <2>3. S \in Seq(Range(S))
      BY <2>1, <2>2, IsASeq
    <2>. QED BY <2>1, <2>3, <1>2, <1>5, LenProperties DEF Sequence
  <1> HIDE DEF S, h, t
  <1>7. Timed(Range(h) \cup Range(w.events))
    BY <1>4 DEF Timed, Events, IsEvent
  <1>8. /\ Sequence(heap') /\ Range(heap') = Range(h) \cup Range(w.events) /\ Sorted(heap') /\ Once(heap')
    BY ONLY <1>2, <1>3, <1>4, <1>7, PushedAllOf
  <1>9. PICK g : g = heap'
    OBVIOUS
  <1>10. /\ Sequence(g) /\ Sorted(g) /\ Once(g) /\ Range(g) = Range(h) \cup Range(w.events)
    BY <1>8, <1>9
  <1>11. Ordered(g, w.acts, w.nextAct, w.entries, w.nextId, w.pending, t, Len(S)) /\ LookedAt(w.acts, Range(g), t)
    BY <1>4, <1>6, <1>10 DEF Ordered
  <1>12. Happened(S, t) /\ \A c \in DOMAIN S : "instant" \in DOMAIN S[c]
    BY <1>2, <1>4, <1>5 DEF Happened
  <1>13. clock' = t
    BY DEF t
  <1>. QED BY <1>2, <1>3, <1>6, <1>9, <1>11, <1>12, <1>13, NextInvariant

-----------------------------------------------------------------------------
(* Events without effect *)

\* An event that has lost its object leaves the heap without any effect
LEMMA ThrowingAway ==
    ASSUME IInv, Running, heap' = Tail(heap), clock' = clock,
           UNCHANGED <<model, cases, acts, entries, nextAct, nextId, outcome>>,
           Due.kind = "done" => Due.act \notin DOMAIN acts,
           Due.kind = "capacity" => ~WaitsOnPool(Due.node) /\ pending' = pending \ {Due.node},
           Due.kind # "capacity" => pending' = pending
    PROVE  IInv'
  <1> DEFINE h == Tail(heap)
             E == Range(heap)
             F == Range(h)
             P == IF Due.kind = "capacity" THEN pending \ {Due.node} ELSE pending
  <1>0. outcome = "running" /\ heap # <<>>
    BY DEF Running
  <1>1. /\ E = {Due} \cup F /\ Sequence(h) /\ Once(h) /\ Sorted(h)
        /\ \A e \in F : Differ(Due, e)
        /\ IsEvent(Due, clock, nextAct, Len(cases))
    BY <1>0, Popped
  <1>2. /\ model \in Models /\ clock \in Nat
        /\ Sequence(cases) /\ \A c \in DOMAIN cases : "instant" \in DOMAIN cases[c]
        /\ Acts(acts, nextAct, Len(cases)) /\ Entered(acts, entries, nextId, {})
        /\ Events(E, clock, nextAct, Len(cases))
        /\ OneEnd(acts, E, {}) /\ Woken(acts, E, pending, clock)
        /\ LookedAt(acts, E, clock)
        /\ DOMAIN acts = {} => (cases # <<>> => Happened(cases, clock))
    BY <1>0 DEF IInv, Ordered
  <1> HIDE DEF E, F, h
  <1>3. Events(F, clock, nextAct, Len(cases))
    BY <1>1, <1>2 DEF Events
  <1>4. OneEnd(acts, F, {})
    BY <1>1, <1>2 DEF OneEnd
  <1>5. \A i \in Waiting(acts) : acts[i].node \in Nodes
    BY <1>2 DEF Waiting, Acts, IsAct
  <1>6. Woken(acts, F, P, clock)
    <2>1. CASE Due.kind = "capacity"
      <3>1. \A p \in Pools : p \in P <=> \E e \in F : e.kind = "capacity" /\ e.node = p
        BY <1>1, <1>2, <2>1 DEF Woken, Differ
      <3>2. \A i \in Waiting(acts) : Due.node \notin PoolsOf(acts[i].node)
        BY <2>1 DEF WaitsOnPool
      <3>. QED BY <1>1, <1>2, <2>1, <3>1, <3>2 DEF Woken
    <2>2. CASE Due.kind # "capacity"
      BY <1>1, <1>2, <2>2 DEF Woken
    <2>. QED BY <2>1, <2>2
  <1>7. LookedAt(acts, F, clock)
    <2>1. ASSUME NEW i \in Waiting(acts), NEW d \in DemandsOf(acts[i].node), Fits(acts, d, clock)
          PROVE  \E e \in F : e.kind = "capacity" /\ e.t = clock /\ e.node \in d
      <3>1. PICK e \in E : e.kind = "capacity" /\ e.t = clock /\ e.node \in d
        BY <1>2, <2>1 DEF LookedAt
      <3>2. e.node \in PoolsOf(acts[i].node)
        BY <2>1, <3>1 DEF PoolsOf
      <3>3. e # Due
        BY <3>1, <3>2, <2>1 DEF WaitsOnPool
      <3>. QED BY <1>1, <3>1, <3>3
    <2>. QED BY <2>1 DEF LookedAt
  <1>8. Ordered(h, acts, nextAct, entries, nextId, P, clock, Len(cases))
    BY <1>1, <1>2, <1>3, <1>4, <1>6 DEF Ordered, F
  <1>9. /\ heap' = h /\ pending' = P /\ model' = model /\ cases' = cases /\ acts' = acts /\ entries' = entries
        /\ nextAct' = nextAct /\ nextId' = nextId /\ outcome' = "running"
    BY <1>0 DEF h
  <1> HIDE DEF P
  <1>. QED BY <1>2, <1>7, <1>8, <1>9, NextInvariant DEF F

\* The events of cases that are over, of activities and entries that are gone
LEMMA DiscardPreserves == IInv /\ Discard => IInv'
  <1> SUFFICES ASSUME IInv, Discard PROVE IInv'
    OBVIOUS
  <1>1. /\ Running /\ ~Live(Due) /\ heap' = Tail(heap) /\ clock' = clock
        /\ pending' = IF Due.kind = "capacity" THEN pending \ {Due.node} ELSE pending
        /\ UNCHANGED <<model, cases, acts, entries, nextAct, nextId, outcome>>
    BY DEF Discard, opened
  <1>2. Due.kind = "done" => Due.act \notin DOMAIN acts
    BY <1>1 DEF Live
  <1>3. Due.kind = "capacity" => ~WaitsOnPool(Due.node)
    BY <1>1 DEF Live
  <1>. QED BY <1>1, <1>2, <1>3, ThrowingAway

\* The tokens of a sub-process that has been cancelled
LEMMA DeadTokenPreserves == IInv /\ DeadToken => IInv'
  <1> SUFFICES ASSUME IInv, DeadToken PROVE IInv'
    OBVIOUS
  <1>1. /\ Running /\ Due.kind = "enter" /\ clock' = Due.t /\ heap' = Tail(heap)
        /\ UNCHANGED <<model, cases, acts, entries, nextAct, nextId, pending, outcome>>
    BY DEF DeadToken, Serve, opened
  <1>2. Due.t = clock
    BY <1>1, Popped DEF Running, IsEvent
  <1>. QED BY <1>1, <1>2, ThrowingAway

-----------------------------------------------------------------------------
(* Tokens that come to a node *)

\* An event of a case that is served
LEMMA BeingServed ==
    ASSUME IInv, NEW kind, Serve(kind), kind \in {"enter", "boundary", "multiBoundary", "deadline"}
    PROVE  /\ Here /\ Good(Now, {}) /\ Due.node \in Nodes
           /\ \A w : Good(w, {}) /\ Becomes(w) => IInv'
           /\ kind = "enter" => Due.times \subseteq Nat
  <1>1. Running /\ Due.kind = kind /\ clock' = Due.t /\ heap # <<>>
    BY DEF Serve, Running
  <1>2. IsEvent(Due, clock, nextAct, Len(cases))
    BY <1>1, Popped
  <1>3. Here /\ Good(Now, {})
    BY <1>1, Starting
  <1>4. \A w : Good(w, {}) /\ Becomes(w) => IInv'
    BY <1>1, <1>3, Becoming
  <1>. QED BY <1>1, <1>2, <1>3, <1>4 DEF IsEvent

\* A token passes a node that keeps none
LEMMA PassPreserves == IInv /\ Pass => IInv'
  <1> SUFFICES ASSUME IInv, Pass PROVE IInv'
    OBVIOUS
  <1>1. Serve("enter")
    BY DEF Pass, ServeNode
  <1>2. PICK w \in Forward(Now, Due.node, Due.marks) : Becomes(w)
    BY DEF Pass
  <1>. QED BY <1>1, <1>2, BeingServed, Forwards

\* A token leaves through one of several flows
LEMMA ChoosePreserves == IInv /\ Choose => IInv'
  <1> SUFFICES ASSUME IInv, Choose PROVE IInv'
    OBVIOUS
  <1>1. Serve("enter")
    BY DEF Choose, ServeNode
  <1>a. PICK target \in Range(Out[Due.node]) :
           \E w \in Emit(Now, Due.node, <<target>>, Due.marks) : Becomes(w)
    BY DEF Choose
  <1>2. PICK w \in Emit(Now, Due.node, <<target>>, Due.marks) : Becomes(w)
    BY <1>a
  <1>3. Here /\ Good(Now, {}) /\ Due.node \in Nodes
    BY <1>1, BeingServed
  <1>4. target \in Nodes
    <2>1. Out[Due.node] \in Seq(Nodes)
      BY <1>3, Statics DEF Here
    <2>. QED BY <2>1, <1>a, SequenceOf
  <1>5. <<target>> \in Seq(Nodes) /\ {} \subseteq Nat
    BY <1>4
  <1>6. w \in Sent(Now, Due.node, <<target>>, Due.marks, {})
    BY <1>2 DEF Emit
  <1>7. Good(w, {})
    BY <1>3, <1>5, <1>6, Sends
  <1>. QED BY <1>1, <1>2, <1>7, BeingServed

\* A token comes to a node it cannot leave
LEMMA StuckPreserves == IInv /\ Stuck => IInv'
  <1> SUFFICES ASSUME IInv, Stuck PROVE IInv'
    OBVIOUS
  <1> DEFINE x == [Now EXCEPT !.blocked = @ \cup {<<Due.node, Due.case>>}]
  <1>1. Serve("enter") /\ Becomes(x)
    BY DEF Stuck, ServeNode
  <1>2. Good(Now, {})
    BY <1>1, BeingServed
  <1>3. Retold(Now, x)
    BY <1>2 DEF Retold, Good, WorkFields
  <1> HIDE DEF x
  <1>4. Good(x, {})
    BY <1>2, <1>3, Retelling
  <1>. QED BY <1>1, <1>4, BeingServed

\* A token comes to an end
LEMMA EndPreserves == IInv /\ End => IInv'
  <1> SUFFICES ASSUME IInv, End PROVE IInv'
    OBVIOUS
  <1> DEFINE w == Gain(Now, Due.node, -1)
             x == [w EXCEPT !.k.endId = IF w.k.tokens <= 0 THEN Due.node ELSE @]
  <1>1. Serve("enter") /\ Becomes(x)
    BY DEF End, ServeNode
  <1>2. Good(w, {})
    BY <1>1, BeingServed, Gaining
  <1> HIDE DEF w
  <1>3. Retold(w, x)
    BY <1>2 DEF Retold, Good, WorkFields
  <1> HIDE DEF x
  <1>4. Good(x, {})
    BY <1>2, <1>3, Retelling
  <1>. QED BY <1>1, <1>4, BeingServed

\* A token comes to an event-based gateway
LEMMA RacePreserves == IInv /\ Race => IInv'
  <1> SUFFICES ASSUME IInv, Race PROVE IInv'
    OBVIOUS
  <1> DEFINE n == Due.node
             flows == Out[n]
  <1>1. Serve("enter")
    BY DEF Race, ServeNode
  <1>2. PICK delay \in [Racers(n) -> UNION {Times[flows[j]] : j \in Racers(n)}], won \in Racers(n) :
          /\ delay[won] \in Times[flows[won]]
          /\ \E w \in Sent(Now, n, <<flows[won]>>, Due.marks, {delay[won]}) : Becomes(w)
    BY DEF Race
  <1>3. PICK w \in Sent(Now, n, <<flows[won]>>, Due.marks, {delay[won]}) : Becomes(w)
    BY <1>2
  <1>4. Here /\ Good(Now, {}) /\ n \in Nodes
    BY <1>1, BeingServed
  <1>5. flows \in Seq(Nodes) /\ won \in DOMAIN flows
    BY <1>2, <1>4, Statics DEF Here, Racers
  <1> HIDE DEF flows
  <1>6. flows[won] \in Nodes
    BY <1>5, SequenceOf DEF Range
  <1>7. delay[won] \in Nat
    BY <1>2, <1>4, <1>6, Statics DEF Here
  <1>8. <<flows[won]>> \in Seq(Nodes) /\ {delay[won]} \subseteq Nat
    BY <1>6, <1>7
  <1>9. Good(w, {})
    BY <1>3, <1>4, <1>8, Sends
  <1>. QED BY <1>1, <1>3, <1>9, BeingServed

\* A boundary that does not interrupt fires
LEMMA NotifyPreserves == IInv /\ Notify => IInv'
  <1> SUFFICES ASSUME IInv, Notify PROVE IInv'
    OBVIOUS
  <1>1. PICK kind \in {"boundary", "multiBoundary", "deadline"} : Serve(kind)
    BY DEF Notify, Notices
  <1>2. /\ Here /\ Good(Now, {}) /\ Due.node \in Nodes
        /\ \A w : Good(w, {}) /\ Becomes(w) => IInv'
    BY <1>1, BeingServed
  <1>3. \/ Becomes(Now)
        \/ \E w \in Forward(Gain(Now, Due.node, 1), Due.node, <<>>) : Becomes(w)
    BY DEF Notify
  <1>4. Good(Gain(Now, Due.node, 1), {})
    BY <1>2, Gaining
  <1>. QED BY <1>2, <1>3, <1>4, Forwards

\* A token comes to a parallel gateway
LEMMA AndPreserves == IInv /\ And => IInv'
  <1> SUFFICES ASSUME IInv, And PROVE IInv'
    OBVIOUS
  <1> DEFINE n == Due.node
             came == WaitingAt(n, Now.k.ands) + 1
             x == [Now EXCEPT !.k.ands = With(@, n, came)]
             y == [Now EXCEPT !.k.ands = Without(@, {n})]
             z == Gain(y, n, Joined(n))
  <1>1. Serve("enter") /\ (Becomes(x) \/ \E w \in Emit(z, n, Out[n], Due.marks) : Becomes(w))
    BY DEF And, ServeNode
  <1>2. Here /\ Good(Now, {}) /\ n \in Nodes
    BY <1>1, BeingServed
  <1>3. Retold(Now, x) /\ Retold(Now, y)
    BY <1>2 DEF Retold, Good, WorkFields
  <1> HIDE DEF x, y
  <1>4. Good(x, {}) /\ Good(y, {})
    BY <1>2, <1>3, Retelling
  <1>5. Good(z, {})
    BY <1>4, Gaining
  <1>6. Out[n] \in Seq(Nodes) /\ {} \subseteq Nat
    BY <1>2, Statics DEF Here
  <1> HIDE DEF z
  <1>7. \A w \in Emit(z, n, Out[n], Due.marks) : Good(w, {})
    BY <1>2, <1>5, <1>6, Sends DEF Emit
  <1>. QED BY <1>1, <1>4, <1>7, BeingServed

\* A token comes to an inclusive gateway
LEMMA OrPreserves == IInv /\ Or => IInv'
  <1> SUFFICES ASSUME IInv, Or PROVE IInv'
    OBVIOUS
  <1> DEFINE n == Due.node
             joins == Incoming[n] > 1 /\ Due.marks # <<>>
             latest == Due.marks[Len(Due.marks)]
             key == <<n, latest>>
             expected == sizes[latest]
             came == WaitingAt(key, Now.k.ors) + 1
             y == [Now EXCEPT !.k.ors = Without(@, {key})]
             w == IF joins THEN Gain(y, n, 1 - expected) ELSE Now
             marks == IF joins THEN SubSeq(Due.marks, 1, Len(Due.marks) - 1) ELSE Due.marks
             x == [Now EXCEPT !.k.ors = With(@, key, came)]
  <1>1. /\ Serve("enter")
        /\ \/ Becomes(x)
           \/ \E z \in Forward(w, n, marks) : Becomes(z)
           \/ \E active \in Choices(Out[n]) :
                 \E z \in Emit(Gain(w, n, Len(active) - 1), n, active, Append(marks, Len(sizes) + 1)) : Becomes(z)
    BY DEF Or, ServeNode
  <1>2. Here /\ Good(Now, {}) /\ n \in Nodes
    BY <1>1, BeingServed
  <1> HIDE DEF key, came
  <1>3. Retold(Now, x) /\ Retold(Now, y)
    BY <1>2 DEF Retold, Good, WorkFields
  <1> HIDE DEF x, y, joins, expected, marks
  <1>4. Good(x, {}) /\ Good(y, {})
    BY <1>2, <1>3, Retelling
  <1>5. Good(w, {})
    BY <1>2, <1>4, Gaining
  <1> HIDE DEF w
  <1>6. CASE Becomes(x)
    BY <1>1, <1>4, <1>6, BeingServed
  <1>7. CASE \E z \in Forward(w, n, marks) : Becomes(z)
    BY <1>1, <1>2, <1>5, <1>7, BeingServed, Forwards
  <1>8. CASE \E active \in Choices(Out[n]) :
                 \E z \in Emit(Gain(w, n, Len(active) - 1), n, active, Append(marks, Len(sizes) + 1)) : Becomes(z)
    <2>1. PICK active \in Choices(Out[n]) :
                 \E z \in Emit(Gain(w, n, Len(active) - 1), n, active, Append(marks, Len(sizes) + 1)) : Becomes(z)
      BY <1>8
    <2> DEFINE g == Gain(w, n, Len(active) - 1)
               flows == Out[n]
    <2>2. active \in Seq(Nodes)
      <3>0. PICK k \in 1 .. Len(flows) :
               \E chosen \in [1 .. k -> DOMAIN flows] : active = [i \in 1 .. k |-> flows[chosen[i]]]
        BY <2>1 DEF Choices
      <3>1. PICK chosen \in [1 .. k -> DOMAIN flows] : active = [i \in 1 .. k |-> flows[chosen[i]]]
        BY <3>0
      <3>2. flows \in Seq(Nodes)
        BY <1>2, Statics DEF Here
      <3> HIDE DEF flows
      <3>3. k \in Nat /\ \A i \in 1 .. k : flows[chosen[i]] \in Nodes
        BY <3>1, <3>2, SequenceOf DEF Range
      <3>. QED BY <3>1, <3>3, IsASeq
    <2>3. PICK z \in Emit(g, n, active, Append(marks, Len(sizes) + 1)) : Becomes(z)
      BY <2>1
    <2>4. Good(g, {}) /\ {} \subseteq Nat
      BY <1>5, Gaining
    <2> HIDE DEF g
    <2>5. Good(z, {})
      BY <1>2, <2>2, <2>3, <2>4, Sends DEF Emit
    <2>. QED BY <1>1, <2>3, <2>5, BeingServed
  <1>. QED BY <1>1, <1>6, <1>7, <1>8

-----------------------------------------------------------------------------
(* Activities *)

\* No events are added
LEMMA NothingMore == \A na : IsMore(<<>>, na)
  BY Empty DEF IsMore

\* A token opens an activity
LEMMA OpenPreserves == IInv /\ Open => IInv'
  <1> SUFFICES ASSUME IInv, Open PROVE IInv'
    OBVIOUS
  <1> DEFINE n == Due.node
             first == Due.loop = 0
             loop == IF ~first THEN Due.loop ELSE IF model.loop[n] > 0 THEN nextAct ELSE 0
             w == [Now EXCEPT !.loops =
                    IF loop = 0 THEN @
                    ELSE IF first THEN With(@, loop, [iteration |-> 1, current |-> nextAct])
                    ELSE [@ EXCEPT ![loop].current = nextAct]]
  <1>1. Serve("enter")
    BY DEF Open, ServeNode
  <1>2. PICK lasts \in Due.times, delay \in Delays(n) :
           \E x \in Arranged(w, IF first THEN Armed("boundary", n, nextAct, delay) ELSE <<>>,
                             Activity(n, Due.marks, lasts, loop, 0)) : Becomes(x)
    BY DEF Open
  <1> DEFINE armed == IF first THEN Armed("boundary", n, nextAct, delay) ELSE <<>>
             new == Activity(n, Due.marks, lasts, loop, 0)
             y == [w EXCEPT !.events = @ \o armed]
  <1>3. PICK x \in Scheduled(y, new) : Becomes(x)
    BY <1>2 DEF Arranged
  <1>4. Here /\ Good(Now, {}) /\ n \in Nodes /\ lasts \in Nat
    BY <1>1, <1>2, BeingServed
  <1> HIDE DEF loop
  <1>5. Retold(Now, w)
    BY <1>4 DEF Retold, Good, WorkFields
  <1> HIDE DEF w
  <1>6. Good(w, {})
    BY <1>4, <1>5, Retelling
  <1>7. IsMore(armed, w.nextAct)
    BY <1>2, <1>4, Arming, NothingMore
  <1> HIDE DEF armed
  <1>8. Good(y, {})
    BY <1>4, <1>6, <1>7, Adding
  <1> HIDE DEF y
  <1>9. IsNew(y, new)
    BY <1>4, ActivityNew
  <1> HIDE DEF new
  <1>10. Good(x, {})
    BY <1>3, <1>4, <1>8, <1>9, Scheduling DEF Started
  <1>. QED BY <1>1, <1>3, <1>10, BeingServed

\* A token opens a multi-instance activity
LEMMA OpenMultiPreserves == IInv /\ OpenMulti => IInv'
  <1> SUFFICES ASSUME IInv, OpenMulti PROVE IInv'
    OBVIOUS
  <1> DEFINE n == Due.node
             e == nextId
  <1>1. Serve("enter") /\ n \in DOMAIN model.instances
    BY DEF OpenMulti, ServeNode
  <1>2. Here /\ Good(Now, {}) /\ n \in Nodes
    BY <1>1, BeingServed
  <1>a. PICK total \in model.instances[n] :
       LET count == IF n \in model.sequential THEN 1 ELSE total
           entry == [case |-> Due.case, node |-> n, marks |-> Due.marks, total |-> total,
                     enabled |-> 0]
           w == [Now EXCEPT !.nextId = @ + 1, !.entries = With(@, e, entry)]
       IN IF total = 0
          THEN \E x \in Forward(Now, n, Due.marks) : Becomes(x)
          ELSE \E delay \in Delays(n) :
               LET armed == [w EXCEPT !.events = Armed("multiBoundary", n, e, delay)]
               IN \E s \in Rounds([w |-> armed, entry |-> e], count, EnableNext) : Becomes(s.w)
    BY DEF OpenMulti
  <1> DEFINE count == IF n \in model.sequential THEN 1 ELSE total
             entry == [case |-> Due.case, node |-> n, marks |-> Due.marks, total |-> total,
                       enabled |-> 0]
             w == [Now EXCEPT !.nextId = @ + 1, !.entries = With(@, e, entry)]
  <1>3. CASE total = 0
    BY <1>a, <1>1, <1>2, <1>3, BeingServed, Forwards
  <1>4. CASE total # 0
    <2>1. PICK delay \in Delays(n) :
               \E s \in Rounds([w |-> [w EXCEPT !.events = Armed("multiBoundary", n, e, delay)], entry |-> e],
                               count, EnableNext) : Becomes(s.w)
      BY <1>a, <1>4
    <2> DEFINE armed == Armed("multiBoundary", n, e, delay)
               y == [w EXCEPT !.events = armed]
    <2>2. count \in Nat
      BY <1>a, <1>1, <1>2, ModelsAssumption DEF Here
    <2>3. DOMAIN w = WorkFields /\ w.k = Now.k /\ w.acts = acts /\ w.nextAct = nextAct /\ w.events = <<>>
          /\ w.pending = pending /\ w.entries = With(entries, e, entry) /\ w.nextId = nextId + 1
      BY DEF Now, WorkFields
    <2>4. /\ Now.k = Now.k /\ Now.acts = acts /\ Now.nextAct = nextAct /\ Now.events = <<>>
          /\ Now.pending = pending /\ Now.entries = entries /\ Now.nextId = nextId
      BY DEF Now
    <2>5. entry.case = Due.case /\ entry.node = n
      OBVIOUS
    <2> HIDE DEF w, entry
    <2>6. Entered(acts, With(entries, e, entry), nextId + 1, {})
      <3> DEFINE N == With(entries, e, entry)
      <3>1. Entered(acts, entries, nextId, {})
        BY <1>2, <2>4 DEF Good
      <3>2. DOMAIN N = DOMAIN entries \cup {e} /\ N[e] = entry /\ \A f \in DOMAIN entries \ {e} : N[f] = entries[f]
        BY DEF With
      <3> HIDE DEF N
      <3>3. e \notin DOMAIN entries /\ e \in Nat \ {0}
        BY <3>1 DEF Entered
      <3>4. \A f \in DOMAIN N : f \in 1 .. nextId /\ N[f].node \in Nodes
        BY <3>1, <3>2, <3>3, <2>5, <1>2 DEF Entered
      <3>. QED BY <3>1, <3>2, <3>3, <3>4 DEF Entered, N
    <2>7. Good(w, {})
      <3>1. DOMAIN w = WorkFields /\ "instant" \in DOMAIN w.k /\ w.k.instant = Now.k.instant
        BY <1>2, <2>3 DEF Good
      <3>. QED BY <1>2, <2>3, <2>4, <2>6, <3>1, Likewise
    <2>8. y = [w EXCEPT !.events = @ \o armed]
      <3>1. Sequence(armed)
        BY <1>2, <2>1, Arming DEF IsMore
      <3> HIDE DEF armed
      <3>2. <<>> \o armed = armed
        BY <3>1, WithNothing
      <3>. QED BY <2>3, <3>2
    <2>9. IsMore(armed, w.nextAct)
      BY <1>2, <2>1, Arming
    <2> HIDE DEF armed
    <2>10. Good(y, {})
      BY <1>2, <2>7, <2>8, <2>9, Adding
    <2>11. y.entries = With(entries, e, entry)
      BY <2>3
    <2>12. HasEntry(y, e)
      BY <2>5, <2>10, <2>11 DEF HasEntry, With
    <2>13. PICK s \in Rounds([w |-> y, entry |-> e], count, EnableNext) : Becomes(s.w)
      BY <2>1 DEF armed
    <2> HIDE DEF y, count
    <2>14. Good(s.w, {})
      BY <1>2, <2>2, <2>12, <2>13, AllEnabled
    <2>. QED BY <1>1, <2>13, <2>14, BeingServed
  <1>. QED BY <1>3, <1>4

-----------------------------------------------------------------------------
(* Activities that end *)

\* What is good but for some activities is good but for more
LEMMA Weaker == \A w, X, Y : Good(w, X) /\ X \subseteq Y => Good(w, Y)
  <1> SUFFICES ASSUME NEW w, NEW X, NEW Y, Good(w, X), X \subseteq Y PROVE Good(w, Y)
    OBVIOUS
  <1>1. DOMAIN w = WorkFields /\ "instant" \in DOMAIN w.k /\ Entered(w.acts, w.entries, w.nextId, X)
    BY DEF Good
  <1>2. Entered(w.acts, w.entries, w.nextId, Y)
    BY <1>1 DEF Entered
  <1>. QED BY <1>1, <1>2, Likewise

\* Error boundaries are nodes
LEMMA ErrorsOf ==
    ASSUME model \in Models, NEW n \in Nodes PROVE Errors(n) \subseteq Nodes
  <1> DEFINE s == model.errors[n]
  <1>1. s \in Seq(Nodes)
    BY Statics
  <1> HIDE DEF s
  <1>2. Range(s) \subseteq Nodes
    BY <1>1, SequenceOf
  <1>. QED BY <1>2 DEF Errors, s

\* An activity completes
LEMMA Completing ==
    ASSUME IInv, Completes
    PROVE  /\ Here /\ Good(Finished, {Due.act}) /\ Due.node \in Nodes
           /\ Due.act \in DOMAIN acts /\ Ended.case = Due.case
           /\ \A w : Good(w, {}) /\ Becomes(w) => IInv'
           /\ Finished.acts = acts /\ Finished.entries = entries /\ Finished.nextId = nextId
  <1>1. Running /\ Due.kind = "done" /\ clock' = Due.t /\ heap # <<>> /\ Due.act \in DOMAIN acts
    BY DEF Completes, Serve, Running, Live
  <1>2. IsEvent(Due, clock, nextAct, Len(cases)) /\ Due \in Range(heap)
    BY <1>1, Popped
  <1>3. Here /\ Good(Now, {Due.act})
    BY <1>1, Starting
  <1>4. \A w : Good(w, {}) /\ Becomes(w) => IInv'
    BY <1>1, <1>3, Becoming
  <1>5. Ended.case = Due.case
    BY <1>1, <1>2 DEF IInv, Ordered, OneEnd, Ended
  <1>6. Retold(Now, Finished) /\ Finished.acts = acts /\ Finished.entries = entries /\ Finished.nextId = nextId
    BY <1>3 DEF Retold, Good, WorkFields, Finished, Now
  <1>7. Good(Finished, {Due.act})
    BY <1>3, <1>6, Retelling
  <1>. QED BY <1>1, <1>2, <1>3, <1>4, <1>5, <1>6, <1>7 DEF IsEvent

\* An activity is done, and its token goes on
LEMMA DonePreserves == IInv /\ Done => IInv'
  <1> SUFFICES ASSUME IInv, Done PROVE IInv'
    OBVIOUS
  <1> DEFINE y == [Finished EXCEPT !.loops = Without(@, {Ended.loop})]
  <1>1. Completes
    BY DEF Done
  <1>a. PICK exit \in {Due.node} \cup Errors(Due.node) :
          \E w \in Released(y, {Due.act}) : \E x \in Forward(w, exit, Ended.marks) : Becomes(x)
    BY DEF Done
  <1>b. PICK w \in Released(y, {Due.act}) : \E x \in Forward(w, exit, Ended.marks) : Becomes(x)
    BY <1>a
  <1>2. Here /\ Good(Finished, {Due.act}) /\ Due.node \in Nodes
    BY <1>1, Completing
  <1>3. Retold(Finished, y)
    BY <1>2 DEF Retold, Good, WorkFields
  <1> HIDE DEF y
  <1>4. Good(y, {Due.act})
    BY <1>2, <1>3, Retelling
  <1>5. Good(w, {})
    BY <1>2, <1>4, <1>b, Releasing DEF GivenBack
  <1>6. exit \in Nodes
    BY <1>2, ErrorsOf DEF Here
  <1>. QED BY <1>1, <1>2, <1>b, <1>5, <1>6, Completing, Forwards

\* An activity is done, and its loop begins again
LEMMA IteratePreserves == IInv /\ Iterate => IInv'
  <1> SUFFICES ASSUME IInv, Iterate PROVE IInv'
    OBVIOUS
  <1>1. Completes
    BY DEF Iterate
  <1>a. PICK w \in Released(Finished, {Due.act}) :
          Becomes([w EXCEPT !.loops[Ended.loop].iteration = @ + 1,
                            !.events = Append(@, Enter(Due.t, Due.case, Due.node, Ended.marks, Times[Due.node],
                                                       EpochAt(w.k, Due.node), Ended.loop))])
    BY DEF Iterate
  <1> DEFINE next == Enter(Due.t, Due.case, Due.node, Ended.marks, Times[Due.node],
                           EpochAt(w.k, Due.node), Ended.loop)
             y == [w EXCEPT !.events = @ \o <<next>>]
             x == [w EXCEPT !.loops[Ended.loop].iteration = @ + 1, !.events = Append(@, next)]
  <1>2. Here /\ Good(Finished, {Due.act}) /\ Due.node \in Nodes
    BY <1>1, Completing
  <1>3. Good(w, {})
    BY <1>2, <1>a, Releasing DEF GivenBack
  <1>4. /\ next.t = Due.t /\ next.kind = "enter" /\ next.node = Due.node /\ next.case = Due.case
        /\ next.times = Times[Due.node]
    BY DEF Enter
  <1> HIDE DEF next
  <1>5. Times[Due.node] \subseteq Nat
    BY <1>2, Statics DEF Here
  <1>6. IsMore(<<next>>, w.nextAct)
    BY <1>2, <1>4, <1>5, Single DEF IsMore, IsEvent, Here
  <1>7. Good(y, {})
    BY <1>2, <1>3, <1>6, Adding
  <1>8. Append(w.events, next) = w.events \o <<next>>
    BY <1>3, Appended DEF Good
  <1>9. Retold(y, x)
    BY <1>3, <1>7, <1>8 DEF Retold, Good, WorkFields
  <1>10. Becomes(x)
    BY <1>a DEF next
  <1> HIDE DEF x, y
  <1>11. Good(x, {})
    BY <1>7, <1>9, Retelling
  <1>. QED BY <1>1, <1>10, <1>11, Completing

\* An instance of a multi-instance activity is done
LEMMA InstanceDonePreserves == IInv /\ InstanceDone => IInv'
  <1> SUFFICES ASSUME IInv, InstanceDone PROVE IInv'
    OBVIOUS
  <1> DEFINE e == Ended.entry
             others == {i \in DOMAIN acts : acts[i].entry = e} \ {Due.act}
  <1>1. Completes /\ e # 0
    BY DEF InstanceDone
  <1>2. /\ Here /\ Good(Finished, {Due.act}) /\ Due.node \in Nodes /\ Due.act \in DOMAIN acts
        /\ Ended.case = Due.case /\ Finished.acts = acts /\ Finished.entries = entries
        /\ Finished.nextId = nextId
    BY <1>1, Completing
  <1>3. PICK w \in Released(Finished, {Due.act}) :
            IF entries[e].enabled < entries[e].total
            THEN \E x \in Enabled(w, e) : Becomes(x)
            ELSE IF others # {} THEN Becomes(w)
            ELSE \E x \in Forward([w EXCEPT !.entries = Without(@, {e})], Due.node, Ended.marks) :
                    Becomes(x)
    BY DEF InstanceDone
  <1>4. GivenBack(Finished, {Due.act}, w)
    BY <1>2, <1>3, Releasing
  <1>5. /\ Good(w, {}) /\ w.entries = entries /\ w.nextId = nextId
        /\ DOMAIN w.acts = DOMAIN acts \ {Due.act}
        /\ \A i \in DOMAIN w.acts : w.acts[i].entry = acts[i].entry
    BY <1>2, <1>4 DEF GivenBack
  <1>6. Entered(acts, entries, nextId, {})
    BY DEF IInv, Ordered
  <1>7. e \in DOMAIN entries /\ entries[e].case = Due.case
    BY <1>1, <1>2, <1>6 DEF Entered, Ended
  <1> HIDE DEF e
  <1>8. CASE entries[e].enabled < entries[e].total
    <2>1. HasEntry(w, e)
      BY <1>5, <1>7 DEF HasEntry
    <2>2. PICK x \in Enabled(w, e) : Becomes(x)
      BY <1>3, <1>8
    <2>3. Good(x, {})
      BY <1>2, <2>1, <2>2, Enabling DEF HasEntry
    <2>. QED BY <1>1, <2>2, <2>3, Completing
  <1>9. CASE ~(entries[e].enabled < entries[e].total) /\ others # {}
    BY <1>1, <1>3, <1>5, <1>9, Completing
  <1>10. CASE ~(entries[e].enabled < entries[e].total) /\ others = {}
    <2> DEFINE N == Without(entries, {e})
               y == [w EXCEPT !.entries = Without(@, {e})]
    <2>1. PICK x \in Forward(y, Due.node, Ended.marks) : Becomes(x)
      BY <1>3, <1>10
    <2>2. DOMAIN N = DOMAIN entries \ {e} /\ \A f \in DOMAIN N : N[f] = entries[f]
      BY DEF Without
    <2> HIDE DEF N
    <2>3. \A i \in DOMAIN w.acts : w.acts[i].entry # e
      BY <1>5, <1>10
    <2>4. Entered(w.acts, entries, nextId, {})
      BY <1>5 DEF Good
    <2>5. Entered(w.acts, N, nextId, {})
      BY <2>2, <2>3, <2>4 DEF Entered
    <2>6. /\ DOMAIN y = WorkFields /\ "instant" \in DOMAIN y.k /\ y.k.instant = w.k.instant
          /\ y.acts = w.acts /\ y.nextAct = w.nextAct /\ y.events = w.events /\ y.pending = w.pending
          /\ y.entries = N /\ y.nextId = nextId
      BY <1>5 DEF Good, WorkFields, N
    <2> HIDE DEF y
    <2>7. Good(y, {})
      BY <1>5, <2>5, <2>6, Likewise
    <2>8. Good(x, {})
      BY <1>2, <2>1, <2>7, Forwards
    <2>. QED BY <1>1, <2>1, <2>8, Completing
  <1>. QED BY <1>8, <1>9, <1>10

\* An instance of a multi-instance activity fails
LEMMA InstanceFailsPreserves == IInv /\ InstanceFails => IInv'
  <1> SUFFICES ASSUME IInv, InstanceFails PROVE IInv'
    OBVIOUS
  <1>1. Completes
    BY DEF InstanceFails
  <1>2. PICK b \in Errors(Due.node) : \E w \in InterruptEntry(Finished, Ended.entry, {Due.act}) :
          \E x \in Forward(w, b, Ended.marks) : Becomes(x)
    BY DEF InstanceFails
  <1>3. PICK w \in InterruptEntry(Finished, Ended.entry, {Due.act}) :
          \E x \in Forward(w, b, Ended.marks) : Becomes(x)
    BY <1>2
  <1>4. Here /\ Good(Finished, {Due.act}) /\ Due.node \in Nodes
    BY <1>1, Completing
  <1>5. b \in Nodes
    BY <1>2, <1>4, ErrorsOf DEF Here
  <1>6. Good(w, {})
    BY <1>3, <1>4, EntryInterrupted
  <1>. QED BY <1>1, <1>3, <1>4, <1>5, <1>6, Forwards, Completing

-----------------------------------------------------------------------------
(* Activities that are interrupted *)

\* A boundary interrupts an activity
LEMMA InterruptPreserves == IInv /\ Interrupt => IInv'
  <1> SUFFICES ASSUME IInv, Interrupt PROVE IInv'
    OBVIOUS
  <1> DEFINE i == Target(Due.act)
             y == [Now EXCEPT !.rows = Logged(@, {i}, "interrupted"), !.loops = Without(@, {Host.loop})]
  <1>1. Serve("boundary")
    BY DEF Interrupt, Interrupts
  <1>2. PICK w \in Released(y, {i}) : \E x \in Forward(w, Due.node, HostMarks) : Becomes(x)
    BY DEF Interrupt
  <1>3. Here /\ Good(Now, {}) /\ Due.node \in Nodes
    BY <1>1, BeingServed
  <1>4. Retold(Now, y)
    BY <1>3 DEF Retold, Good, WorkFields
  <1> HIDE DEF y, i
  <1>5. Good(y, {i})
    BY <1>3, <1>4, Retelling, Weaker
  <1>6. Good(w, {})
    BY <1>2, <1>3, <1>5, Releasing DEF GivenBack
  <1>. QED BY <1>1, <1>2, <1>3, <1>6, BeingServed, Forwards

\* A boundary interrupts a multi-instance activity
LEMMA InterruptMultiPreserves == IInv /\ InterruptMulti => IInv'
  <1> SUFFICES ASSUME IInv, InterruptMulti PROVE IInv'
    OBVIOUS
  <1>1. Serve("multiBoundary")
    BY DEF InterruptMulti, Interrupts
  <1>2. PICK w \in InterruptEntry(Now, Due.act, {}) :
          \E x \in Forward(w, Due.node, entries[Due.act].marks) : Becomes(x)
    BY DEF InterruptMulti
  <1>3. Here /\ Good(Now, {}) /\ Due.node \in Nodes
    BY <1>1, BeingServed
  <1>4. Good(w, {})
    BY <1>2, <1>3, EntryInterrupted
  <1>. QED BY <1>1, <1>2, <1>3, <1>4, BeingServed, Forwards

\* A boundary interrupts a sub-process
LEMMA InterruptAtDeadlinePreserves == IInv /\ InterruptAtDeadline => IInv'
  <1> SUFFICES ASSUME IInv, InterruptAtDeadline PROVE IInv'
    OBVIOUS
  <1> DEFINE u == HostOf(Due.node)
  <1>1. Serve("deadline")
    BY DEF InterruptAtDeadline, Interrupts
  <1>2. PICK w \in InterruptSubprocess(Now, u, Due.node) :
          \E x \in Forward(w, Due.node, Now.k.subs[u].marks) : Becomes(x)
    BY DEF InterruptAtDeadline
  <1>3. Here /\ Good(Now, {}) /\ Due.node \in Nodes
    BY <1>1, BeingServed
  <1>4. Good(w, {})
    BY <1>2, <1>3, Interrupting
  <1>. QED BY <1>1, <1>2, <1>3, <1>4, BeingServed, Forwards

\* A token comes to a terminate end, which ends its case
LEMMA TerminatePreserves == IInv /\ Terminate => IInv'
  <1> SUFFICES ASSUME IInv, Terminate PROVE IInv'
    OBVIOUS
  <1> DEFINE mine == {i \in DOMAIN acts : acts[i].case = Due.case}
             y == Killed(mine)
             S == {acts[i].entry : i \in mine}
             N == Without(entries, S)
  <1>1. Serve("enter")
    BY DEF Terminate, ServeNode
  <1>2. PICK w \in Released(y, mine) : Becomes(w)
    BY DEF Terminate
  <1>3. Here /\ Good(Now, {})
    BY <1>1, BeingServed
  <1>4. Entered(acts, entries, nextId, {})
    BY DEF IInv, Ordered
  <1>5. Entered(acts, N, nextId, mine)
    <2>1. DOMAIN N = DOMAIN entries \ S /\ \A f \in DOMAIN N : N[f] = entries[f]
      BY DEF Without
    <2> HIDE DEF N
    <2>2. \A i \in DOMAIN acts \ mine : acts[i].entry # 0 => acts[i].entry \notin S
      BY <1>4 DEF Entered
    <2> HIDE DEF mine, S
    <2>. QED BY <2>1, <2>2, <1>4 DEF Entered
  <1> HIDE DEF mine, S
  <1>6. /\ DOMAIN y = WorkFields /\ "instant" \in DOMAIN y.k /\ y.k.instant = Now.k.instant
        /\ y.acts = Now.acts /\ y.nextAct = Now.nextAct /\ y.events = Now.events /\ y.pending = Now.pending
        /\ y.entries = N /\ y.nextId = nextId /\ y.acts = acts
    BY <1>3 DEF Killed, Good, Now, WorkFields, S
  <1> HIDE DEF y, N
  <1>7. Good(y, mine)
    BY <1>3, <1>5, <1>6, Likewise
  <1>8. Good(w, {})
    BY <1>2, <1>3, <1>7, Releasing DEF GivenBack
  <1>. QED BY <1>1, <1>2, <1>8, BeingServed

-----------------------------------------------------------------------------
(* Arrivals and rises *)

\* A case arrives, and its first token and the next arrival come into the heap
LEMMA ArrivePreserves == IInv /\ Arrive => IInv'
  <1> SUFFICES ASSUME IInv, Arrive PROVE IInv'
    OBVIOUS
  <1> DEFINE n == Due.node
             c == Len(cases) + 1
             t == Due.t
             enter == Enter(t, c, n, <<>>, Times[n], 0, 0)
             next(gap) == IF t + gap < TStop THEN <<Event(t + gap, "arrive", 0, n, 0)>> ELSE <<>>
             h == Tail(heap)
             E == Range(heap)
             F == Range(h)
             k == [tokens |-> 1, alive |-> TRUE, endId |-> NoNode,
                   ands |-> << >>, ors |-> << >>, instant |-> t, events |-> 0,
                   subs |-> [u \in Subs |-> [tokens |-> IF u \in Range(Inside[n]) THEN 1 ELSE 0,
                                             instance |-> 0, marks |-> <<>>, epoch |-> 0]]]
             S == Append(cases, k)
  <1>1. /\ outcome = "running" /\ heap # <<>> /\ t < TStop /\ Due.kind = "arrive" /\ clock' = t /\ cases' = S
        /\ \/ heap' \in PushedAll(h, <<enter>>)
           \/ \E gap \in model.intervals[n] : heap' \in PushedAll(h, <<enter>> \o next(gap))
        /\ model' = model /\ acts' = acts /\ entries' = entries /\ nextAct' = nextAct /\ nextId' = nextId
        /\ pending' = pending /\ outcome' = "running"
    BY DEF Arrive, Serve, Running, opened
  <1>2. /\ t \in Nat /\ IsEvent(Due, clock, nextAct, Len(cases))
        /\ E = {Due} \cup F /\ Sequence(h) /\ Once(h) /\ Sorted(h)
    BY <1>1, Popped
  <1>3. /\ Events(E, t, nextAct, Len(cases)) /\ Woken(acts, E, pending, t) /\ LookedAt(acts, E, t)
    BY <1>1, TimePasses
  <1>4. /\ model \in Models /\ Sequence(cases) /\ \A i \in DOMAIN cases : "instant" \in DOMAIN cases[i]
        /\ Acts(acts, nextAct, Len(cases)) /\ Entered(acts, entries, nextId, {}) /\ OneEnd(acts, E, {})
    BY DEF IInv, Ordered
  <1>5. n \in Range(Starts) /\ n \in Nodes /\ Times[n] \subseteq Nat /\ model.intervals[n] \subseteq Nat
    BY <1>1, <1>2, <1>4, Statics DEF IsEvent
  <1>6. /\ enter.t = t /\ enter.kind = "enter" /\ enter.case = c /\ enter.node = n /\ enter.times = Times[n]
    BY DEF Enter
  <1>7. k.instant = t /\ "instant" \in DOMAIN k
    OBVIOUS
  <1> HIDE DEF enter, k
  <1>8. /\ Len(cases) \in Nat /\ Sequence(S) /\ Len(S) = c /\ DOMAIN S = 1 .. c /\ S[c] = k
        /\ \A i \in 1 .. Len(cases) : S[i] = cases[i]
        /\ DOMAIN cases = 1 .. Len(cases)
    <2> DEFINE b == <<k>>
               z == cases \o b
    <2>1. S = z
      BY <1>4, Appended
    <2>2. Sequence(b) /\ Len(b) = 1 /\ b[1] = k
      BY Single
    <2> HIDE DEF S, b
    <2>3. /\ Sequence(z) /\ Len(cases) \in Nat /\ Len(z) = Len(cases) + Len(b)
          /\ DOMAIN cases = 1 .. Len(cases) /\ DOMAIN z = 1 .. Len(cases) + Len(b)
          /\ \A i \in 1 .. Len(cases) : z[i] = cases[i]
          /\ \A i \in 1 .. Len(b) : z[Len(cases) + i] = b[i]
      <3>1. Sequence(cases) /\ Sequence(b)
        BY <1>4, <2>2
      <3>. QED BY ONLY <3>1, Concat
    <2> HIDE DEF z
    <2>4. z[c] = k
      BY <2>2, <2>3
    <2>. QED BY <2>1, <2>2, <2>3, <2>4
  <1> HIDE DEF S
  <1>9. Happened(S, t) /\ \A i \in DOMAIN S : "instant" \in DOMAIN S[i]
    BY <1>4, <1>7, <1>8 DEF Happened
  <1>10. PICK ev : /\ heap' \in PushedAll(h, ev) /\ Sequence(ev)
                   /\ \A e \in Range(ev) : IsEvent(e, t, nextAct, c) /\ e.kind \in {"enter", "arrive"}
    <2>1. Sequence(<<enter>>) /\ Range(<<enter>>) = {enter} /\ IsEvent(enter, t, nextAct, c)
      BY <1>2, <1>5, <1>6, <1>8, Single DEF IsEvent
    <2>2. CASE heap' \in PushedAll(h, <<enter>>)
      BY <2>1, <2>2, <1>6
    <2>3. ASSUME NEW gap \in model.intervals[n], heap' \in PushedAll(h, <<enter>> \o next(gap))
          PROVE  \E ev : /\ heap' \in PushedAll(h, ev) /\ Sequence(ev)
                         /\ \A e \in Range(ev) : IsEvent(e, t, nextAct, c) /\ e.kind \in {"enter", "arrive"}
      <3> DEFINE e1 == Event(t + gap, "arrive", 0, n, 0)
                 s == next(gap)
      <3>1. e1.t = t + gap /\ e1.kind = "arrive" /\ e1.node = n /\ e1.case = 0
        BY DEF Event
      <3>2. IsEvent(e1, t, nextAct, c)
        BY <3>1, <1>2, <1>5, <2>3 DEF IsEvent
      <3>3. s = <<e1>> \/ s = <<>>
        OBVIOUS
      <3> HIDE DEF e1
      <3>4. Sequence(s) /\ Range(s) \subseteq {e1}
        BY <3>3, Single, Empty
      <3> HIDE DEF s
      <3>5. Sequence(<<enter>> \o s) /\ Range(<<enter>> \o s) = {enter} \cup Range(s)
        BY ONLY <2>1, <3>4, Concat
      <3>6. \A e \in Range(<<enter>> \o s) : IsEvent(e, t, nextAct, c) /\ e.kind \in {"enter", "arrive"}
        BY <3>1, <3>2, <3>4, <3>5, <2>1, <1>6
      <3>. QED BY <3>5, <3>6, <2>3 DEF s
    <2>. QED BY <1>1, <2>2, <2>3
  <1> DEFINE G == Range(ev)
  <1>11. Timed(F \cup G)
    BY <1>2, <1>3, <1>10 DEF Timed, Events, IsEvent
  <1> HIDE DEF h, E, F, t, c
  <1>12. Once(h \o ev)
    <2>1. Once(ev) /\ \A e \in F, f \in G : Differ(e, f)
      BY <1>10, SequenceOf DEF Once, Differ, Sequence, Range
    <2>. QED BY ONLY <1>2, <1>10, <2>1, OnceConcat DEF F
  <1>13. Sequence(heap') /\ Range(heap') = F \cup G /\ Sorted(heap') /\ Once(heap')
    BY ONLY <1>2, <1>10, <1>11, <1>12, PushedAllOf DEF F
  <1>14. PICK g : g = heap'
    OBVIOUS
  <1>15. Sequence(g) /\ Range(g) = F \cup G /\ Sorted(g) /\ Once(g)
    BY <1>13, <1>14
  <1> HIDE DEF G
  <1>16. Events(F \cup G, t, nextAct, c)
    BY <1>2, <1>3, <1>8, <1>10 DEF Events, IsEvent, c, G
  <1>17. Acts(acts, nextAct, c)
    BY <1>4, <1>8 DEF Acts, IsAct, c
  <1>18. OneEnd(acts, F, {}) /\ Woken(acts, F, pending, t) /\ LookedAt(acts, F, t)
    BY <1>1, <1>2, <1>3, <1>4 DEF OneEnd, Woken, LookedAt
  <1>19. \A e \in G : e.kind \notin {"done", "capacity"}
    BY <1>10 DEF G
  <1>20. OneEnd(acts, F \cup G, {}) /\ Woken(acts, F \cup G, pending, t) /\ LookedAt(acts, F \cup G, t)
    BY ONLY <1>18, <1>19, MoreEvents
  <1>21. Ordered(g, acts, nextAct, entries, nextId, pending, t, Len(S)) /\ LookedAt(acts, Range(g), t)
    BY <1>4, <1>8, <1>15, <1>16, <1>17, <1>20 DEF Ordered
  <1>. QED BY <1>1, <1>2, <1>4, <1>8, <1>9, <1>14, <1>21, NextInvariant

\* A pool rises: the requests that it stops are looked at again, and its next rise is arranged
LEMMA CapacityPreserves == IInv /\ Capacity => IInv'
  <1> SUFFICES ASSUME IInv, Capacity PROVE IInv'
    OBVIOUS
  <1> DEFINE p == Due.node
             t == Due.t
             h == Tail(heap)
             E == Range(heap)
             F == Range(h)
             M == DemandsOn({p})
  <1>1. /\ outcome = "running" /\ heap # <<>> /\ t < TStop /\ Due.kind = "capacity" /\ clock' = t
        /\ WaitsOnPool(p)
        /\ model' = model /\ entries' = entries /\ nextAct' = nextAct /\ nextId' = nextId
        /\ cases' = cases /\ outcome' = "running"
    BY DEF Capacity, Serve, Running, Live
  <1>a. PICK d \in Drained(acts, M) :
           LET rise == IF \E i \in Waiting(d.acts) : p \in PoolsOf(d.acts[i].node)
                       THEN RiseEvents({p}, pending \ {p}) ELSE <<>>
           IN /\ acts' = d.acts
              /\ heap' \in PushedAll(h, d.events \o rise)
              /\ pending' = IF rise = <<>> THEN pending \ {p} ELSE pending
    BY DEF Capacity
  <1> DEFINE B == d.acts
             D == Range(d.events)
             waits == \E i \in Waiting(B) : p \in PoolsOf(B[i].node)
             rise == IF waits THEN RiseEvents({p}, pending \ {p}) ELSE <<>>
             P == IF rise = <<>> THEN pending \ {p} ELSE pending
             R == Range(rise)
  <1>2. /\ t \in Nat /\ IsEvent(Due, clock, nextAct, Len(cases))
        /\ E = {Due} \cup F /\ Sequence(h) /\ Once(h) /\ Sorted(h) /\ Due \in E
        /\ \A e \in F : Differ(Due, e)
    BY <1>1, Popped
  <1>3. /\ Events(E, t, nextAct, Len(cases)) /\ Woken(acts, E, pending, t) /\ LookedAt(acts, E, t)
    BY <1>1, TimePasses
  <1>4. /\ model \in Models /\ Sequence(cases) /\ \A i \in DOMAIN cases : "instant" \in DOMAIN cases[i]
        /\ Acts(acts, nextAct, Len(cases)) /\ Entered(acts, entries, nextId, {}) /\ OneEnd(acts, E, {})
    BY DEF IInv, Ordered
  <1>5. p \in Pools
    BY <1>1, <1>2 DEF IsEvent
  <1>6. p \in pending
    BY <1>1, <1>2, <1>3, <1>5 DEF Woken
  <1>7. Settled(acts, M, nextAct, d)
    BY <1>2, <1>4, <1>a, Drains
  <1>8. OneEnd(acts, F, {})
    BY <1>1, <1>2, <1>4 DEF OneEnd
  <1>9. Comes(acts, M, nextAct, d, F)
    BY <1>4, <1>7, <1>8, Settling
  <1> HIDE DEF E, F, h, t, M
  <1>10. /\ OneEnd(B, F \cup D, {}) /\ Events(D, t, nextAct, Len(cases))
         /\ \A e \in F, f \in D : Differ(e, f)
         /\ (\A i \in Waiting(acts) : \A q \in DemandsOf(acts[i].node) :
                q \notin M /\ Fits(acts, q, t) => \E e \in F : e.kind = "capacity" /\ e.t = t /\ e.node \in q)
            => LookedAt(B, F \cup D, t)
    BY <1>9 DEF Comes, t
  <1>11. /\ Acts(B, nextAct, Len(cases)) /\ DOMAIN B = DOMAIN acts
         /\ \A i \in DOMAIN acts : /\ B[i].node = acts[i].node /\ B[i].case = acts[i].case
                                   /\ B[i].entry = acts[i].entry
         /\ Sequence(d.events) /\ Once(d.events) /\ \A e \in D : e.kind = "done" /\ e.act \in Waiting(acts) \ Waiting(B)
         /\ Waiting(B) \subseteq Waiting(acts)
    BY <1>7 DEF Settled
  <1>12. \A i \in Waiting(acts) : i \in DOMAIN acts /\ acts[i].node \in Nodes
    BY <1>4 DEF Waiting, Acts, IsAct
  <1>13. /\ Sequence(rise) /\ Once(rise)
         /\ \A e \in R : e.kind = "capacity" /\ e.t \in Nat /\ t <= e.t /\ e.node = p
                         /\ \A u \in Rises(p, t) : e.t <= u
         /\ waits /\ Rises(p, t) # {} => \E e \in R : e.node = p
    <2> DEFINE r == RiseEvents({p}, pending \ {p})
    <2>1. Rising({p}, pending \ {p}, r)
      <3>1. {p} \subseteq Pools
        BY <1>5
      <3>. QED BY <3>1, <1>2, <1>4, RisesAhead DEF t
    <2> HIDE DEF r, waits
    <2>2. /\ Sequence(r) /\ Once(r)
          /\ \A e \in Range(r) : e.kind = "capacity" /\ e.t \in Nat /\ t <= e.t /\ e.node = p
                                 /\ \A u \in Rises(p, t) : e.t <= u
          /\ Rises(p, t) # {} => \E e \in Range(r) : e.node = p
      BY <2>1 DEF Rising, t
    <2>3. CASE waits
      BY <2>2, <2>3 DEF r
    <2>4. CASE ~waits
      <3>1. rise = <<>>
        BY <2>4
      <3> HIDE DEF rise
      <3>. QED BY <3>1, <2>4, Empty, OnceEmpty
    <2>. QED BY <2>3, <2>4
  <1>14. R = {} <=> rise = <<>>
    <2> HIDE DEF rise
    <2>1. DOMAIN rise = 1 .. Len(rise) /\ Len(rise) \in Nat
      BY <1>13, SequenceOf DEF Sequence
    <2>2. rise # <<>> => Len(rise) # 0
      BY <1>13, EmptySeq, LenProperties DEF Sequence
    <2>3. rise # <<>> => rise[1] \in R
      BY <2>1, <2>2 DEF Range
    <2>. QED BY <2>3, Empty
  <1> HIDE DEF rise, R, B, D
  <1>15. /\ acts' = B /\ heap' \in PushedAll(h, d.events \o rise) /\ pending' = P
    BY <1>a DEF rise, B
  <1>16. /\ Sequence(d.events \o rise) /\ Range(d.events \o rise) = D \cup R
         /\ Once(h \o (d.events \o rise))
    <2> DEFINE s == d.events \o rise
    <2>1. Sequence(s) /\ Range(s) = D \cup R
      BY ONLY <1>11, <1>13, Concat DEF D, R
    <2>2. \A e \in D, f \in R : Differ(e, f)
      BY <1>11, <1>13 DEF Differ
    <2>3. Once(s)
      BY ONLY <1>11, <1>13, <2>2, OnceConcat DEF D, R
    <2> HIDE DEF s
    <2>4. \A e \in F, f \in D \cup R : Differ(e, f)
      BY <1>1, <1>2, <1>10, <1>13 DEF Differ
    <2>5. Once(h \o s)
      BY ONLY <1>2, <2>1, <2>3, <2>4, OnceConcat DEF F
    <2>. QED BY <2>1, <2>5 DEF s
  <1> DEFINE G == F \cup (D \cup R)
  <1>17. Events(G, t, nextAct, Len(cases))
    BY <1>2, <1>3, <1>5, <1>10, <1>13 DEF Events, IsEvent
  <1>18. Timed(G)
    BY <1>17 DEF Timed, Events, IsEvent
  <1> HIDE DEF G
  <1>19. Sequence(heap') /\ Range(heap') = G /\ Sorted(heap') /\ Once(heap')
    BY ONLY <1>2, <1>15, <1>16, <1>18, PushedAllOf DEF F, G
  <1>20. PICK g : g = heap'
    OBVIOUS
  <1>21. Sequence(g) /\ Range(g) = G /\ Sorted(g) /\ Once(g)
    BY <1>19, <1>20
  <1>22. OneEnd(B, G, {})
    BY <1>10, <1>13 DEF OneEnd, G
  <1>23. Entered(B, entries, nextId, {})
    BY <1>4, <1>11 DEF Entered
  <1>24. Woken(B, G, P, t)
    <2>1. \A e \in D : e.kind = "done"
      BY <1>11
    <2>2. ASSUME NEW q \in Pools PROVE q \in P <=> \E e \in G : e.kind = "capacity" /\ e.node = q
      <3>1. q \in pending <=> \E e \in E : e.kind = "capacity" /\ e.node = q
        BY <1>3 DEF Woken
      <3>2. CASE q = p
        <4>1. \A e \in F : ~(e.kind = "capacity" /\ e.node = p)
          BY <1>1, <1>2 DEF Differ
        <4>2. (\E e \in G : e.kind = "capacity" /\ e.node = p) <=> R # {}
          BY <2>1, <4>1, <1>13 DEF G
        <4>. QED BY <3>2, <4>2, <1>6, <1>14
      <3>3. CASE q # p
        <4>1. (\E e \in G : e.kind = "capacity" /\ e.node = q) <=> \E e \in F : e.kind = "capacity" /\ e.node = q
          BY <2>1, <3>3, <1>13 DEF G
        <4>2. (\E e \in E : e.kind = "capacity" /\ e.node = q) <=> \E e \in F : e.kind = "capacity" /\ e.node = q
          BY <3>3, <1>2
        <4>. QED BY <3>1, <3>3, <4>1, <4>2
      <3>. QED BY <3>2, <3>3
    <2>3. ASSUME NEW e \in G, e.kind = "capacity", NEW u \in Rises(e.node, t) PROVE e.t <= u
      BY <2>1, <2>3, <1>2, <1>3, <1>13 DEF Woken, G
    <2>4. ASSUME NEW i \in Waiting(B), NEW q \in PoolsOf(B[i].node), Rises(q, t) # {} PROVE q \in P
      <3>1. i \in Waiting(acts) /\ B[i].node = acts[i].node
        BY <1>11, <1>12
      <3>2. q \in pending
        BY <2>4, <3>1, <1>3 DEF Woken
      <3>3. CASE q = p
        <4>1. waits
          BY <2>4, <3>3
        <4>2. R # {}
          BY <4>1, <2>4, <3>3, <1>13
        <4>. QED BY <3>2, <4>2, <1>14
      <3>. QED BY <3>2, <3>3
    <2>. QED BY <2>2, <2>3, <2>4 DEF Woken
  <1>25. LookedAt(B, G, t)
    <2>1. ASSUME NEW i \in Waiting(acts), NEW q \in DemandsOf(acts[i].node), q \notin M, Fits(acts, q, t)
          PROVE  \E e \in F : e.kind = "capacity" /\ e.t = t /\ e.node \in q
      <3>1. PICK e \in E : e.kind = "capacity" /\ e.t = t /\ e.node \in q
        BY <2>1, <1>3 DEF LookedAt
      <3>2. p \notin q
        BY <2>1, <1>12 DEF M, DemandsOn
      <3>. QED BY <3>1, <3>2, <1>2
    <2>2. LookedAt(B, F \cup D, t)
      BY <2>1, <1>10
    <2>. QED BY <2>2 DEF LookedAt, G
  <1>26. Ordered(g, B, nextAct, entries, nextId, P, t, Len(cases)) /\ LookedAt(B, Range(g), t)
    BY <1>11, <1>17, <1>21, <1>22, <1>23, <1>24, <1>25 DEF Ordered
  <1>27. DOMAIN B # {}
    BY <1>1, <1>11, <1>12 DEF WaitsOnPool
  <1> HIDE DEF P
  <1>28. clock' = t
    BY <1>1
  <1>. QED BY <1>1, <1>2, <1>4, <1>15, <1>20, <1>26, <1>27, <1>28, NextInvariant

-----------------------------------------------------------------------------
(* The end of a replication *)

\* Too many events happen at one instant, and the replication is given up
LEMMA ExceedPreserves == IInv /\ Exceed => IInv'
  <1> SUFFICES ASSUME IInv, Exceed PROVE IInv'
    OBVIOUS
  <1>1. /\ Running /\ clock' = Due.t /\ outcome' = "limit"
        /\ UNCHANGED <<model, heap, cases, acts, entries, nextAct, nextId, pending>>
    BY DEF Exceed, Serve, opened
  <1>2. heap # <<>> /\ Due.t \in Nat
    BY <1>1, Popped DEF Running
  <1>3. Events(Range(heap), Due.t, nextAct, Len(cases)) /\ Woken(acts, Range(heap), pending, Due.t)
    BY <1>2, TimePasses
  <1>4. /\ model \in Models /\ Sequence(cases) /\ \A c \in DOMAIN cases : "instant" \in DOMAIN cases[c]
        /\ Ordered(heap, acts, nextAct, entries, nextId, pending, Due.t, Len(cases))
    BY <1>3 DEF IInv, Ordered
  <1>. QED BY <1>1, <1>2, <1>4, NextInvariant

\* With nothing ahead and nobody served every part of the invariant holds
LEMMA NothingAhead ==
    ASSUME IInv, NEW t
    PROVE  Ordered(<<>>, <<>>, nextAct, entries, nextId, {}, t, Len(cases))
  <1>1. Sequence(<<>>) /\ Range(<<>>) = {} /\ Sorted(<<>>) /\ Once(<<>>) /\ DOMAIN <<>> = {}
    BY Empty, OnceEmpty DEF Sorted
  <1>2. Acts(acts, nextAct, Len(cases)) /\ Entered(acts, entries, nextId, {})
    BY DEF IInv, Ordered
  <1>3. Acts(<<>>, nextAct, Len(cases)) /\ Entered(<<>>, entries, nextId, {})
    BY <1>1, <1>2 DEF Acts, Entered
  <1>4. Waiting(<<>>) = {}
    BY <1>1 DEF Waiting
  <1>5. Events({}, t, nextAct, Len(cases)) /\ OneEnd(<<>>, {}, {}) /\ Woken(<<>>, {}, {}, t)
    BY <1>1, <1>4 DEF Events, OneEnd, Woken
  <1>. QED BY <1>1, <1>3, <1>5 DEF Ordered

\* With nothing ahead nobody is served, so that all that wait would fit
LEMMA NobodyLeft ==
    ASSUME IInv, outcome = "running", heap = <<>>
    PROVE  DOMAIN acts = {}
  <1> SUFFICES ASSUME NEW i \in DOMAIN acts PROVE FALSE
    OBVIOUS
  <1>1. Range(heap) = {}
    BY Empty
  <1>2. /\ model \in Models /\ clock \in Nat /\ Acts(acts, nextAct, Len(cases))
        /\ OneEnd(acts, {}, {}) /\ LookedAt(acts, {}, clock)
    BY <1>1 DEF IInv, Ordered
  <1>3. \A j \in DOMAIN acts : j \in Waiting(acts)
    BY <1>2 DEF OneEnd
  <1>4. ASSUME NEW p PROVE InUse(acts, p) = 0
    <2>1. {j \in DOMAIN acts : acts[j].held # 0 /\ p \in Needs[acts[j].node][acts[j].held]} = {}
      BY <1>3 DEF Waiting
    <2>. QED BY <2>1, FS_EmptySet DEF InUse
  <1>5. acts[i].node \in Nodes /\ Needs[acts[i].node] # <<>>
    BY <1>2, <1>3 DEF Acts, IsAct, Waiting
  <1>6. PICK d \in DemandsOf(acts[i].node) : d \subseteq Pools
    BY <1>2, <1>5, Needed
  <1>7. Fits(acts, d, clock)
    BY <1>2, <1>4, <1>6, UnitsOf DEF Fits
  <1>. QED BY <1>2, <1>3, <1>6, <1>7 DEF LookedAt

\* The replication is over: the state is thrown away but for what is reported
LEMMA OverPreserves ==
    ASSUME IInv, NEW how, Over(how), how # "running", clock' \in Nat,
           how = "drained" /\ cases # <<>> => Happened(cases, clock')
    PROVE  IInv'
  <1>1. /\ outcome' = how /\ acts' = <<>> /\ heap' = <<>> /\ pending' = {}
        /\ model' = model /\ cases' = cases /\ entries' = entries /\ nextAct' = nextAct /\ nextId' = nextId
    BY DEF Over
  <1>2. PICK t \in Nat : clock' = t
    OBVIOUS
  <1>3. how = "drained" /\ cases # <<>> => Happened(cases, t)
    BY <1>2
  <1>4. Ordered(<<>>, <<>>, nextAct, entries, nextId, {}, t, Len(cases))
    BY NothingAhead
  <1>5. model \in Models /\ Sequence(cases) /\ \A c \in DOMAIN cases : "instant" \in DOMAIN cases[c]
    BY DEF IInv
  <1>. QED BY <1>1, <1>2, <1>3, <1>4, <1>5, NextInvariant

\* It is over because nothing is ahead
LEMMA DrainPreserves == IInv /\ Drain => IInv'
  <1> SUFFICES ASSUME IInv, Drain PROVE IInv'
    OBVIOUS
  <1>1. outcome = "running" /\ heap = <<>> /\ Over("drained") /\ clock' = clock
    BY DEF Drain
  <1>2. DOMAIN acts = {}
    BY <1>1, NobodyLeft
  <1>3. clock' \in Nat /\ (cases # <<>> => Happened(cases, clock'))
    BY <1>1, <1>2 DEF IInv
  <1>. QED BY <1>1, <1>3, OverPreserves

\* It is over because the next event is due at tStop or later
LEMMA StopPreserves == IInv /\ Stop => IInv'
  <1> SUFFICES ASSUME IInv, Stop PROVE IInv'
    OBVIOUS
  <1>1. Over("stopped") /\ clock' \in Nat
    BY Statics DEF Stop, IInv
  <1>. QED BY <1>1, OverPreserves

\* It is over because a case has too many events
LEMMA AbortPreserves == IInv /\ Abort => IInv'
  <1> SUFFICES ASSUME IInv, Abort PROVE IInv'
    OBVIOUS
  <1>1. Over("cancelled") /\ (clock' = clock \/ (Running /\ clock' = Due.t))
    BY DEF Abort
  <1>2. clock' \in Nat
    BY <1>1, Popped DEF IInv, Running
  <1>. QED BY <1>1, <1>2, OverPreserves

-----------------------------------------------------------------------------

\* The invariant holds at first
LEMMA InitEstablishes == Init => IInv
  <1> SUFFICES ASSUME Init PROVE IInv
    OBVIOUS
  <1> DEFINE e1(i) == Event(0, "arrive", 0, Starts[i], 0)
             s == [i \in DOMAIN Starts |-> e1(i)]
  <1>1. /\ model \in Models /\ clock = 0 /\ (heap = s \/ heap = <<>>)
        /\ cases = <<>> /\ acts = <<>> /\ entries = <<>> /\ nextAct = 1 /\ nextId = 1 /\ pending = {}
        /\ outcome = "running"
    BY DEF Init
  <1>2. Starts \in Seq(Nodes) /\ DOMAIN Starts = 1 .. Len(Starts) /\ Len(Starts) \in Nat
        /\ \A i \in DOMAIN Starts : Starts[i] \in Range(Starts) /\ Starts[i] \in Nodes
    <2>1. Starts \in Seq(Nodes)
      BY <1>1, Statics
    <2>2. DOMAIN Starts = 1 .. Len(Starts) /\ Len(Starts) \in Nat
      BY <2>1, SequenceOf
    <2>3. \A i \in 1 .. Len(Starts) : Starts[i] \in Nodes
      BY <2>1, ElementOfSeq
    <2>. QED BY <2>1, <2>2, <2>3 DEF Range
  <1>3. \A i \in DOMAIN Starts : e1(i).t = 0 /\ e1(i).kind = "arrive" /\ e1(i).node = Starts[i]
    BY DEF Event
  <1> HIDE DEF e1
  <1>4. /\ Sequence(s) /\ Sorted(s) /\ Once(s)
        /\ \A e \in Range(s) : e.t = 0 /\ e.kind = "arrive" /\ e.node \in Range(Starts) /\ e.node \in Nodes
    <2>1. DOMAIN s = 1 .. Len(Starts) /\ \A i \in DOMAIN s : s[i] = e1(i) /\ s[i] \in Range(s)
      BY <1>2 DEF Range
    <2>2. s = [i \in 1 .. Len(Starts) |-> s[i]]
      BY <2>1
    <2> HIDE DEF s
    <2>3. Sequence(s)
      BY <1>2, <2>1, <2>2, IsASeq DEF Sequence
    <2>4. \A e \in Range(s) : \E i \in DOMAIN Starts : e = e1(i)
      BY <1>2, <2>1 DEF Range
    <2>5. Sorted(s) /\ Once(s)
      BY <1>2, <1>3, <2>1 DEF Sorted, Once, Differ
    <2>. QED BY <1>2, <1>3, <2>3, <2>4, <2>5
  <1> HIDE DEF s
  <1>5. /\ Sequence(heap) /\ Sorted(heap) /\ Once(heap)
        /\ \A e \in Range(heap) : e.t = 0 /\ e.kind = "arrive" /\ e.node \in Range(Starts) /\ e.node \in Nodes
    <2>1. Sequence(<<>>) /\ Sorted(<<>>) /\ Once(<<>>) /\ Range(<<>>) = {}
      BY Empty, OnceEmpty DEF Sorted
    <2>. QED BY <1>1, <1>4, <2>1
  <1>6. DOMAIN acts = {} /\ DOMAIN entries = {} /\ Waiting(acts) = {}
    BY <1>1 DEF Waiting
  <1>7. /\ Acts(acts, nextAct, Len(cases)) /\ Entered(acts, entries, nextId, {})
        /\ Events(Range(heap), clock, nextAct, Len(cases))
        /\ OneEnd(acts, Range(heap), {}) /\ Woken(acts, Range(heap), pending, clock)
        /\ LookedAt(acts, Range(heap), clock)
    BY <1>1, <1>5, <1>6 DEF Acts, Entered, Events, IsEvent, OneEnd, Woken, LookedAt
  <1>8. Sequence(cases)
    BY <1>1, Empty
  <1>9. \A c \in DOMAIN cases : "instant" \in DOMAIN cases[c]
    BY <1>1
  <1>. QED BY <1>1, <1>5, <1>7, <1>8, <1>9 DEF IInv, Ordered

\* Every step keeps it, one lemma for each action above
LEMMA NextPreserves == IInv /\ [Next]_vars => IInv'
  <1> SUFFICES ASSUME IInv, [Next]_vars PROVE IInv'
    OBVIOUS
  <1>1. CASE UNCHANGED vars
    <2>1. /\ UNCHANGED <<model, clock, heap, cases, acts, entries, nextAct, nextId, pending, outcome>>
      BY <1>1 DEF vars, opened
    <2>2. model' = model /\ clock' = clock /\ heap' = heap /\ cases' = cases /\ acts' = acts /\ entries' = entries
          /\ nextAct' = nextAct /\ nextId' = nextId /\ pending' = pending /\ outcome' = outcome
      BY <2>1
    <2>3. /\ model \in Models /\ clock \in Nat
          /\ Sequence(cases) /\ \A c \in DOMAIN cases : "instant" \in DOMAIN cases[c]
          /\ Ordered(heap, acts, nextAct, entries, nextId, pending, clock, Len(cases))
          /\ outcome = "running" => LookedAt(acts, Range(heap), clock)
          /\ (outcome = "running" /\ DOMAIN acts = {}) \/ outcome = "drained" => (cases # <<>> => Happened(cases, clock))
      BY DEF IInv
    <2>. QED BY <2>2, <2>3, NextInvariant
  <1>2. CASE Next
    BY <1>2, DiscardPreserves, DeadTokenPreserves, ArrivePreserves, CapacityPreserves, DonePreserves,
       IteratePreserves, InstanceDonePreserves, InstanceFailsPreserves, InterruptPreserves,
       InterruptMultiPreserves, InterruptAtDeadlinePreserves, NotifyPreserves, PassPreserves, ChoosePreserves,
       OpenPreserves, OpenMultiPreserves, RacePreserves, StuckPreserves, AndPreserves, OrPreserves,
       EndPreserves, TerminatePreserves, ExceedPreserves, DrainPreserves, StopPreserves, AbortPreserves
       DEF Next, Serving
  <1>. QED BY <1>1, <1>2

\* IInv is an invariant of the kernel, for all the models that satisfy the assumption
THEOREM Holds == Spec => []IInv
  BY InitEstablishes, NextPreserves, PTL DEF Spec

-----------------------------------------------------------------------------

\* UnitsComeBack (Replication): an activity that is served has exactly one end ahead, and one
\* that waits has none, whatever grant, cancellation, loop or deadline its neighbours go through
\* (startAllocations, interruptEntry and interruptSubprocess).  OneEnd says that there is one, Once that there are
\* not two: an activity begins with the end it is given or with none, and a request that is granted
\* waited until then.
THEOREM UnitsReturn == Spec => []UnitsComeBack
  <1>1. IInv => UnitsComeBack
    <2> SUFFICES ASSUME IInv, NEW i \in DOMAIN acts
                 PROVE  Cardinality({k \in DOMAIN heap : heap[k].kind = "done" /\ heap[k].act = i})
                           = IF i \in Waiting(acts) THEN 0 ELSE 1
      BY DEF UnitsComeBack
    <2> DEFINE K == {k \in DOMAIN heap : heap[k].kind = "done" /\ heap[k].act = i}
    <2>1. Once(heap) /\ OneEnd(acts, Range(heap), {})
      BY DEF IInv, Ordered
    <2>2. i \notin Waiting(acts) <=> K # {}
      BY <2>1 DEF OneEnd, Range
    <2>3. \A k, l \in K : k = l
      BY <2>1 DEF Once, Differ
    <2> HIDE DEF K
    <2>4. CASE K = {}
      BY <2>2, <2>4, FS_EmptySet DEF K
    <2>5. CASE K # {}
      <3>1. PICK k \in K : K = {k}
        BY <2>3, <2>5
      <3>2. Cardinality(K) = 1
        BY <3>1, FS_Singleton
      <3>. QED BY <2>2, <2>5, <3>2 DEF K
    <2>. QED BY <2>4, <2>5
  <1>. QED BY <1>1, Holds, PTL

\* NoUnitIdles (Replication): while a replication runs, nobody waits for units that are free,
\* unless the rise that freed them is still to be taken at this instant.  This is why marking only
\* the classes that use a pool given back is enough (#markPoolsDirty and #drain), and why one
\* event is enough for each pool (pendingCapacity).
THEOREM NoUnitIsIdle == Spec => []NoUnitIdles
  <1>1. IInv => NoUnitIdles
    <2> SUFFICES ASSUME IInv PROVE NoUnitIdles
      OBVIOUS
    <2>1. /\ Once(heap) /\ Woken(acts, Range(heap), pending, clock) /\ model \in Models
          /\ Acts(acts, nextAct, Len(cases))
          /\ outcome = "running" => LookedAt(acts, Range(heap), clock)
      BY DEF IInv, Ordered
    <2>2. NobodyIsPassedOver
      <3> SUFFICES ASSUME outcome = "running", NEW i \in Waiting(acts), NEW d \in DemandsOf(acts[i].node),
                          Fits(acts, d, clock)
                   PROVE  \E k \in DOMAIN heap : heap[k].kind = "capacity" /\ heap[k].t = clock /\ heap[k].node \in d
        BY DEF NobodyIsPassedOver
      <3>1. PICK e \in Range(heap) : e.kind = "capacity" /\ e.t = clock /\ e.node \in d
        BY <2>1 DEF LookedAt
      <3>. QED BY <3>1 DEF Range
    <2>3. WaitersAreWoken
      <3> SUFFICES ASSUME NEW i \in Waiting(acts), NEW p \in PoolsOf(acts[i].node), Rises(p, clock) # {}
                   PROVE  LET woken == {k \in DOMAIN heap : heap[k].kind = "capacity" /\ heap[k].node = p}
                          IN Cardinality(woken) = 1
                             /\ \A k \in woken, u \in Rises(p, clock) : heap[k].t <= u
        BY DEF WaitersAreWoken
      <3> DEFINE K == {k \in DOMAIN heap : heap[k].kind = "capacity" /\ heap[k].node = p}
      <3>1. acts[i].node \in Nodes
        BY <2>1 DEF Waiting, Acts, IsAct
      <3>2. p \in Pools /\ p \in pending
        BY <2>1, <3>1, PoolsNeeded DEF Woken
      <3>3. K # {}
        BY <2>1, <3>2 DEF Woken, Range
      <3>4. \A k, l \in K : k = l
        BY <2>1 DEF Once, Differ
      <3>5. \A k \in K, u \in Rises(p, clock) : heap[k].t <= u
        BY <2>1 DEF Woken, Range
      <3> HIDE DEF K
      <3>6. PICK k \in K : K = {k}
        BY <3>3, <3>4
      <3>7. Cardinality(K) = 1
        BY <3>6, FS_Singleton
      <3>. QED BY <3>5, <3>7 DEF K
    <2>. QED BY <2>2, <2>3 DEF NoUnitIdles
  <1>. QED BY <1>1, Holds, PTL

\* StoppedAtIsAModelEvent (Replication): the time a drained replication reports is that of an
\* event that happened to a case: a rise that is arranged for nobody, or an end that is cancelled,
\* does not move it.  The last activity to go has left at the clock (Happened), and what comes after
\* is thrown away without a move of the clock.
THEOREM StopsAtAnEvent == Spec => []StoppedAtIsAModelEvent
  <1>1. IInv => StoppedAtIsAModelEvent
    BY DEF IInv, Happened, StoppedAtIsAModelEvent
  <1>. QED BY <1>1, Holds, PTL

-----------------------------------------------------------------------------
(* What a handler logs *)

\* The one activity a handler logs as completed is the one that is due
Honest(w) ==
    /\ DOMAIN w = WorkFields
    /\ \A i \in DOMAIN w.rows :
          w.rows[i] = "completed" =>
              (i \in DOMAIN rows /\ rows[i] = "completed") \/ (Due.kind = "done" /\ i = Due.act)

\* What leaves the log alone, or closes activities some other way, keeps to that
LEMMA SameLog ==
    \A w, x : Honest(w) /\ DOMAIN x = WorkFields /\ x.rows = w.rows => Honest(x)
  BY DEF Honest

\* ... nor does closing an activity some other way
LEMMA OtherLog ==
    \A w, x, S, status :
       Honest(w) /\ DOMAIN x = WorkFields /\ status # "completed" /\ x.rows = Logged(w.rows, S, status) => Honest(x)
  <1> SUFFICES ASSUME NEW w, NEW x, NEW S, NEW status, Honest(w), DOMAIN x = WorkFields, status # "completed",
                      x.rows = Logged(w.rows, S, status)
               PROVE  Honest(x)
    OBVIOUS
  <1> DEFINE r == w.rows
  <1>1. \A i \in DOMAIN x.rows : x.rows[i] = "completed" => i \in DOMAIN r /\ r[i] = "completed"
    BY DEF Logged
  <1>. QED BY <1>1 DEF Honest

\* Requests given up are not in the log
LEMMA HonestReleased == \A w, ids : Honest(w) => \A x \in Released(w, ids) : Honest(x)
  <1> SUFFICES ASSUME NEW w, NEW ids, Honest(w), NEW x \in Released(w, ids) PROVE Honest(x)
    OBVIOUS
  <1>1. PICK d \in Dropped(w.acts, ids) : x = [w EXCEPT !.acts = d.acts, !.events = @ \o d.events]
    BY DEF Released
  <1>2. DOMAIN w = WorkFields
    BY DEF Honest
  <1>3. DOMAIN x = WorkFields /\ x.rows = w.rows
    BY <1>1, <1>2 DEF WorkFields
  <1>. QED BY <1>3, SameLog

\* Tokens that appear are not
LEMMA HonestGain == \A w, n, delta : Honest(w) => Honest(Gain(w, n, delta))
  <1> SUFFICES ASSUME NEW w, NEW n, NEW delta, Honest(w) PROVE Honest(Gain(w, n, delta))
    OBVIOUS
  <1>1. DOMAIN w = WorkFields
    BY DEF Honest
  <1>2. DOMAIN Gain(w, n, delta) = WorkFields /\ Gain(w, n, delta).rows = w.rows
    BY <1>1 DEF WorkFields, Gain
  <1>. QED BY <1>2, SameLog

\* Nor is a sub-process that is entered
LEMMA HonestEnters == \A w, u, marks : Honest(w) => \A x \in EnterSubprocess(w, u, marks) : Honest(x)
  <1> SUFFICES ASSUME NEW w, NEW u, NEW marks, Honest(w), NEW x \in EnterSubprocess(w, u, marks) PROVE Honest(x)
    OBVIOUS
  <1>1. DOMAIN w = WorkFields
    BY DEF Honest
  <1>2. DOMAIN x = WorkFields /\ x.rows = w.rows
    <2>1. CASE w.k.subs[u].instance # 0
      BY <1>1, <2>1 DEF WorkFields, EnterSubprocess
    <2>2. CASE w.k.subs[u].instance = 0
      BY <1>1, <2>2 DEF WorkFields, EnterSubprocess
    <2>. QED BY <2>1, <2>2
  <1>. QED BY <1>2, SameLog

\* What is inside one that is cancelled is interrupted
LEMMA HonestInterrupts == \A w, u, b : Honest(w) => \A x \in InterruptSubprocess(w, u, b) : Honest(x)
  <1> SUFFICES ASSUME NEW w, NEW u, NEW b, Honest(w), NEW x \in InterruptSubprocess(w, u, b) PROVE Honest(x)
    OBVIOUS
  <1> DEFINE mine == {i \in DOMAIN w.acts : w.acts[i].case = Due.case /\ u \in Range(Inside[w.acts[i].node])}
             y == [w EXCEPT
                    !.rows = Logged(@, mine, "interrupted"),
                    !.entries = Without(@, {w.acts[i].entry : i \in mine}),
                    !.blocked = {g \in @ : g[2] # Due.case \/ u \notin Range(Inside[g[1]])},
                    !.k = CancelledTokens(@, u, b)]
  <1>1. x \in Released(y, mine)
    BY DEF InterruptSubprocess
  <1>2. DOMAIN w = WorkFields
    BY DEF Honest
  <1> HIDE DEF mine
  <1>3. DOMAIN y = WorkFields /\ y.rows = Logged(w.rows, mine, "interrupted")
    BY <1>2 DEF WorkFields
  <1> HIDE DEF y
  <1>4. Honest(y)
    BY <1>3, OtherLog
  <1>. QED BY <1>1, <1>4, HonestReleased

\* So are the instances of an entry
LEMMA HonestEntry == \A w, e, completed : Honest(w) => \A x \in InterruptEntry(w, e, completed) : Honest(x)
  <1> SUFFICES ASSUME NEW w, NEW e, NEW completed, Honest(w), NEW x \in InterruptEntry(w, e, completed) PROVE Honest(x)
    OBVIOUS
  <1> DEFINE open == {i \in DOMAIN w.acts : w.acts[i].entry = e} \ completed
             y == [w EXCEPT !.rows = Logged(@, open, "interrupted"), !.entries = Without(@, {e})]
  <1>1. x \in Released(y, open \cup completed)
    BY DEF InterruptEntry
  <1>2. DOMAIN w = WorkFields
    BY DEF Honest
  <1> HIDE DEF open
  <1>3. DOMAIN y = WorkFields /\ y.rows = Logged(w.rows, open, "interrupted")
    BY <1>2 DEF WorkFields
  <1> HIDE DEF y
  <1>4. Honest(y)
    BY <1>3, OtherLog
  <1>. QED BY <1>1, <1>4, HonestReleased

\* A token that crosses sub-processes completes no activity, however many it has crossed
HonestToken(s0, s, k) == DOMAIN s = TokenFields /\ Honest(s.w)

\* By induction over the crossings
LEMMA HonestTokenGoesOn ==
    \A s : \A n \in Nat :
       /\ HonestToken(s, s, 0)
       /\ \A k \in Nat : \A x : HonestToken(s, x, k) => \A y \in Crossing(x) : HonestToken(s, y, k + 1)
       => \A y \in Rounds(s, n, Crossing) : HonestToken(s, y, n)
  <1> SUFFICES ASSUME NEW s, NEW n \in Nat, HonestToken(s, s, 0),
                      \A k \in Nat : \A x : HonestToken(s, x, k) => \A y \in Crossing(x) : HonestToken(s, y, k + 1)
               PROVE  \A y \in Rounds(s, n, Crossing) : HonestToken(s, y, n)
    OBVIOUS
  <1>1. PICK f : Chain(f, s, n, "cross") /\ Rounds(s, n, Crossing) = f[n]
    BY CrossRounds
  <1>2. f[0] = {s} /\ \A k \in 0 .. n - 1 : f[k + 1] = UNION {Crossing(x) : x \in f[k]}
    BY <1>1 DEF Chain, StepOf
  <1> DEFINE T == {k \in 0 .. n : \A y \in f[k] : HonestToken(s, y, k)}
  <1>3. 0 \in T
    BY <1>2
  <1>4. \A k \in 0 .. n - 1 : k \in T => k + 1 \in T
    BY <1>2
  <1>5. n \in T
    <2>. HIDE DEF T
    <2>. QED BY <1>3, <1>4, Upwards
  <1>. QED BY <1>1, <1>5

\* One crossing
LEMMA HonestCrosses == \A s0, k : \A s : HonestToken(s0, s, k) => \A z \in Crossing(s) : HonestToken(s0, z, k + 1)
  <1> SUFFICES ASSUME NEW s, DOMAIN s = TokenFields, Honest(s.w), NEW z \in Crossing(s)
               PROVE  DOMAIN z = TokenFields /\ Honest(z.w)
    BY DEF HonestToken
  <1> DEFINE u == Head(s.path)
  <1>1. CASE z = s
    BY <1>1
  <1>2. CASE z = [s EXCEPT !.w.k.subs[u] = Moved(@, -1), !.path = Tail(@)]
    <2> DEFINE w == s.w
               x == [w EXCEPT !.k.subs[u] = Moved(@, -1)]
    <2>1. DOMAIN w = WorkFields
      BY DEF Honest
    <2>2. DOMAIN x = WorkFields /\ x.rows = w.rows
      BY <2>1 DEF WorkFields
    <2>3. z = [s EXCEPT !.w = x, !.path = Tail(@)]
      BY <1>2 DEF TokenFields
    <2> HIDE DEF x
    <2>4. Honest(x)
      BY <2>2, SameLog
    <2>. QED BY <2>3, <2>4 DEF TokenFields
  <1>3. CASE \E b \in Errors(u) : \E x \in InterruptSubprocess(s.w, u, b) : z = Diverted(x, b, s.marks)
    <2>1. PICK b \in Errors(u) : \E x \in InterruptSubprocess(s.w, u, b) : z = Diverted(x, b, s.marks)
      BY <1>3
    <2>2. PICK x \in InterruptSubprocess(s.w, u, b) : z = Diverted(x, b, s.marks)
      BY <2>1
    <2>3. Honest(x)
      BY <2>2, HonestInterrupts
    <2>4. DOMAIN z = TokenFields /\ z.w = x
      BY <2>2 DEF Diverted, Leaving, TokenFields
    <2>. QED BY <2>3, <2>4
  <1>4. CASE \E x \in EnterSubprocess(s.w, u, s.marks) : z = [s EXCEPT !.w = x, !.path = Tail(@)]
    <2>1. PICK x \in EnterSubprocess(s.w, u, s.marks) : z = [s EXCEPT !.w = x, !.path = Tail(@)]
      BY <1>4
    <2>2. Honest(x)
      BY HonestEnters
    <2>. QED BY <2>1, <2>2 DEF TokenFields
  <1>. QED BY <1>1, <1>2, <1>3, <1>4 DEF Crossing

\* ... and all of them, with the event that ends them
LEMMA HonestCrossed ==
    ASSUME Here
    PROVE  \A w, n, m, marks, times : Honest(w) => \A x \in Crossed(w, n, m, marks, times) : Honest(x)
  <1> SUFFICES ASSUME NEW w, NEW n, NEW m, NEW marks, NEW times, Honest(w),
                      NEW x \in Crossed(w, n, m, marks, times)
               PROVE  Honest(x)
    OBVIOUS
  <1> DEFINE s0 == Leaving(w, n, m, marks, times)
             c == 2 * Cardinality(Subs)
  <1>1. c \in Nat
    <2>1. IsFiniteSet(Subs)
      BY Statics DEF Here
    <2>. QED BY <2>1, FS_CardinalityType
  <1>2. HonestToken(s0, s0, 0)
    BY DEF HonestToken, Leaving, TokenFields
  <1>3. PICK s \in Rounds(s0, c, Crossing) : x = Arrived(s)
    BY DEF Crossed
  <1> HIDE DEF s0, c
  <1>4. \A k \in Nat : \A y : HonestToken(s0, y, k) => \A z \in Crossing(y) : HonestToken(s0, z, k + 1)
    BY HonestCrosses
  <1>5. \A y \in Rounds(s0, c, Crossing) : HonestToken(s0, y, c)
    BY <1>1, <1>2, <1>4, HonestTokenGoesOn
  <1>6. Honest(s.w)
    BY <1>3, <1>5 DEF HonestToken
  <1> DEFINE v == s.w
  <1>7. DOMAIN v = WorkFields
    BY <1>6 DEF Honest
  <1>8. DOMAIN x = WorkFields /\ x.rows = v.rows
    BY <1>3, <1>7 DEF Arrived, WorkFields
  <1> HIDE DEF v
  <1>. QED BY <1>6, <1>8, SameLog DEF v

\* Nor do tokens that leave one after another
HonestRow(s0, s, k) == DOMAIN s = RowFields /\ Honest(s.w)

\* By induction over the targets
LEMMA HonestRowGoesOn ==
    \A s : \A n \in Nat :
       /\ HonestRow(s, s, 0)
       /\ \A k \in Nat : \A x : HonestRow(s, x, k) => \A y \in Leave(x) : HonestRow(s, y, k + 1)
       => \A y \in Rounds(s, n, Leave) : HonestRow(s, y, n)
  <1> SUFFICES ASSUME NEW s, NEW n \in Nat, HonestRow(s, s, 0),
                      \A k \in Nat : \A x : HonestRow(s, x, k) => \A y \in Leave(x) : HonestRow(s, y, k + 1)
               PROVE  \A y \in Rounds(s, n, Leave) : HonestRow(s, y, n)
    OBVIOUS
  <1>1. PICK f : Chain(f, s, n, "leave") /\ Rounds(s, n, Leave) = f[n]
    BY LeaveRounds
  <1>2. f[0] = {s} /\ \A k \in 0 .. n - 1 : f[k + 1] = UNION {Leave(x) : x \in f[k]}
    BY <1>1 DEF Chain, StepOf
  <1> DEFINE T == {k \in 0 .. n : \A y \in f[k] : HonestRow(s, y, k)}
  <1>3. 0 \in T
    BY <1>2
  <1>4. \A k \in 0 .. n - 1 : k \in T => k + 1 \in T
    BY <1>2
  <1>5. n \in T
    <2>. HIDE DEF T
    <2>. QED BY <1>3, <1>4, Upwards
  <1>. QED BY <1>1, <1>5

\* They all leave (emit)
LEMMA HonestSent ==
    ASSUME Here
    PROVE  \A w, n, targets, marks, drawn :
              Honest(w) /\ Len(targets) \in Nat => \A x \in Sent(w, n, targets, marks, drawn) : Honest(x)
  <1> SUFFICES ASSUME NEW w, NEW n, NEW targets, NEW marks, NEW drawn, Honest(w), Len(targets) \in Nat,
                      NEW x \in Sent(w, n, targets, marks, drawn)
               PROVE  Honest(x)
    OBVIOUS
  <1> DEFINE s0 == [w |-> w, from |-> n, left |-> targets, marks |-> marks, drawn |-> drawn,
                    epoch |-> EpochAt(w.k, n)]
             c == Len(targets)
  <1>1. c \in Nat
    OBVIOUS
  <1>2. HonestRow(s0, s0, 0)
    BY DEF HonestRow, RowFields
  <1>3. PICK s \in Rounds(s0, c, Leave) : x = s.w
    BY DEF Sent
  <1> HIDE DEF s0, c
  <1>4. ASSUME NEW k, NEW y, HonestRow(s0, y, k), NEW z \in Leave(y) PROVE HonestRow(s0, z, k + 1)
    <2>1. DOMAIN y = RowFields /\ Honest(y.w)
      BY <1>4 DEF HonestRow
    <2>2. CASE z = y
      BY <2>1, <2>2 DEF HonestRow
    <2>3. CASE z # y
      <3> DEFINE m == Head(y.left)
                 times == IF y.drawn = {} THEN Times[m] ELSE y.drawn
      <3>1. \E v \in Crossed(y.w, y.from, m, y.marks, times) : z = [y EXCEPT !.w = v, !.left = Tail(@)]
        BY <2>3 DEF Leave
      <3> HIDE DEF m, times
      <3>2. PICK v \in Crossed(y.w, y.from, m, y.marks, times) : z = [y EXCEPT !.w = v, !.left = Tail(@)]
        BY <3>1
      <3>3. Honest(v)
        BY <2>1, HonestCrossed
      <3>. QED BY <2>1, <3>2, <3>3 DEF HonestRow, RowFields
    <2>. QED BY <2>2, <2>3
  <1>5. \A y \in Rounds(s0, c, Leave) : HonestRow(s0, y, c)
    BY <1>1, <1>2, <1>4, HonestRowGoesOn
  <1>. QED BY <1>3, <1>5 DEF HonestRow

\* One goes on through the first flow (forward)
LEMMA HonestForward ==
    ASSUME Here
    PROVE  \A w, n, marks : Honest(w) => \A x \in Forward(w, n, marks) : Honest(x)
  <1> SUFFICES ASSUME NEW w, NEW n, NEW marks, Honest(w), NEW x \in Forward(w, n, marks) PROVE Honest(x)
    OBVIOUS
  <1>1. CASE Out[n] = <<>>
    BY <1>1 DEF Forward
  <1>2. CASE Out[n] # <<>>
    <2> DEFINE t == <<Head(Out[n])>>
    <2>1. Len(t) \in Nat
      OBVIOUS
    <2>2. x \in Sent(w, n, t, marks, {})
      BY <1>2 DEF Forward, Emit
    <2> HIDE DEF t
    <2>. QED BY <2>1, <2>2, HonestSent
  <1>. QED BY <1>1, <1>2

\* An activity that is opened completes none
LEMMA HonestScheduled == \A w, new : Honest(w) => \A x \in Scheduled(w, new) : Honest(x)
  <1> SUFFICES ASSUME NEW w, NEW new, Honest(w), NEW x \in Scheduled(w, new) PROVE Honest(x)
    OBVIOUS
  <1> DEFINE i == w.nextAct
             y == [w EXCEPT !.acts = With(@, i, new), !.nextAct = @ + 1]
             n == new.node
             rises(d) == IF i \in Waiting(d.acts) THEN RiseEvents(PoolsOf(n), w.pending) ELSE <<>>
             z(d) == [y EXCEPT !.acts = d.acts, !.events = @ \o d.events \o rises(d),
                               !.pending = @ \cup {rises(d)[j].node : j \in DOMAIN rises(d)}]
  <1>1. DOMAIN w = WorkFields
    BY DEF Honest
  <1>2. DOMAIN y = WorkFields /\ y.rows = w.rows
    BY <1>1 DEF WorkFields
  <1>3. \/ x = [y EXCEPT !.events = Append(@, Event(Due.t + new.lasts, "done", Due.case, n, i))]
        \/ \E d \in Drained(y.acts, DemandsOf(n)) : x = z(d)
    BY DEF Scheduled
  <1> HIDE DEF y, rises
  <1>4. DOMAIN x = WorkFields /\ x.rows = y.rows
    <2>1. \A d : DOMAIN z(d) = WorkFields /\ z(d).rows = y.rows
      BY <1>2 DEF WorkFields
    <2>2. CASE \E d \in Drained(y.acts, DemandsOf(n)) : x = z(d)
      BY <2>1, <2>2
    <2>3. CASE x = [y EXCEPT !.events = Append(@, Event(Due.t + new.lasts, "done", Due.case, n, i))]
      BY <1>2, <2>3 DEF WorkFields
    <2>. QED BY <1>3, <2>2, <2>3
  <1>. QED BY <1>2, <1>4, SameLog

\* Nor does an instance of a multi-instance task
LEMMA HonestEnabled == \A w, e : Honest(w) => \A x \in Enabled(w, e) : Honest(x)
  <1> SUFFICES ASSUME NEW w, NEW e, Honest(w), NEW x \in Enabled(w, e) PROVE Honest(x)
    OBVIOUS
  <1> DEFINE y == [w EXCEPT !.entries[e].enabled = @ + 1]
  <1>1. DOMAIN w = WorkFields
    BY DEF Honest
  <1>2. \E new : x \in Scheduled(y, new)
    BY DEF Enabled
  <1>3. DOMAIN y = WorkFields /\ y.rows = w.rows
    BY <1>1 DEF WorkFields
  <1> HIDE DEF y
  <1>4. Honest(y)
    BY <1>3, SameLog
  <1>. QED BY <1>2, <1>4, HonestScheduled

\* ... however many are enabled
HonestInstance(s0, s, k) == DOMAIN s = {"w", "entry"} /\ Honest(s.w)

\* By induction over the instances
LEMMA HonestInstanceGoesOn ==
    \A s : \A n \in Nat :
       /\ HonestInstance(s, s, 0)
       /\ \A k \in Nat : \A x : HonestInstance(s, x, k) => \A y \in EnableNext(x) : HonestInstance(s, y, k + 1)
       => \A y \in Rounds(s, n, EnableNext) : HonestInstance(s, y, n)
  <1> SUFFICES ASSUME NEW s, NEW n \in Nat, HonestInstance(s, s, 0),
                      \A k \in Nat : \A x : HonestInstance(s, x, k) => \A y \in EnableNext(x) : HonestInstance(s, y, k + 1)
               PROVE  \A y \in Rounds(s, n, EnableNext) : HonestInstance(s, y, n)
    OBVIOUS
  <1>1. PICK f : Chain(f, s, n, "enable") /\ Rounds(s, n, EnableNext) = f[n]
    BY EnableRounds
  <1>2. f[0] = {s} /\ \A k \in 0 .. n - 1 : f[k + 1] = UNION {EnableNext(x) : x \in f[k]}
    BY <1>1 DEF Chain, StepOf
  <1> DEFINE T == {k \in 0 .. n : \A y \in f[k] : HonestInstance(s, y, k)}
  <1>3. 0 \in T
    BY <1>2
  <1>4. \A k \in 0 .. n - 1 : k \in T => k + 1 \in T
    BY <1>2
  <1>5. n \in T
    <2>. HIDE DEF T
    <2>. QED BY <1>3, <1>4, Upwards
  <1>. QED BY <1>1, <1>5

\* All of them have been enabled
LEMMA HonestEnabling ==
    \A w, e : \A n \in Nat : Honest(w) => \A s \in Rounds([w |-> w, entry |-> e], n, EnableNext) : Honest(s.w)
  <1> SUFFICES ASSUME NEW w, NEW e, NEW n \in Nat, Honest(w),
                      NEW s \in Rounds([w |-> w, entry |-> e], n, EnableNext)
               PROVE  Honest(s.w)
    OBVIOUS
  <1> DEFINE s0 == [w |-> w, entry |-> e]
  <1>1. HonestInstance(s0, s0, 0)
    BY DEF HonestInstance
  <1>2. s \in Rounds(s0, n, EnableNext)
    OBVIOUS
  <1> HIDE DEF s0
  <1>3. ASSUME NEW y, NEW k, HonestInstance(s0, y, k), NEW z \in EnableNext(y) PROVE HonestInstance(s0, z, k + 1)
    <2>1. DOMAIN y = {"w", "entry"} /\ Honest(y.w)
      BY <1>3 DEF HonestInstance
    <2>2. PICK x \in Enabled(y.w, y.entry) : z = [y EXCEPT !.w = x]
      BY DEF EnableNext
    <2>3. Honest(x)
      BY <2>1, HonestEnabled
    <2>. QED BY <2>1, <2>2, <2>3 DEF HonestInstance
  <1>4. \A y \in Rounds(s0, n, EnableNext) : HonestInstance(s0, y, n)
    BY <1>1, <1>3, HonestInstanceGoesOn
  <1>. QED BY <1>2, <1>4 DEF HonestInstance

-----------------------------------------------------------------------------
(* What a step may log *)

\* An activity that completes in a step is the one that is due, and it was open
Completion ==
    \A i \in DOMAIN rows' \ DOMAIN rows :
        rows'[i] = "completed" =>
            Running /\ Due.kind = "done" /\ i = Due.act /\ i \in DOMAIN acts /\ clock' = Due.t

\* A handler that keeps to that makes such a step
LEMMA HonestStep == ASSUME NEW kind, Serve(kind), NEW x, Honest(x), Becomes(x) PROVE Completion
  <1>1. rows' = x.rows
    BY DEF Becomes
  <1>2. Running /\ Live(Due) /\ clock' = Due.t
    BY DEF Serve
  <1>3. Due.kind = "done" => Due.act \in DOMAIN acts
    BY <1>2 DEF Live
  <1>. QED BY <1>1, <1>2, <1>3 DEF Honest, Completion

\* What a handler begins with
LEMMA HonestNow == Honest(Now)
  BY DEF Honest, Now, WorkFields

\* ... and with what it begins that completes one
LEMMA HonestFinished == ASSUME Completes PROVE Honest(Finished)
  <1>1. Due.kind = "done"
    BY DEF Completes, Serve
  <1> DEFINE w == Now
             y == [w EXCEPT !.rows = Logged(@, {Due.act}, "completed")]
  <1>2. DOMAIN w = WorkFields /\ w.rows = rows
    BY DEF Now, WorkFields
  <1> HIDE DEF w
  <1>3. DOMAIN y = WorkFields /\ y.rows = Logged(rows, {Due.act}, "completed")
    BY <1>2 DEF WorkFields
  <1> HIDE DEF y
  <1>4. Honest(y)
    BY <1>1, <1>3 DEF Honest, Logged
  <1>. QED BY <1>4 DEF Finished, y, w

\* Where a handler of a token or of a boundary works
LEMMA HonestServing ==
    ASSUME IInv, NEW kind, Serve(kind), kind \in {"enter", "boundary", "multiBoundary", "deadline"}
    PROVE  /\ Here /\ Due.node \in Nodes
           /\ \A x : Honest(x) /\ Becomes(x) => Completion
  BY BeingServed, HonestStep

\* ... and one that completes an activity
LEMMA HonestCompleting ==
    ASSUME IInv, Completes PROVE Here /\ Honest(Finished) /\ \A x : Honest(x) /\ Becomes(x) => Completion
  <1>1. Serve("done")
    BY DEF Completes
  <1>. QED BY <1>1, Completing, HonestFinished, HonestStep

\* The fields of the work at hand
LEMMA NowFields == DOMAIN Now = WorkFields /\ Now.rows = rows
  BY DEF Now, WorkFields

\* What completes an activity completes the one that is due
LEMMA DoneCompletes == IInv /\ Done => Completion
  <1> SUFFICES ASSUME IInv, Done PROVE Completion
    OBVIOUS
  <1> DEFINE v == Finished
             y == [v EXCEPT !.loops = Without(@, {Ended.loop})]
  <1>1. Completes
    BY DEF Done
  <1>2. PICK exit \in {Due.node} \cup Errors(Due.node) :
          \E w \in Released(y, {Due.act}) : \E x \in Forward(w, exit, Ended.marks) : Becomes(x)
    BY DEF Done
  <1>3. PICK w \in Released(y, {Due.act}) : \E x \in Forward(w, exit, Ended.marks) : Becomes(x)
    BY <1>2
  <1>4. Here /\ Honest(v) /\ \A x : Honest(x) /\ Becomes(x) => Completion
    BY <1>1, HonestCompleting
  <1> HIDE DEF v
  <1>5. Honest(y)
    <2>1. DOMAIN v = WorkFields
      BY <1>4 DEF Honest
    <2>2. DOMAIN y = WorkFields /\ y.rows = v.rows
      BY <2>1 DEF WorkFields
    <2> HIDE DEF y
    <2>. QED BY <1>4, <2>2, SameLog
  <1> HIDE DEF y
  <1>6. Honest(w)
    BY <1>5, HonestReleased
  <1>. QED BY <1>3, <1>4, <1>6, HonestForward

\* ... so does the next iteration of a loop
LEMMA IterateCompletes == IInv /\ Iterate => Completion
  <1> SUFFICES ASSUME IInv, Iterate PROVE Completion
    OBVIOUS
  <1> DEFINE next(w) == Enter(Due.t, Due.case, Due.node, Ended.marks, Times[Due.node], EpochAt(w.k, Due.node), Ended.loop)
             y(w) == [w EXCEPT !.loops[Ended.loop].iteration = @ + 1, !.events = Append(@, next(w))]
  <1>1. Completes
    BY DEF Iterate
  <1>2. PICK w \in Released(Finished, {Due.act}) : Becomes(y(w))
    BY DEF Iterate
  <1>3. Here /\ Honest(Finished) /\ \A x : Honest(x) /\ Becomes(x) => Completion
    BY <1>1, HonestCompleting
  <1>4. Honest(w)
    BY <1>3, HonestReleased
  <1>5. DOMAIN w = WorkFields
    BY <1>4 DEF Honest
  <1> DEFINE z == y(w)
  <1>6. DOMAIN z = WorkFields /\ z.rows = w.rows
    BY <1>5 DEF WorkFields
  <1>7. Becomes(z)
    BY <1>2
  <1> HIDE DEF z
  <1>. QED BY <1>3, <1>4, <1>6, <1>7, SameLog

\* ... an instance of a multi-instance task
LEMMA InstanceDoneCompletes == IInv /\ InstanceDone => Completion
  <1> SUFFICES ASSUME IInv, InstanceDone PROVE Completion
    OBVIOUS
  <1> DEFINE e == Ended.entry
             others == {i \in DOMAIN acts : acts[i].entry = e} \ {Due.act}
  <1>1. Completes
    BY DEF InstanceDone
  <1>2. PICK w \in Released(Finished, {Due.act}) :
            IF entries[e].enabled < entries[e].total
            THEN \E x \in Enabled(w, e) : Becomes(x)
            ELSE IF others # {} THEN Becomes(w)
            ELSE \E x \in Forward([w EXCEPT !.entries = Without(@, {e})], Due.node, Ended.marks) : Becomes(x)
    BY DEF InstanceDone
  <1>3. Here /\ Honest(Finished) /\ \A x : Honest(x) /\ Becomes(x) => Completion
    BY <1>1, HonestCompleting
  <1>4. Honest(w)
    BY <1>3, HonestReleased
  <1> DEFINE y == [w EXCEPT !.entries = Without(@, {e})]
  <1>5. Honest(y)
    <2>1. DOMAIN w = WorkFields
      BY <1>4 DEF Honest
    <2>2. DOMAIN y = WorkFields /\ y.rows = w.rows
      BY <2>1 DEF WorkFields
    <2> HIDE DEF y
    <2>. QED BY <1>4, <2>2, SameLog
  <1>6. \/ \E x \in Enabled(w, e) : Becomes(x)
        \/ Becomes(w)
        \/ \E x \in Forward(y, Due.node, Ended.marks) : Becomes(x)
    BY <1>2
  <1> HIDE DEF y, e, others
  <1>. QED BY <1>3, <1>4, <1>5, <1>6, HonestEnabled, HonestForward

\* ... and one that fails
LEMMA InstanceFailsCompletes == IInv /\ InstanceFails => Completion
  <1> SUFFICES ASSUME IInv, InstanceFails PROVE Completion
    OBVIOUS
  <1>1. Completes
    BY DEF InstanceFails
  <1>2. \E b : \E w \in InterruptEntry(Finished, Ended.entry, {Due.act}) : \E x \in Forward(w, b, Ended.marks) : Becomes(x)
    BY DEF InstanceFails
  <1>3. Here /\ Honest(Finished) /\ \A x : Honest(x) /\ Becomes(x) => Completion
    BY <1>1, HonestCompleting
  <1>. QED BY <1>2, <1>3, HonestEntry, HonestForward

\* What interrupts completes nothing
LEMMA InterruptCompletes == IInv /\ Interrupt => Completion
  <1> SUFFICES ASSUME IInv, Interrupt PROVE Completion
    OBVIOUS
  <1> DEFINE v == Now
             i == Target(Due.act)
             y == [v EXCEPT !.rows = Logged(@, {i}, "interrupted"), !.loops = Without(@, {Host.loop})]
  <1>1. Serve("boundary")
    BY DEF Interrupt, Interrupts
  <1>2. \E w \in Released(y, {i}) : \E x \in Forward(w, Due.node, HostMarks) : Becomes(x)
    BY DEF Interrupt
  <1>3. Here /\ \A x : Honest(x) /\ Becomes(x) => Completion
    BY <1>1, HonestServing
  <1>4. DOMAIN v = WorkFields /\ Honest(v)
    BY NowFields, HonestNow
  <1> HIDE DEF v, i
  <1>5. DOMAIN y = WorkFields /\ y.rows = Logged(v.rows, {i}, "interrupted")
    BY <1>4 DEF WorkFields
  <1> HIDE DEF y
  <1>6. Honest(y)
    BY <1>4, <1>5, OtherLog
  <1>. QED BY <1>2, <1>3, <1>6, HonestReleased, HonestForward

\* ... nor what interrupts an entry
LEMMA InterruptMultiCompletes == IInv /\ InterruptMulti => Completion
  <1> SUFFICES ASSUME IInv, InterruptMulti PROVE Completion
    OBVIOUS
  <1>1. Serve("multiBoundary")
    BY DEF InterruptMulti, Interrupts
  <1>2. \E w \in InterruptEntry(Now, Due.act, {}) : \E x \in Forward(w, Due.node, entries[Due.act].marks) : Becomes(x)
    BY DEF InterruptMulti
  <1>3. Here /\ \A x : Honest(x) /\ Becomes(x) => Completion
    BY <1>1, HonestServing
  <1>. QED BY <1>2, <1>3, HonestNow, HonestEntry, HonestForward

\* ... or a sub-process
LEMMA InterruptAtDeadlineCompletes == IInv /\ InterruptAtDeadline => Completion
  <1> SUFFICES ASSUME IInv, InterruptAtDeadline PROVE Completion
    OBVIOUS
  <1>1. Serve("deadline")
    BY DEF InterruptAtDeadline, Interrupts
  <1>2. \E u : \E w \in InterruptSubprocess(Now, u, Due.node) :
             \E x \in Forward(w, Due.node, Now.k.subs[u].marks) : Becomes(x)
    BY DEF InterruptAtDeadline
  <1>3. Here /\ \A x : Honest(x) /\ Becomes(x) => Completion
    BY <1>1, HonestServing
  <1>. QED BY <1>2, <1>3, HonestNow, HonestInterrupts, HonestForward

\* ... or what does not interrupt
LEMMA NotifyCompletes == IInv /\ Notify => Completion
  <1> SUFFICES ASSUME IInv, Notify PROVE Completion
    OBVIOUS
  <1>1. PICK kind \in {"boundary", "multiBoundary", "deadline"} : Serve(kind)
    BY DEF Notify, Notices
  <1>2. \/ Becomes(Now)
        \/ \E w \in Forward(Gain(Now, Due.node, 1), Due.node, <<>>) : Becomes(w)
    BY DEF Notify
  <1>3. Here /\ \A x : Honest(x) /\ Becomes(x) => Completion
    BY <1>1, HonestServing
  <1>4. Honest(Now) /\ Honest(Gain(Now, Due.node, 1))
    BY HonestNow, HonestGain
  <1>. QED BY <1>2, <1>3, <1>4, HonestForward

\* What lets a token through completes nothing
LEMMA PassCompletes == IInv /\ Pass => Completion
  <1> SUFFICES ASSUME IInv, Pass PROVE Completion
    OBVIOUS
  <1>1. Serve("enter") /\ \E w \in Forward(Now, Due.node, Due.marks) : Becomes(w)
    BY DEF Pass, ServeNode
  <1>. QED BY <1>1, HonestServing, HonestNow, HonestForward

\* ... nor through one of several flows
LEMMA ChooseCompletes == IInv /\ Choose => Completion
  <1> SUFFICES ASSUME IInv, Choose PROVE Completion
    OBVIOUS
  <1>1. Serve("enter")
    BY DEF Choose, ServeNode
  <1>2. PICK target \in Range(Out[Due.node]) : \E w \in Emit(Now, Due.node, <<target>>, Due.marks) : Becomes(w)
    BY DEF Choose
  <1> DEFINE t == <<target>>
  <1>3. Len(t) \in Nat /\ \E w \in Sent(Now, Due.node, t, Due.marks, {}) : Becomes(w)
    BY <1>2 DEF Emit
  <1> HIDE DEF t
  <1>. QED BY <1>1, <1>3, HonestServing, HonestNow, HonestSent

\* ... nor what wins a race
LEMMA RaceCompletes == IInv /\ Race => Completion
  <1> SUFFICES ASSUME IInv, Race PROVE Completion
    OBVIOUS
  <1>1. Serve("enter")
    BY DEF Race, ServeNode
  <1>2. \E delay, won : \E w \in Sent(Now, Due.node, <<Out[Due.node][won]>>, Due.marks, {delay[won]}) : Becomes(w)
    BY DEF Race
  <1>3. PICK delay, won : \E w \in Sent(Now, Due.node, <<Out[Due.node][won]>>, Due.marks, {delay[won]}) : Becomes(w)
    BY <1>2
  <1> DEFINE t == <<Out[Due.node][won]>>
  <1>4. Len(t) \in Nat /\ \E w \in Sent(Now, Due.node, t, Due.marks, {delay[won]}) : Becomes(w)
    BY <1>3
  <1> HIDE DEF t
  <1>. QED BY <1>1, <1>4, HonestServing, HonestNow, HonestSent

\* ... nor what cannot go on
LEMMA StuckCompletes == IInv /\ Stuck => Completion
  <1> SUFFICES ASSUME IInv, Stuck PROVE Completion
    OBVIOUS
  <1> DEFINE v == Now
             y == [v EXCEPT !.blocked = @ \cup {<<Due.node, Due.case>>}]
  <1>1. Serve("enter") /\ Becomes(y)
    BY DEF Stuck, ServeNode
  <1>2. DOMAIN v = WorkFields /\ Honest(v)
    BY NowFields, HonestNow
  <1> HIDE DEF v
  <1>3. DOMAIN y = WorkFields /\ y.rows = v.rows
    BY <1>2 DEF WorkFields
  <1> HIDE DEF y
  <1>. QED BY <1>1, <1>2, <1>3, SameLog, HonestServing

\* Nor does one that opens an activity
LEMMA OpenCompletes == IInv /\ Open => Completion
  <1> SUFFICES ASSUME IInv, Open PROVE Completion
    OBVIOUS
  <1> DEFINE n == Due.node
             first == Due.loop = 0
             loop == IF ~first THEN Due.loop ELSE IF model.loop[n] > 0 THEN nextAct ELSE 0
             v == Now
             L == IF loop = 0 THEN v.loops
                  ELSE IF first THEN With(v.loops, loop, [iteration |-> 1, current |-> nextAct])
                  ELSE [v.loops EXCEPT ![loop].current = nextAct]
             w == [v EXCEPT !.loops = L]
  <1>1. Serve("enter")
    BY DEF Open, ServeNode
  <1>2. DOMAIN v = WorkFields /\ Honest(v)
    BY NowFields, HonestNow
  <1>3. [v EXCEPT !.loops = IF loop = 0 THEN @
                    ELSE IF first THEN With(@, loop, [iteration |-> 1, current |-> nextAct])
                    ELSE [@ EXCEPT ![loop].current = nextAct]] = w
    BY <1>2 DEF WorkFields
  <1>4. \E lasts, delay : \E x \in Arranged(w, IF first THEN Armed("boundary", n, nextAct, delay) ELSE <<>>,
                                            Activity(n, Due.marks, lasts, loop, 0)) : Becomes(x)
    BY <1>3 DEF Open
  <1>5. DOMAIN w = WorkFields /\ w.rows = v.rows
    <2> HIDE DEF L
    <2>. QED BY <1>2 DEF WorkFields
  <1> HIDE DEF w, v, loop
  <1>6. \E armed, new : \E x \in Scheduled([w EXCEPT !.events = @ \o armed], new) : Becomes(x)
    BY <1>4 DEF Arranged
  <1>7. PICK armed, new : \E x \in Scheduled([w EXCEPT !.events = @ \o armed], new) : Becomes(x)
    BY <1>6
  <1> DEFINE y == [w EXCEPT !.events = @ \o armed]
  <1>8. DOMAIN y = WorkFields /\ y.rows = v.rows
    BY <1>5 DEF WorkFields
  <1>9. \E x \in Scheduled(y, new) : Becomes(x)
    BY <1>7
  <1> HIDE DEF y
  <1>10. Honest(y)
    BY <1>2, <1>8, SameLog
  <1>. QED BY <1>1, <1>9, <1>10, HonestServing, HonestScheduled

\* ... nor a multi-instance task
LEMMA OpenMultiCompletes == IInv /\ OpenMulti => Completion
  <1> SUFFICES ASSUME IInv, OpenMulti PROVE Completion
    OBVIOUS
  <1> DEFINE n == Due.node
             e == nextId
             v == Now
  <1>1. Serve("enter") /\ n \in DOMAIN model.instances
    BY DEF OpenMulti, ServeNode
  <1>2. PICK total \in model.instances[n] :
       LET count == IF n \in model.sequential THEN 1 ELSE total
           entry == [case |-> Due.case, node |-> n, marks |-> Due.marks, total |-> total,
                     enabled |-> 0]
           w == [v EXCEPT !.nextId = @ + 1, !.entries = With(@, e, entry)]
       IN IF total = 0
          THEN \E x \in Forward(v, n, Due.marks) : Becomes(x)
          ELSE \E delay \in Delays(n) :
               LET armed == [w EXCEPT !.events = Armed("multiBoundary", n, e, delay)]
               IN \E s \in Rounds([w |-> armed, entry |-> e], count, EnableNext) : Becomes(s.w)
    BY DEF OpenMulti
  <1> DEFINE count == IF n \in model.sequential THEN 1 ELSE total
             entry == [case |-> Due.case, node |-> n, marks |-> Due.marks, total |-> total,
                       enabled |-> 0]
             w == [v EXCEPT !.nextId = @ + 1, !.entries = With(@, e, entry)]
  <1>3. Here /\ n \in Nodes /\ \A x : Honest(x) /\ Becomes(x) => Completion
    BY <1>1, HonestServing
  <1>4. DOMAIN v = WorkFields /\ Honest(v)
    BY NowFields, HonestNow
  <1>5. total \in Nat /\ count \in Nat
    BY <1>1, <1>2, <1>3, ModelsAssumption DEF Here
  <1>6. CASE total = 0
    <2>1. PICK x \in Forward(v, n, Due.marks) : Becomes(x)
      BY <1>2, <1>6
    <2> HIDE DEF v
    <2>. QED BY <1>3, <1>4, <2>1, HonestForward
  <1>7. CASE total # 0
    <2>1. PICK delay \in Delays(n) :
               \E s \in Rounds([w |-> [w EXCEPT !.events = Armed("multiBoundary", n, e, delay)], entry |-> e],
                               count, EnableNext) : Becomes(s.w)
      BY <1>2, <1>7
    <2> HIDE DEF v
    <2>2. DOMAIN w = WorkFields /\ w.rows = v.rows
      BY <1>4 DEF WorkFields
    <2> HIDE DEF w
    <2> DEFINE y == [w EXCEPT !.events = Armed("multiBoundary", n, e, delay)]
    <2>3. DOMAIN y = WorkFields /\ y.rows = v.rows
      BY <2>2 DEF WorkFields
    <2>4. PICK s \in Rounds([w |-> y, entry |-> e], count, EnableNext) : Becomes(s.w)
      BY <2>1
    <2> HIDE DEF y, count
    <2>5. Honest(y)
      BY <1>4, <2>3, SameLog
    <2>6. Honest(s.w)
      BY <1>5, <2>4, <2>5, HonestEnabling
    <2>. QED BY <1>3, <2>4, <2>6
  <1>. QED BY <1>6, <1>7

\* The flows that are chosen: one at least
LEMMA ChoicesOf ==
    ASSUME NEW flows \in Seq(Nodes), NEW active \in Choices(flows)
    PROVE  active \in Seq(Nodes) /\ Len(active) \in Nat \ {0}
  <1>1. Len(flows) \in Nat
    BY LenProperties
  <1>2. PICK k \in 1 .. Len(flows) :
           \E chosen \in [1 .. k -> DOMAIN flows] : active = [i \in 1 .. k |-> flows[chosen[i]]]
    BY DEF Choices
  <1>3. PICK chosen \in [1 .. k -> DOMAIN flows] : active = [i \in 1 .. k |-> flows[chosen[i]]]
    BY <1>2
  <1>4. k \in Nat \ {0} /\ \A i \in 1 .. k : flows[chosen[i]] \in Nodes
    BY <1>1, <1>3, SequenceOf DEF Range
  <1>5. active \in Seq(Nodes) /\ DOMAIN active = 1 .. k
    BY <1>3, <1>4, IsASeq
  <1>6. Len(active) = k
    BY <1>4, <1>5, LenProperties
  <1>. QED BY <1>4, <1>5, <1>6

\* Nor does a join, a fork or an end
LEMMA AndCompletes == IInv /\ And => Completion
  <1> SUFFICES ASSUME IInv, And PROVE Completion
    OBVIOUS
  <1> DEFINE n == Due.node
             v == Now
             came == WaitingAt(n, v.k.ands) + 1
             x == [v EXCEPT !.k.ands = With(@, n, came)]
             y == [v EXCEPT !.k.ands = Without(@, {n})]
             targets == Out[n]
  <1>1. Serve("enter") /\ (Becomes(x) \/ \E w \in Emit(Gain(y, n, Joined(n)), n, targets, Due.marks) : Becomes(w))
    BY DEF And, ServeNode
  <1>2. Here /\ n \in Nodes /\ \A w : Honest(w) /\ Becomes(w) => Completion
    BY <1>1, HonestServing
  <1>3. DOMAIN v = WorkFields /\ Honest(v)
    BY NowFields, HonestNow
  <1>4. Len(targets) \in Nat
    <2>1. targets \in Seq(Nodes)
      BY <1>2, Statics DEF Here
    <2> HIDE DEF targets
    <2>. QED BY <2>1
  <1> HIDE DEF v, n, targets, came
  <1>5. DOMAIN x = WorkFields /\ x.rows = v.rows /\ DOMAIN y = WorkFields /\ y.rows = v.rows
    BY <1>3 DEF WorkFields
  <1> HIDE DEF x, y
  <1>6. Honest(x) /\ Honest(Gain(y, n, Joined(n)))
    BY <1>3, <1>5, SameLog, HonestGain
  <1>7. \A w \in Emit(Gain(y, n, Joined(n)), n, targets, Due.marks) : Honest(w)
    BY <1>2, <1>4, <1>6, HonestSent DEF Emit
  <1>. QED BY <1>1, <1>2, <1>6, <1>7

\* ... inclusive or not
LEMMA OrCompletes == IInv /\ Or => Completion
  <1> SUFFICES ASSUME IInv, Or PROVE Completion
    OBVIOUS
  <1> DEFINE n == Due.node
             v == Now
             joins == Incoming[n] > 1 /\ Due.marks # <<>>
             latest == Due.marks[Len(Due.marks)]
             key == <<n, latest>>
             expected == sizes[latest]
             came == WaitingAt(key, v.k.ors) + 1
             y == [v EXCEPT !.k.ors = Without(@, {key})]
             w == IF joins THEN Gain(y, n, 1 - expected) ELSE v
             marks == IF joins THEN SubSeq(Due.marks, 1, Len(Due.marks) - 1) ELSE Due.marks
             x == [v EXCEPT !.k.ors = With(@, key, came)]
             targets == Out[n]
  <1>1. /\ Serve("enter")
        /\ \/ Becomes(x)
           \/ \E z \in Forward(w, n, marks) : Becomes(z)
           \/ \E active \in Choices(targets) :
                 \E z \in Emit(Gain(w, n, Len(active) - 1), n, active, Append(marks, Len(sizes) + 1)) : Becomes(z)
    BY DEF Or, ServeNode
  <1>2. Here /\ n \in Nodes /\ \A z : Honest(z) /\ Becomes(z) => Completion
    BY <1>1, HonestServing
  <1>3. DOMAIN v = WorkFields /\ Honest(v)
    BY NowFields, HonestNow
  <1>4. targets \in Seq(Nodes)
    BY <1>2, Statics DEF Here
  <1> HIDE DEF v, n, targets, came, joins, expected, key, marks
  <1>5. DOMAIN x = WorkFields /\ x.rows = v.rows /\ DOMAIN y = WorkFields /\ y.rows = v.rows
    BY <1>3 DEF WorkFields
  <1> HIDE DEF x, y
  <1>6. Honest(x) /\ Honest(Gain(y, n, 1 - expected))
    BY <1>3, <1>5, SameLog, HonestGain
  <1>7. Honest(w)
    BY <1>3, <1>6
  <1> HIDE DEF w
  <1>8. CASE \E active \in Choices(targets) :
                 \E z \in Emit(Gain(w, n, Len(active) - 1), n, active, Append(marks, Len(sizes) + 1)) : Becomes(z)
    <2>1. PICK active \in Choices(targets) :
                 \E z \in Emit(Gain(w, n, Len(active) - 1), n, active, Append(marks, Len(sizes) + 1)) : Becomes(z)
      BY <1>8
    <2>2. Len(active) \in Nat
      BY <1>4, ChoicesOf
    <2>3. Honest(Gain(w, n, Len(active) - 1))
      BY <1>7, HonestGain
    <2> DEFINE g == Gain(w, n, Len(active) - 1)
               m == Append(marks, Len(sizes) + 1)
    <2>4. PICK z \in Sent(g, n, active, m, {}) : Becomes(z)
      BY <2>1 DEF Emit
    <2> HIDE DEF g, m
    <2>5. Honest(z)
      BY <1>2, <2>2, <2>3, <2>4, HonestSent DEF g
    <2>. QED BY <1>2, <2>4, <2>5
  <1>9. CASE \E z \in Forward(w, n, marks) : Becomes(z)
    BY <1>2, <1>7, <1>9, HonestForward
  <1>. QED BY <1>1, <1>2, <1>6, <1>8, <1>9

\* ... an end takes its token
LEMMA EndCompletes == IInv /\ End => Completion
  <1> SUFFICES ASSUME IInv, End PROVE Completion
    OBVIOUS
  <1> DEFINE w == Gain(Now, Due.node, -1)
             y == [w EXCEPT !.k.endId = IF w.k.tokens <= 0 THEN Due.node ELSE @]
  <1>1. Serve("enter") /\ Becomes(y)
    BY DEF End, ServeNode
  <1>2. Honest(w)
    BY HonestNow, HonestGain
  <1> HIDE DEF w
  <1>3. DOMAIN w = WorkFields
    BY <1>2 DEF Honest
  <1>4. DOMAIN y = WorkFields /\ y.rows = w.rows
    BY <1>3 DEF WorkFields
  <1> HIDE DEF y
  <1>. QED BY <1>1, <1>2, <1>4, SameLog, HonestServing

\* ... and terminate closes activities another way
LEMMA TerminateCompletes == IInv /\ Terminate => Completion
  <1> SUFFICES ASSUME IInv, Terminate PROVE Completion
    OBVIOUS
  <1> DEFINE mine == {i \in DOMAIN acts : acts[i].case = Due.case}
             y == Killed(mine)
             v == Now
  <1>1. Serve("enter") /\ \E w \in Released(y, mine) : Becomes(w)
    BY DEF Terminate, ServeNode
  <1>2. DOMAIN v = WorkFields /\ Honest(v)
    BY NowFields, HonestNow
  <1>3. y = [v EXCEPT
       !.k = [@ EXCEPT !.tokens = 0, !.alive = FALSE, !.endId = Due.node,
                       !.ands = << >>, !.ors = << >>],
       !.rows = Logged(@, mine, "terminated"),
       !.loops = Without(@, {acts[i].loop : i \in mine}),
       !.entries = Without(@, {acts[i].entry : i \in mine})]
    BY DEF Killed
  <1> HIDE DEF v, mine, y
  <1>4. DOMAIN y = WorkFields /\ y.rows = Logged(v.rows, mine, "terminated")
    BY <1>2, <1>3 DEF WorkFields
  <1>5. Honest(y)
    BY <1>2, <1>4, OtherLog
  <1>. QED BY <1>1, <1>5, HonestReleased, HonestServing

\* In no step does an activity complete but the one that is due
LEMMA NextCompletes == IInv /\ [Next]_vars => Completion
  <1> SUFFICES ASSUME IInv, [Next]_vars PROVE Completion
    OBVIOUS
  <1>1. ASSUME rows' = rows PROVE Completion
    BY <1>1 DEF Completion
  <1>2. CASE UNCHANGED vars
    BY <1>1, <1>2 DEF vars, opened
  <1>3. CASE Discard \/ DeadToken \/ Arrive \/ Capacity \/ Exceed
    <2>1. rows' = rows
      BY <1>3 DEF Discard, DeadToken, Arrive, Capacity, Exceed, opened
    <2>. QED BY <1>1, <2>1
  <1>4. CASE Drain \/ Stop \/ Abort
    <2>1. rows' = Logged(rows, DOMAIN acts, "inFlight")
      BY <1>4 DEF Drain, Stop, Abort, Over
    <2>. QED BY <2>1 DEF Completion, Logged
  <1>5. CASE Serving /\ ~(Discard \/ DeadToken \/ Arrive \/ Capacity \/ Exceed)
    BY <1>5, DoneCompletes, IterateCompletes, InstanceDoneCompletes, InstanceFailsCompletes, InterruptCompletes,
       InterruptMultiCompletes, InterruptAtDeadlineCompletes, NotifyCompletes, PassCompletes, ChooseCompletes,
       RaceCompletes, StuckCompletes, OpenCompletes, OpenMultiCompletes, AndCompletes, OrCompletes, EndCompletes,
       TerminateCompletes DEF Serving
  <1>. QED BY <1>2, <1>3, <1>4, <1>5 DEF Next

-----------------------------------------------------------------------------
(* The sub-processes around a node *)

\* The sub-processes around a node, the nodes in a sub-process, and the sub-processes around the
\* i-th of those around a node
Round(n) == Range(Inside[n])
NodesIn(u) == {n \in Nodes : u \in Round(n)}
Around(n, i) == SubSeq(Inside[n], i + 1, Len(Inside[n]))

\* What the assumption on scopes says of the model
LEMMA Scopes ==
    ASSUME model \in Models
    PROVE  \A n \in Nodes :
             /\ Inside[n] \in Seq(Subs)
             /\ \A b \in Range(Borders[n]) \cup Errors(n) : Inside[b] = Inside[n]
             /\ \A i \in DOMAIN Inside[n] :
                   /\ \A o \in Nodes : \A j \in DOMAIN Inside[o] :
                         Inside[o][j] = Inside[n][i] => Around(o, j) = Around(n, i)
                   /\ \A v \in Subs : Inside[n][i] \in model.nested[v] <=> v \in Range(Around(n, i))
                   /\ \A b \in Range(Borders[Inside[n][i]]) \cup Errors(Inside[n][i]) : Inside[b] = Around(n, i)
  <1>1. Inside \in [Nodes -> Seq(Subs)]
    BY Statics
  <1>. QED BY <1>1, ScopesAssumption DEF Inside, Borders, Errors, Nodes, Subs, Around

\* The sub-processes around a node, as a sequence and as a set
LEMMA InsideIs ==
    ASSUME model \in Models, NEW n \in Nodes
    PROVE  /\ Inside[n] \in Seq(Subs) /\ Len(Inside[n]) \in Nat /\ DOMAIN Inside[n] = 1 .. Len(Inside[n])
           /\ \A i \in 1 .. Len(Inside[n]) : Inside[n][i] \in Subs
           /\ \A u : u \in Round(n) <=> \E i \in 1 .. Len(Inside[n]) : Inside[n][i] = u
           /\ Round(n) \subseteq Subs
  <1>1. Inside[n] \in Seq(Subs)
    BY Statics
  <1> DEFINE s == Inside[n]
  <1>2. s \in Seq(Subs)
    BY <1>1
  <1> HIDE DEF s
  <1>3. Len(s) \in Nat /\ DOMAIN s = 1 .. Len(s) /\ \A i \in 1 .. Len(s) : s[i] \in Subs
    BY <1>2
  <1>4. \A u : u \in Range(s) <=> \E i \in 1 .. Len(s) : s[i] = u
    BY <1>3 DEF Range
  <1>. QED BY <1>2, <1>3, <1>4 DEF Round, s

\* What is around the i-th sub-process of a node is the rest of those around the node
LEMMA AroundIs ==
    ASSUME model \in Models, NEW n \in Nodes, NEW i \in DOMAIN Inside[n]
    PROVE  /\ Len(Inside[n]) \in Nat /\ DOMAIN Inside[n] = 1 .. Len(Inside[n]) /\ i \in 1 .. Len(Inside[n])
           /\ Len(Around(n, i)) = Len(Inside[n]) - i
           /\ Around(n, i) \in Seq(Subs)
           /\ DOMAIN Around(n, i) = 1 .. Len(Inside[n]) - i
           /\ \A j \in 1 .. Len(Inside[n]) - i : Around(n, i)[j] = Inside[n][i + j]
           /\ \A v : v \in Range(Around(n, i)) <=> \E j \in 1 .. Len(Inside[n]) : j > i /\ Inside[n][j] = v
  <1>1. Inside[n] \in Seq(Subs) /\ Len(Inside[n]) \in Nat /\ DOMAIN Inside[n] = 1 .. Len(Inside[n])
    BY Statics
  <1>2. i \in 1 .. Len(Inside[n])
    BY <1>1
  <1> DEFINE s == Inside[n]
             L == Len(s)
  <1>3. /\ Len(Around(n, i)) = L - i /\ Around(n, i) \in Seq(Subs)
        /\ \A j \in 1 .. L - i : Around(n, i)[j] = s[i + j]
    <2>1. s \in Seq(Subs) /\ L \in Nat /\ i \in 1 .. L /\ L = Len(s)
      BY <1>1, <1>2
    <2> HIDE DEF s, L
    <2>2. /\ Len(SubSeq(s, i + 1, L)) = L - i /\ SubSeq(s, i + 1, L) \in Seq(Subs)
          /\ \A j \in 1 .. L - i : SubSeq(s, i + 1, L)[j] = s[i + j]
      BY <2>1
    <2>. QED BY <2>2 DEF Around, s, L
  <1>4. DOMAIN Around(n, i) = 1 .. L - i
    BY <1>3, <1>1, <1>2
  <1>5. \A v : v \in Range(Around(n, i)) <=> \E j \in 1 .. L : j > i /\ s[j] = v
    <2>1. \A v : v \in Range(Around(n, i)) <=> \E j \in 1 .. L - i : s[i + j] = v
      BY <1>3, <1>4 DEF Range
    <2>2. \A v : (\E j \in 1 .. L - i : s[i + j] = v) <=> \E j \in 1 .. L : j > i /\ s[j] = v
      <3>1. L \in Nat /\ i \in 1 .. L
        BY <1>1, <1>2
      <3> HIDE DEF L, s
      <3>2. \A j \in 1 .. L - i : i + j \in 1 .. L /\ i + j > i
        BY <3>1
      <3>3. \A j \in 1 .. L : j > i => j - i \in 1 .. L - i /\ i + (j - i) = j
        BY <3>1
      <3>. QED BY <3>2, <3>3
    <2>. QED BY <2>1, <2>2
  <1>. QED BY <1>1, <1>2, <1>3, <1>4, <1>5

\* No sub-process is around a node twice
LEMMA OnceAround ==
    ASSUME model \in Models, NEW n \in Nodes, NEW i \in DOMAIN Inside[n], NEW j \in DOMAIN Inside[n],
           Inside[n][i] = Inside[n][j]
    PROVE  i = j
  <1>1. Around(n, i) = Around(n, j)
    BY Scopes
  <1>. QED BY <1>1, AroundIs

\* A sub-process, those it holds and those around it
Under(u) == {u} \cup {v \in Subs : v \in model.nested[u]}

\* Around a node of u there are those between the node and u, u, and those around u, which are
\* around every node of u; none of the others has a node in common with u
LEMMA Tree ==
    ASSUME model \in Models, NEW u \in Subs, NEW b, NEW n \in NodesIn(u),
           b \in Range(Borders[u]) \cup Errors(u)
    PROVE  /\ \A r \in Under(u) : NodesIn(r) \subseteq NodesIn(u) /\ r \notin Round(b)
           /\ \A r \in Round(b) : r \in Subs /\ NodesIn(u) \subseteq NodesIn(r)
           /\ \A r \in Subs : r \notin Under(u) /\ r \notin Round(b) => NodesIn(r) \cap NodesIn(u) = {}
           /\ b \in Nodes /\ b \notin NodesIn(u)
           /\ u \in Under(u) /\ Under(u) \subseteq Subs
           /\ Inside[n] # <<>> /\ Head(Inside[n]) \in Under(u)
  <1>1. PICK i \in DOMAIN Inside[n] : Inside[n][i] = u
    BY DEF NodesIn, Round, Range
  <1>0. n \in Nodes
    BY DEF NodesIn
  <1>2. Inside[b] = Around(n, i)
    BY <1>1, <1>0, Scopes
  <1>3. \A o \in NodesIn(u) : \E j \in DOMAIN Inside[o] : Inside[o][j] = u /\ Around(o, j) = Around(n, i)
    <2> SUFFICES ASSUME NEW o \in NodesIn(u) PROVE \E j \in DOMAIN Inside[o] : Inside[o][j] = u /\ Around(o, j) = Around(n, i)
      OBVIOUS
    <2>1. o \in Nodes /\ \E j \in DOMAIN Inside[o] : Inside[o][j] = u
      BY DEF NodesIn, Round, Range
    <2>. QED BY <2>1, <1>1, <1>0, Scopes
  <1>4. \A r \in Round(b) : r \in Range(Around(n, i))
    BY <1>2 DEF Round
  <1>5. \A o \in NodesIn(u), r \in Round(b) : r \in Subs /\ o \in NodesIn(r)
    <2> SUFFICES ASSUME NEW o \in NodesIn(u), NEW r \in Round(b) PROVE r \in Subs /\ o \in NodesIn(r)
      OBVIOUS
    <2>1. PICK j \in DOMAIN Inside[o] : Inside[o][j] = u /\ Around(o, j) = Around(n, i)
      BY <1>3
    <2>2. o \in Nodes /\ r \in Range(Around(o, j))
      BY <2>1, <1>4 DEF NodesIn
    <2>3. PICK l \in 1 .. Len(Inside[o]) : l > j /\ Inside[o][l] = r
      BY <2>2, AroundIs
    <2>4. l \in DOMAIN Inside[o] /\ Inside[o] \in Seq(Subs)
      BY <2>2, Statics
    <2>. QED BY <2>2, <2>3, <2>4 DEF NodesIn, Round, Range
  <1>6. \A r \in Under(u) : NodesIn(r) \subseteq NodesIn(u)
    <2> SUFFICES ASSUME NEW r \in Subs, r \in model.nested[u], NEW o \in NodesIn(r) PROVE o \in NodesIn(u)
      BY DEF Under
    <2>1. o \in Nodes
      BY DEF NodesIn
    <2>2. PICK l \in DOMAIN Inside[o] : Inside[o][l] = r
      BY DEF NodesIn, Round, Range
    <2>3. u \in Range(Around(o, l))
      BY <2>1, <2>2, Scopes
    <2>4. PICK j \in 1 .. Len(Inside[o]) : Inside[o][j] = u
      BY <2>1, <2>3, AroundIs
    <2>. QED BY <2>1, <2>4, InsideIs DEF NodesIn
  <1>7. \A r \in Under(u) : r \notin Round(b)
    <2> SUFFICES ASSUME NEW r \in Under(u), r \in Round(b) PROVE FALSE
      OBVIOUS
    <2>1. PICK l \in 1 .. Len(Inside[n]) : l > i /\ Inside[n][l] = r
      BY <1>0, <1>4, AroundIs
    <2>2. l \in DOMAIN Inside[n]
      BY <2>1, <1>0, Statics
    <2>3. CASE r = u
      <3>1. l = i
        BY <2>1, <2>2, <2>3, <1>0, <1>1, OnceAround
      <3>. QED BY <3>1, <2>1, <1>0, AroundIs
    <2>4. CASE r \in model.nested[u]
      <3>1. u \in Range(Around(n, l))
        BY <2>1, <2>2, <2>4, <1>0, Scopes
      <3>2. PICK j \in 1 .. Len(Inside[n]) : j > l /\ Inside[n][j] = u
        BY <3>1, <2>2, <1>0, AroundIs
      <3>3. j \in DOMAIN Inside[n]
        BY <3>2, <1>0, Statics
      <3>4. j = i
        BY <3>2, <3>3, <1>0, <1>1, OnceAround
      <3>. QED BY <3>2, <3>4, <2>1, <1>0, AroundIs
    <2>. QED BY <2>3, <2>4 DEF Under
  <1>8. \A r \in Subs : r \notin Under(u) /\ r \notin Round(b) => NodesIn(r) \cap NodesIn(u) = {}
    <2> SUFFICES ASSUME NEW r \in Subs, r \notin Under(u), r \notin Round(b), NEW o \in NodesIn(r), o \in NodesIn(u)
                 PROVE  FALSE
      OBVIOUS
    <2>1. PICK j \in DOMAIN Inside[o] : Inside[o][j] = u /\ Around(o, j) = Around(n, i)
      BY <1>3
    <2>2. o \in Nodes
      BY DEF NodesIn
    <2>3. PICK l \in DOMAIN Inside[o] : Inside[o][l] = r
      BY DEF NodesIn, Round, Range
    <2>4. r \notin Range(Around(o, j)) /\ u \notin Range(Around(o, l)) /\ r # u
      BY <2>1, <2>2, <2>3, <1>2, Scopes DEF Under, Round
    <2>5. j \in 1 .. Len(Inside[o]) /\ l \in 1 .. Len(Inside[o]) /\ Len(Inside[o]) \in Nat
      BY <2>1, <2>2, <2>3, InsideIs
    <2>6. ~(l > j) /\ ~(j > l)
      BY <2>1, <2>2, <2>3, <2>4, <2>5, AroundIs
    <2>7. l = j
      BY <2>5, <2>6
    <2>. QED BY <2>1, <2>3, <2>4, <2>7
  <1>9. b \notin NodesIn(u)
    BY <1>7 DEF NodesIn, Under
  <1>10. b \in Nodes
    <2>1. Borders[u] \in Seq(Nodes) /\ model.errors[u] \in Seq(Nodes)
      BY Statics
    <2>2. Range(Borders[u]) \subseteq Nodes /\ Range(model.errors[u]) \subseteq Nodes
      BY <2>1, SequenceOf
    <2>. QED BY <2>2 DEF Errors
  <1>11. Inside[n] # <<>> /\ Head(Inside[n]) \in Under(u)
    <2> DEFINE h == Inside[n][1]
    <2>1. 1 \in DOMAIN Inside[n] /\ 1 \in 1 .. Len(Inside[n]) /\ i \in 1 .. Len(Inside[n])
      BY <1>0, <1>1, InsideIs
    <2>2. Inside[n] # <<>> /\ Head(Inside[n]) = h
      BY <2>1, <1>0, InsideIs
    <2>3. h \in Subs /\ n \in NodesIn(h)
      BY <2>1, <1>0, InsideIs DEF NodesIn
    <2>4. h \notin Round(b)
      <3> SUFFICES ASSUME h \in Round(b) PROVE FALSE
        OBVIOUS
      <3>0. h \in Range(Around(n, i))
        BY <1>4
      <3> HIDE DEF h
      <3>1. PICK l \in 1 .. Len(Inside[n]) : l > i /\ Inside[n][l] = h
        BY <3>0, <1>0, AroundIs
      <3> USE DEF h
      <3>2. l = 1
        BY <3>1, <2>1, <1>0, OnceAround, InsideIs
      <3>. QED BY <3>1, <3>2, <2>1
    <2>. QED BY <2>2, <2>3, <2>4, <1>8
  <1>12. u \in Under(u) /\ Under(u) \subseteq Subs
    BY DEF Under
  <1>. QED BY <1>5, <1>6, <1>7, <1>8, <1>9, <1>10, <1>11, <1>12

\* The sub-processes that are around a node and not around another come first
LEMMA Outer ==
    ASSUME model \in Models, NEW n \in Nodes, NEW m \in Nodes
    PROVE  LET K == Len(Inside[n]) - Cardinality(Round(n) \cap Round(m))
           IN K \in 0 .. Len(Inside[n]) /\ \A j \in 1 .. Len(Inside[n]) : Inside[n][j] \in Round(m) <=> j > K
  <1> DEFINE a == Inside[n]
             L == Len(Inside[n])
             D == {j \in 1 .. L : a[j] \notin Round(m)}
             K == Cardinality(D)
  <1>1. L \in Nat /\ DOMAIN a = 1 .. L
    BY InsideIs
  <1>2. \A i \in D : \A j \in 1 .. L : j <= i => j \in D
    <2> SUFFICES ASSUME NEW i \in D, NEW j \in 1 .. L, j <= i, j \notin D PROVE FALSE
      OBVIOUS
    <2>1. j < i /\ a[j] \in Round(m) /\ i \in 1 .. L /\ j \in DOMAIN a /\ a[i] \notin Round(m)
      BY <1>1
    <2>2. PICK l \in 1 .. Len(Inside[m]) : Inside[m][l] = a[j]
      BY <2>1, InsideIs
    <2>3. l \in DOMAIN Inside[m]
      BY <2>2, InsideIs
    <2>4. Around(m, l) = Around(n, j)
      BY <2>1, <2>2, <2>3, Scopes
    <2>5. a[i] \in Range(Around(n, j))
      BY <2>1, AroundIs
    <2>6. PICK q \in 1 .. Len(Inside[m]) : Inside[m][q] = a[i]
      <3>1. a[i] \in Range(Around(m, l))
        BY <2>4, <2>5
      <3> HIDE DEF a
      <3>2. \A v : v \in Range(Around(m, l)) <=> \E q \in 1 .. Len(Inside[m]) : q > l /\ Inside[m][q] = v
        BY <2>3, AroundIs
      <3>. QED BY <3>1, <3>2
    <2>. QED BY <2>1, <2>6, InsideIs
  <1>3. K \in 0 .. L /\ D = 1 .. K
    <2>1. D \subseteq 1 .. L
      OBVIOUS
    <2> HIDE DEF D, L
    <2>. QED BY <1>1, <1>2, <2>1, Prefix
  <1>4. \A j \in 1 .. L : a[j] \in Round(m) <=> j > K
    <2>1. \A j \in 1 .. L : a[j] \in Round(m) <=> j \notin 1 .. K
      BY <1>3
    <2>. QED BY <2>1, <1>1, <1>3
  <1>5. Cardinality(Round(n) \cap Round(m)) = L - K
    <2> DEFINE S == K + 1 .. L
               f == [j \in S |-> a[j]]
    <2>1. IsFiniteSet(S) /\ Cardinality(S) = L - K
      <3>1. IsFiniteSet(S) /\ Cardinality(S) = IF K + 1 > L THEN 0 ELSE L - (K + 1) + 1
        <4>1. K + 1 \in Int /\ L \in Int
          BY <1>1, <1>3
        <4> HIDE DEF K, L
        <4>. QED BY <4>1, FS_Interval
      <3>2. K \in Nat /\ K <= L
        BY <1>1, <1>3
      <3> HIDE DEF K, L
      <3>. QED BY <3>1, <3>2, <1>1
    <2>2. \A x, y \in S : f[x] = f[y] => x = y
      BY <1>1, <1>3, OnceAround
    <2>3. {f[x] : x \in S} = Round(n) \cap Round(m)
      <3>1. \A x \in S : x \in 1 .. L /\ x > K /\ f[x] = a[x]
        BY <1>1, <1>3
      <3>2. \A x \in S : f[x] \in Round(n) \cap Round(m)
        BY <3>1, <1>4, InsideIs
      <3>3. ASSUME NEW r \in Round(n) \cap Round(m) PROVE \E x \in S : f[x] = r
        <4>1. PICK x \in 1 .. L : a[x] = r
          BY InsideIs
        <4>2. x > K
          BY <4>1, <1>4
        <4>3. x \in S
          BY <4>1, <4>2, <1>1, <1>3
        <4>. QED BY <4>1, <4>3
      <3>. QED BY <3>2, <3>3
    <2> HIDE DEF S
    <2>4. DOMAIN f = S
      OBVIOUS
    <2> HIDE DEF f
    <2>. QED BY <2>1, <2>2, <2>3, <2>4, Image
  <1>6. Len(Inside[n]) - Cardinality(Round(n) \cap Round(m)) = K
    BY <1>1, <1>3, <1>5
  <1> HIDE DEF K
  <1>. QED BY <1>3, <1>4, <1>6

\* What a token at a node of from has to cross to get to one of to: each sub-process once, the
\* ones it leaves before those it enters and those inside another before it, with all that is
\* around to and not to be crossed around from
Way(path, from, to) ==
    /\ path \in Seq(Subs)
    /\ \A i, j \in DOMAIN path : path[i] = path[j] => i = j
    /\ \A r \in Range(path) : r \in Round(from) <=> r \notin Round(to)
    /\ \A i, j \in DOMAIN path :
          i < j /\ path[j] \in Round(from) => path[i] \in Round(from) /\ path[i] \in model.nested[path[j]]
    /\ \A v \in Range(path) \cap Round(from) : \A r \in Subs :
          /\ r \in Round(to) /\ r \notin Range(path) => r \in Round(from)
          /\ r \in Round(from) /\ r \notin Range(path) /\ r \notin Round(to) => r \in model.nested[v]

\* It crosses the first of them
LEMMA WayOn ==
    ASSUME NEW path, NEW from, NEW to, Way(path, from, to), path # <<>>
    PROVE  LET u == Head(path)
           IN /\ u \in Subs /\ u \in Range(path) /\ u \notin Range(Tail(path))
              /\ Range(path) = {u} \cup Range(Tail(path)) /\ Len(Tail(path)) = Len(path) - 1
              /\ Way(Tail(path), from, to)
              /\ u \notin Round(from) => \A r \in Range(path) : r \notin Round(from)
  <1> DEFINE u == Head(path)
             p == Tail(path)
  <1>1. /\ Sequence(path) /\ Range(path) \subseteq Subs /\ path \in Seq(Subs)
        /\ Len(path) \in Nat \ {0} /\ DOMAIN path = 1 .. Len(path)
        /\ Sequence(p) /\ Range(path) = {u} \cup Range(p) /\ Len(p) = Len(path) - 1
        /\ u = path[1] /\ \A i \in 1 .. Len(path) - 1 : p[i] = path[i + 1]
    <2>1. path \in Seq(Subs)
      BY DEF Way
    <2>2. Sequence(path) /\ Range(path) \subseteq Subs
      BY <2>1, SequenceOf
    <2>. QED BY <2>1, <2>2, Headed
  <1>2. p \in Seq(Subs) /\ DOMAIN p = 1 .. Len(path) - 1
    <2> HIDE DEF u
    <2>1. p \in Seq(Subs)
      BY <1>1
    <2>. QED BY <2>1, <1>1
  <1> HIDE DEF u, p
  <1>3. \A i \in DOMAIN p : i + 1 \in DOMAIN path /\ p[i] = path[i + 1] /\ 1 \in DOMAIN path /\ 1 < i + 1 /\ i \in Nat
    BY <1>1, <1>2
  <1>4. u \notin Range(p)
    <2> SUFFICES ASSUME NEW i \in DOMAIN p, p[i] = u PROVE FALSE
      BY DEF Range
    <2>1. path[i + 1] = path[1] /\ i + 1 # 1
      BY <1>1, <1>3
    <2>. QED BY <2>1, <1>3 DEF Way
  <1>5. u \notin Round(from) => \A r \in Range(path) : r \notin Round(from)
    <2> SUFFICES ASSUME NEW i \in DOMAIN path, path[i] \in Round(from), u \notin Round(from) PROVE FALSE
      BY DEF Range
    <2>1. i # 1 /\ 1 \in DOMAIN path /\ i \in 1 .. Len(path)
      BY <1>1
    <2>2. 1 < i
      BY <2>1
    <2>. QED BY <2>1, <2>2, <1>1 DEF Way
  <1>6. Way(p, from, to)
    <2>1. \A i, j \in DOMAIN p : p[i] = p[j] => i = j
      <3> SUFFICES ASSUME NEW i \in DOMAIN p, NEW j \in DOMAIN p, p[i] = p[j] PROVE i = j
        OBVIOUS
      <3>1. i + 1 = j + 1
        BY <1>3 DEF Way
      <3>. QED BY <3>1, <1>3
    <2>2. \A r \in Range(p) : r \in Round(from) <=> r \notin Round(to)
      BY <1>1 DEF Way
    <2>3. \A i, j \in DOMAIN p :
            i < j /\ p[j] \in Round(from) => p[i] \in Round(from) /\ p[i] \in model.nested[p[j]]
      <3> SUFFICES ASSUME NEW i \in DOMAIN p, NEW j \in DOMAIN p, i < j, p[j] \in Round(from)
                   PROVE  p[i] \in Round(from) /\ p[i] \in model.nested[p[j]]
        OBVIOUS
      <3>1. i + 1 < j + 1
        BY <1>3
      <3>. QED BY <3>1, <1>3 DEF Way
    <2>4. \A v \in Range(p) \cap Round(from) : \A r \in Subs :
             /\ r \in Round(to) /\ r \notin Range(p) => r \in Round(from)
             /\ r \in Round(from) /\ r \notin Range(p) /\ r \notin Round(to) => r \in model.nested[v]
      <3> SUFFICES ASSUME NEW v \in Range(p) \cap Round(from), NEW r \in Subs, r \notin Range(p)
                   PROVE  /\ r \in Round(to) => r \in Round(from)
                          /\ r \in Round(from) /\ r \notin Round(to) => r \in model.nested[v]
        OBVIOUS
      <3>1. v \in Range(path) \cap Round(from) /\ u \in Round(from) /\ u \in Range(path)
        BY <1>1, <1>5
      <3>2. CASE r # u
        BY <3>1, <3>2, <1>1 DEF Way
      <3>3. CASE r = u
        <4>1. u \notin Round(to)
          BY <3>1 DEF Way
        <4>2. PICK i \in DOMAIN p : p[i] = v
          BY DEF Range
        <4>3. u \in model.nested[v]
          BY <4>2, <1>1, <1>3 DEF Way
        <4>. QED BY <3>3, <4>1, <4>3
      <3>. QED BY <3>2, <3>3
    <2>. QED BY <1>2, <2>1, <2>2, <2>3, <2>4 DEF Way
  <1>. QED BY <1>1, <1>4, <1>5, <1>6 DEF u, p

\* The path between two nodes is such a way, and who is not on it is around both or around none
LEMMA PathIsWay ==
    ASSUME model \in Models, NEW n \in Nodes, NEW m \in Nodes
    PROVE  /\ Way(Path(n, m), n, m)
           /\ \A r \in Subs : r \notin Range(Path(n, m)) => (r \in Round(n) <=> r \in Round(m))
  <1> DEFINE a == Inside[n]
             b == Inside[m]
             s == Cardinality(Round(n) \cap Round(m))
             K == Len(a) - s
             Q == Len(b) - s
             o == SubSeq(a, 1, K)
             e == [j \in 1 .. Q |-> b[Q + 1 - j]]
             path == Path(n, m)
  <1>1. K \in 0 .. Len(a) /\ \A j \in 1 .. Len(a) : a[j] \in Round(m) <=> j > K
    BY Outer
  <1>2. Q \in 0 .. Len(b) /\ \A j \in 1 .. Len(b) : b[j] \in Round(n) <=> j > Q
    <2>1. Round(m) \cap Round(n) = Round(n) \cap Round(m)
      OBVIOUS
    <2>. QED BY <2>1, Outer
  <1>3. /\ a \in Seq(Subs) /\ Len(a) \in Nat /\ DOMAIN a = 1 .. Len(a)
        /\ b \in Seq(Subs) /\ Len(b) \in Nat /\ DOMAIN b = 1 .. Len(b)
    BY InsideIs
  <1>4. path = o \o e
    BY DEF Path, Round
  <1>5. o \in Seq(Subs) /\ Len(o) = K /\ \A j \in 1 .. K : o[j] = a[j]
    <2> HIDE DEF K, a
    <2>. QED BY <1>1, <1>3
  <1>6. e \in Seq(Subs) /\ Len(e) = Q /\ \A j \in 1 .. Q : e[j] = b[Q + 1 - j]
    <2>1. Q \in Nat
      BY <1>2
    <2>2. \A j \in 1 .. Q : Q + 1 - j \in 1 .. Len(b) /\ b[Q + 1 - j] \in Subs
      <3> HIDE DEF Q, b
      <3>. QED BY <1>2, <1>3
    <2> HIDE DEF Q, b
    <2>. QED BY <2>1, <2>2
  <1>7. /\ path \in Seq(Subs) /\ DOMAIN path = 1 .. K + Q
        /\ \A j \in 1 .. K : path[j] = a[j]
        /\ \A j \in 1 .. Q : path[K + j] = b[Q + 1 - j]
    <2>1. Sequence(o) /\ Sequence(e)
      BY <1>5, <1>6, SequenceOf
    <2> HIDE DEF o, e, K, Q, path
    <2>2. /\ DOMAIN (o \o e) = 1 .. K + Q /\ \A j \in 1 .. K : (o \o e)[j] = o[j]
          /\ \A j \in 1 .. Q : (o \o e)[K + j] = e[j]
      <3>1. /\ DOMAIN (o \o e) = 1 .. Len(o) + Len(e) /\ \A j \in 1 .. Len(o) : (o \o e)[j] = o[j]
            /\ \A j \in 1 .. Len(e) : (o \o e)[Len(o) + j] = e[j]
        BY <2>1, Concat
      <3>. QED BY <3>1, <1>5, <1>6
    <2>3. o \o e \in Seq(Subs)
      BY <1>5, <1>6
    <2>. QED BY <2>2, <2>3, <1>4, <1>5, <1>6
  <1> HIDE DEF path, o, e, K, Q
  <1>0. K \in Nat /\ Q \in Nat /\ K <= Len(a) /\ Q <= Len(b)
    BY <1>1, <1>2, <1>3
  \* the first K are around n alone, the others around m alone
  <1>8. \A j \in 1 .. K : j \in DOMAIN a /\ j \in 1 .. Len(a) /\ path[j] = a[j] /\ path[j] \in Round(n) /\ path[j] \notin Round(m)
    <2> SUFFICES ASSUME NEW j \in 1 .. K
                 PROVE  j \in DOMAIN a /\ j \in 1 .. Len(a) /\ path[j] = a[j] /\ path[j] \in Round(n) /\ path[j] \notin Round(m)
      OBVIOUS
    <2>1. j \in 1 .. Len(a) /\ ~(j > K)
      BY <1>0, <1>3
    <2>. QED BY <2>1, <1>1, <1>3, <1>7, InsideIs
  <1>9. \A j \in DOMAIN path : j \notin 1 .. K =>
           /\ K + Q + 1 - j \in DOMAIN b /\ K + Q + 1 - j \in 1 .. Len(b)
           /\ path[j] = b[K + Q + 1 - j] /\ path[j] \in Round(m) /\ path[j] \notin Round(n)
    <2> SUFFICES ASSUME NEW j \in DOMAIN path, j \notin 1 .. K
                 PROVE  /\ K + Q + 1 - j \in DOMAIN b /\ K + Q + 1 - j \in 1 .. Len(b)
                        /\ path[j] = b[K + Q + 1 - j] /\ path[j] \in Round(m) /\ path[j] \notin Round(n)
      OBVIOUS
    <2>1. j \in 1 .. K + Q
      BY <1>7
    <2>2. /\ j - K \in 1 .. Q /\ K + (j - K) = j /\ Q + 1 - (j - K) = K + Q + 1 - j
          /\ K + Q + 1 - j \in 1 .. Len(b) /\ ~(K + Q + 1 - j > Q)
      <3> DEFINE M == Len(b)
      <3>1. K \in Nat /\ Q \in Nat /\ M \in Nat /\ Q <= M /\ j \in 1 .. K + Q /\ j \notin 1 .. K
        BY <2>1, <1>0, <1>3
      <3> HIDE DEF M
      <3>2. /\ j - K \in 1 .. Q /\ K + (j - K) = j /\ Q + 1 - (j - K) = K + Q + 1 - j
            /\ K + Q + 1 - j \in 1 .. M /\ ~(K + Q + 1 - j > Q)
        BY ONLY <3>1
      <3>. QED BY <3>2 DEF M
    <2>3. path[j] = b[K + Q + 1 - j]
      BY <2>2, <1>7
    <2>. QED BY <2>2, <2>3, <1>2, <1>3, InsideIs
  <1>10. \A i, j \in DOMAIN path : path[i] = path[j] => i = j
    <2> SUFFICES ASSUME NEW i \in DOMAIN path, NEW j \in DOMAIN path, path[i] = path[j] PROVE i = j
      OBVIOUS
    <2>0. i \in 1 .. K + Q /\ j \in 1 .. K + Q
      BY <1>7
    <2>1. CASE i \in 1 .. K /\ j \in 1 .. K
      BY <2>1, <1>8, OnceAround
    <2>2. CASE i \notin 1 .. K /\ j \notin 1 .. K
      <3>1. K + Q + 1 - i = K + Q + 1 - j
        BY <2>2, <1>9, OnceAround
      <3>. QED BY <3>1, <2>0, <1>0
    <2>3. CASE i \in 1 .. K /\ j \notin 1 .. K
      BY <2>3, <1>8, <1>9
    <2>4. CASE i \notin 1 .. K /\ j \in 1 .. K
      BY <2>4, <1>8, <1>9
    <2>. QED BY <2>1, <2>2, <2>3, <2>4
  <1>11. \A r \in Range(path) : r \in Round(n) <=> r \notin Round(m)
    <2> SUFFICES ASSUME NEW j \in DOMAIN path PROVE path[j] \in Round(n) <=> path[j] \notin Round(m)
      BY DEF Range
    <2>. QED BY <1>8, <1>9
  <1>12. \A i, j \in DOMAIN path :
            i < j /\ path[j] \in Round(n) => path[i] \in Round(n) /\ path[i] \in model.nested[path[j]]
    <2> SUFFICES ASSUME NEW i \in DOMAIN path, NEW j \in DOMAIN path, i < j, path[j] \in Round(n)
                 PROVE  path[i] \in Round(n) /\ path[i] \in model.nested[path[j]]
      OBVIOUS
    <2>1. j \in 1 .. K
      BY <1>9
    <2>2. i \in 1 .. K
      BY <2>1, <1>0, <1>7
    <2>3. path[i] = a[i] /\ path[j] = a[j] /\ i \in DOMAIN a /\ j \in 1 .. Len(a) /\ path[j] \in Subs
      BY <2>1, <2>2, <1>8, InsideIs
    <2>4. path[j] \in Range(Around(n, i))
      BY <2>3, AroundIs
    <2>5. a[i] \in model.nested[path[j]]
      BY <2>3, <2>4, Scopes
    <2>. QED BY <2>2, <2>3, <2>5, <1>8
  <1>13. \A r \in Subs : r \notin Range(path) => (r \in Round(n) <=> r \in Round(m))
    <2> SUFFICES ASSUME NEW r \in Subs, ~(r \in Round(n) <=> r \in Round(m)) PROVE r \in Range(path)
      OBVIOUS
    <2>1. CASE r \in Round(n)
      <3>1. PICK j \in 1 .. Len(a) : a[j] = r
        BY <2>1, InsideIs
      <3>2. j \in 1 .. K /\ j \in 1 .. K + Q
        BY <2>1, <3>1, <1>1, <1>0, <1>3
      <3>3. j \in DOMAIN path /\ path[j] = r
        BY <3>1, <3>2, <1>7
      <3>. QED BY <3>3 DEF Range
    <2>2. CASE r \in Round(m)
      <3>1. PICK j \in 1 .. Len(b) : b[j] = r
        BY <2>2, InsideIs
      <3>2. j \in 1 .. Q
        BY <2>2, <3>1, <1>2, <1>0, <1>3
      <3>3. Q + 1 - j \in 1 .. Q /\ K + (Q + 1 - j) \in 1 .. K + Q /\ Q + 1 - (Q + 1 - j) = j
        BY <3>2, <1>0
      <3>4. K + (Q + 1 - j) \in DOMAIN path /\ path[K + (Q + 1 - j)] = r
        BY <3>1, <3>3, <1>7
      <3>. QED BY <3>4 DEF Range
    <2>. QED BY <2>1, <2>2
  <1>. QED BY <1>7, <1>10, <1>11, <1>12, <1>13 DEF Way, path

-----------------------------------------------------------------------------
(* Counting tokens *)

\* One, if n is in N
Unit(n, N) == IF n \in N THEN 1 ELSE 0

\* What waits at joins: at finitely many of them, one token or more
Heaped(f) ==
    /\ IsFiniteSet(DOMAIN f) /\ f = [n \in DOMAIN f |-> f[n]]
    /\ \A n \in DOMAIN f : f[n] \in Nat \ {0}

\* How many tokens wait at those of K
AtKeys(f, K) == Cardinality(Kept(f, K \cap DOMAIN f))

\* The first n numbers
LEMMA Interval == ASSUME NEW n \in Nat PROVE IsFiniteSet(1 .. n) /\ Cardinality(1 .. n) = n
  <1>1. IsFiniteSet(1 .. n) /\ Cardinality(1 .. n) = IF 1 > n THEN 0 ELSE n - 1 + 1
    BY FS_Interval
  <1>. QED BY <1>1

\* They are finitely many, and none if there is no join
LEMMA KeptIs ==
    ASSUME NEW f, Heaped(f), NEW K
    PROVE  /\ IsFiniteSet(Kept(f, K \cap DOMAIN f)) /\ AtKeys(f, K) \in Nat
           /\ AtKeys(f, K) = 0 <=> K \cap DOMAIN f = {}
           /\ \A n \in K \cap DOMAIN f : <<n, 1>> \in Kept(f, K \cap DOMAIN f)
  <1> DEFINE D == K \cap DOMAIN f
             C == {{key} \X (1 .. f[key]) : key \in D}
             g == [key \in D |-> {key} \X (1 .. f[key])]
  <1>1. IsFiniteSet(D)
    <2>1. IsFiniteSet(DOMAIN f)
      BY DEF Heaped
    <2>. QED BY <2>1, FS_Intersection
  <1>2. IsFiniteSet(C)
    <2>1. \A x, y \in D : g[x] = g[y] => x = y
      <3> SUFFICES ASSUME NEW x \in D, NEW y \in D, g[x] = g[y] PROVE x = y
        OBVIOUS
      <3>1. 1 \in 1 .. f[x]
        BY DEF Heaped
      <3>2. <<x, 1>> \in g[x]
        BY <3>1
      <3>3. <<x, 1>> \in {y} \X (1 .. f[y])
        BY <3>2
      <3>. QED BY <3>3
    <2>2. C = {g[x] : x \in D} /\ DOMAIN g = D
      OBVIOUS
    <2> HIDE DEF g, D, C
    <2>. QED BY <1>1, <2>1, <2>2, Image
  <1>3. \A T \in C : IsFiniteSet(T)
    <2> SUFFICES ASSUME NEW key \in D PROVE IsFiniteSet({key} \X (1 .. f[key]))
      OBVIOUS
    <2>1. f[key] \in Nat
      BY DEF Heaped
    <2>2. IsFiniteSet(1 .. f[key]) /\ IsFiniteSet({key})
      BY <2>1, Interval, FS_Singleton
    <2>. QED BY <2>2, FS_Product
  <1>4. Kept(f, D) = UNION C
    BY DEF Kept
  <1>5. IsFiniteSet(Kept(f, D))
    <2> HIDE DEF C, D
    <2>. QED BY <1>2, <1>3, <1>4, FS_UNION
  <1>6. \A n \in D : <<n, 1>> \in Kept(f, D)
    <2> SUFFICES ASSUME NEW n \in D PROVE <<n, 1>> \in Kept(f, D)
      OBVIOUS
    <2>1. 1 \in 1 .. f[n]
      BY DEF Heaped
    <2>2. <<n, 1>> \in {n} \X (1 .. f[n])
      BY <2>1
    <2>. QED BY <2>2, <1>4
  <1>7. Kept(f, D) = {} <=> D = {}
    <2>1. D = {} => C = {}
      OBVIOUS
    <2> HIDE DEF C, D
    <2>2. D = {} => Kept(f, D) = {}
      BY <2>1, <1>4
    <2>3. D # {} => Kept(f, D) # {}
      BY <1>6
    <2>. QED BY <2>2, <2>3
  <1> HIDE DEF D
  <1>8. Cardinality(Kept(f, D)) \in Nat /\ (Cardinality(Kept(f, D)) = 0 <=> Kept(f, D) = {})
    BY <1>5, FS_CardinalityType, FS_EmptySet
  <1>. QED BY <1>5, <1>6, <1>7, <1>8 DEF AtKeys, D

\* They depend on the joins of K alone
LEMMA KeptSame ==
    ASSUME NEW f, NEW g, NEW K, NEW L,
           K \cap DOMAIN f = L \cap DOMAIN g, \A n \in K \cap DOMAIN f : f[n] = g[n]
    PROVE  AtKeys(f, K) = AtKeys(g, L)
  BY DEF AtKeys, Kept

\* They are at one part of K or at the other
LEMMA KeptParts ==
    ASSUME NEW f, Heaped(f), NEW K, NEW I, NEW J, \A x : x \in K <=> x \in I \/ x \in J, \A x \in I : x \notin J
    PROVE  AtKeys(f, K) = AtKeys(f, I) + AtKeys(f, J)
  <1> DEFINE S == Kept(f, I \cap DOMAIN f)
             T == Kept(f, J \cap DOMAIN f)
  <1>1. IsFiniteSet(S) /\ IsFiniteSet(T)
    BY KeptIs
  <1>2. Kept(f, K \cap DOMAIN f) = S \cup T
    BY DEF Kept
  <1>3. S \cap T = {}
    <2> SUFFICES ASSUME NEW x \in S, x \in T PROVE FALSE
      OBVIOUS
    <2>1. PICK k1 \in I \cap DOMAIN f : x \in {k1} \X (1 .. f[k1])
      BY DEF Kept
    <2>2. PICK k2 \in J \cap DOMAIN f : x \in {k2} \X (1 .. f[k2])
      BY DEF Kept
    <2>3. x[1] = k1 /\ x[1] = k2
      BY <2>1, <2>2
    <2>. QED BY <2>1, <2>2, <2>3
  <1> HIDE DEF S, T
  <1>4. Cardinality(S \cup T) = Cardinality(S) + Cardinality(T)
    <2>1. Cardinality(S \cup T) = Cardinality(S) + Cardinality(T) - Cardinality(S \cap T)
      BY <1>1, FS_Union
    <2>2. Cardinality(S \cap T) = 0 /\ Cardinality(S) \in Nat /\ Cardinality(T) \in Nat
      BY <1>1, <1>3, FS_EmptySet, FS_CardinalityType
    <2>. QED BY <2>1, <2>2
  <1>. QED BY <1>2, <1>4 DEF AtKeys, S, T

\* At one join there are as many as it says
LEMMA KeptOne ==
    ASSUME NEW f, Heaped(f), NEW n
    PROVE  AtKeys(f, {n}) = WaitingAt(n, f) /\ WaitingAt(n, f) \in Nat
  <1>1. CASE n \in DOMAIN f
    <2>1. {n} \cap DOMAIN f = {n} /\ f[n] \in Nat
      BY <1>1 DEF Heaped
    <2>2. Kept(f, {n}) = {n} \X (1 .. f[n])
      BY DEF Kept
    <2>3. IsFiniteSet({n}) /\ Cardinality({n}) = 1 /\ IsFiniteSet(1 .. f[n]) /\ Cardinality(1 .. f[n]) = f[n]
      BY <2>1, FS_Singleton, Interval
    <2>4. Cardinality({n} \X (1 .. f[n])) = Cardinality({n}) * Cardinality(1 .. f[n])
      BY <2>3, FS_Product
    <2>6. AtKeys(f, {n}) = 1 * f[n]
      BY <2>1, <2>2, <2>3, <2>4 DEF AtKeys
    <2>. QED BY <1>1, <2>1, <2>6 DEF WaitingAt
  <1>2. CASE n \notin DOMAIN f
    <2>1. {n} \cap DOMAIN f = {}
      BY <1>2
    <2>. QED BY <1>2, <2>1, KeptIs DEF WaitingAt
  <1>. QED BY <1>1, <1>2

\* One token more comes to the join n
Gathers(f, n, g) == Heaped(f) /\ g = With(f, n, WaitingAt(n, f) + 1)
Gathered(f, n, g, K) ==
    Heaped(g) /\ DOMAIN g = DOMAIN f \cup {n} /\ AtKeys(g, K) = AtKeys(f, K) + Unit(n, K)

\* So there is one more at it, and elsewhere as many as before
LEMMA KeptMore ==
    ASSUME NEW f, NEW n, NEW g, NEW K, Gathers(f, n, g)
    PROVE  Gathered(f, n, g, K)
  <1>0. Heaped(f) /\ g = With(f, n, WaitingAt(n, f) + 1)
    BY DEF Gathers
  <1> USE <1>0
  <1>1. DOMAIN g = DOMAIN f \cup {n} /\ g[n] = WaitingAt(n, f) + 1 /\ \A m \in DOMAIN f : m # n => g[m] = f[m]
    BY DEF With
  <1>2. WaitingAt(n, f) \in Nat
    BY KeptOne
  <1>3. Heaped(g)
    <2>1. IsFiniteSet(DOMAIN f)
      BY DEF Heaped
    <2>2. IsFiniteSet(DOMAIN f \cup {n})
      BY <2>1, FS_AddElement
    <2>3. \A m \in DOMAIN g : g[m] \in Nat \ {0}
      BY <1>1, <1>2 DEF Heaped
    <2>4. g = [m \in DOMAIN g |-> g[m]]
      BY DEF With
    <2>. QED BY <1>1, <2>2, <2>3, <2>4 DEF Heaped
  <1>4. AtKeys(g, K) = AtKeys(f, K) + Unit(n, K)
    <2> DEFINE R == K \ {n}
               O == {n}
    <2>0. (\A x : x \in R <=> x \in K /\ x # n) /\ (\A x : x \in O <=> x = n)
      OBVIOUS
    <2>a. AtKeys(g, O) = WaitingAt(n, f) + 1 /\ AtKeys(f, O) = WaitingAt(n, f)
      BY <1>1, <1>3, KeptOne DEF WaitingAt
    <2> HIDE DEF R, O
    <2>1. AtKeys(g, R) = AtKeys(f, R)
      <3>1. R \cap DOMAIN g = R \cap DOMAIN f
        BY <1>1, <2>0
      <3>. QED BY <1>1, <2>0, <3>1, KeptSame
    <2>2. CASE n \in K
      <3>1. (\A x : x \in K <=> x \in O \/ x \in R) /\ \A x \in O : x \notin R
        BY <2>0, <2>2
      <3>2. AtKeys(g, K) = AtKeys(g, O) + AtKeys(g, R)
        BY <1>3, <3>1, KeptParts
      <3>3. AtKeys(f, K) = AtKeys(f, O) + AtKeys(f, R)
        BY <3>1, KeptParts
      <3>5. AtKeys(f, R) \in Nat
        BY KeptIs
      <3>. QED BY <2>1, <2>2, <3>2, <3>3, <2>a, <3>5, <1>2 DEF Unit
    <2>3. CASE n \notin K
      <3>1. AtKeys(f, K) \in Nat
        BY KeptIs
      <3>2. AtKeys(g, K) = AtKeys(f, K)
        <4>1. K \cap DOMAIN g = K \cap DOMAIN f
          BY <1>1, <2>3
        <4>. QED BY <1>1, <2>3, <4>1, KeptSame
      <3>. QED BY <2>3, <3>1, <3>2 DEF Unit
    <2>. QED BY <2>2, <2>3
  <1>. QED BY <1>1, <1>3, <1>4 DEF Gathered

\* All that wait at some joins are taken away
LEMMA KeptCut ==
    ASSUME NEW f, Heaped(f), NEW D, NEW g, g = Without(f, D), NEW K, NEW L, \A x : x \in L <=> x \in K /\ x \notin D
    PROVE  Heaped(g) /\ DOMAIN g = DOMAIN f \ D /\ AtKeys(g, K) = AtKeys(f, L)
  <1>1. DOMAIN g = DOMAIN f \ D /\ g = [n \in DOMAIN g |-> g[n]] /\ \A n \in DOMAIN g : g[n] = f[n]
    BY DEF Without
  <1>2. Heaped(g)
    <2>1. IsFiniteSet(DOMAIN f)
      BY DEF Heaped
    <2>2. IsFiniteSet(DOMAIN f \ D)
      BY <2>1, FS_Difference
    <2>. QED BY <1>1, <2>2 DEF Heaped
  <1>3. AtKeys(g, K) = AtKeys(f, L)
    <2>1. K \cap DOMAIN g = L \cap DOMAIN f
      BY <1>1
    <2>2. \A n \in K \cap DOMAIN g : g[n] = f[n]
      BY <1>1
    <2>. QED BY <2>1, <2>2, KeptSame
  <1>. QED BY <1>1, <1>2, <1>3

\* All that wait at the join n are taken away
Scatters(f, n, g) == Heaped(f) /\ g = Without(f, {n})
Scattered(f, n, g, K) ==
    Heaped(g) /\ DOMAIN g = DOMAIN f \ {n}
    /\ AtKeys(g, K) = AtKeys(f, K) - (IF n \in K THEN WaitingAt(n, f) ELSE 0)

\* So there are none at it, and elsewhere as many as before
LEMMA KeptGone ==
    ASSUME NEW f, NEW n, NEW g, NEW K, Scatters(f, n, g)
    PROVE  Scattered(f, n, g, K)
  <1>a. Heaped(f) /\ g = Without(f, {n})
    BY DEF Scatters
  <1> USE <1>a
  <1> DEFINE D == {n}
             R == K \ {n}
  <1>0. g = Without(f, D) /\ (\A x : x \in R <=> x \in K /\ x \notin D) /\ \A x : x \in D <=> x = n
    OBVIOUS
  <1>4. WaitingAt(n, f) \in Nat /\ AtKeys(f, D) = WaitingAt(n, f)
    BY KeptOne
  <1> HIDE DEF D, R
  <1>1. Heaped(g) /\ DOMAIN g = DOMAIN f \ D /\ AtKeys(g, K) = AtKeys(f, R)
    <2>1. g = Without(f, D)
      BY <1>0
    <2>2. \A x : x \in R <=> x \in K /\ x \notin D
      BY <1>0
    <2>3. Heaped(g) /\ DOMAIN g = DOMAIN f \ D
      BY <2>1, <2>2, KeptCut
    <2>4. K \cap DOMAIN g = R \cap DOMAIN f
      BY <2>2, <2>3
    <2>5. \A m \in K \cap DOMAIN g : g[m] = f[m]
      BY <2>1 DEF Without
    <2>6. AtKeys(g, K) = AtKeys(f, R)
      BY <2>4, <2>5, KeptSame
    <2>. QED BY <2>3, <2>6
  <1>3. AtKeys(f, R) \in Nat /\ AtKeys(f, K) \in Nat
    BY KeptIs
  <1>5. CASE n \in K
    <2>1. (\A x : x \in K <=> x \in D \/ x \in R) /\ \A x \in D : x \notin R
      BY <1>0, <1>5
    <2>2. AtKeys(f, K) = AtKeys(f, D) + AtKeys(f, R)
      BY <2>1, KeptParts
    <2>. QED BY <2>2, <1>1, <1>3, <1>4, <1>5 DEF D, Scattered
  <1>6. CASE n \notin K
    <2>1. K \cap DOMAIN f = R \cap DOMAIN f
      BY <1>0, <1>6
    <2>2. AtKeys(f, K) = AtKeys(f, R)
      BY <2>1, KeptSame
    <2>. QED BY <2>2, <1>1, <1>3, <1>6 DEF D, Scattered
  <1>. QED BY <1>5, <1>6

\* Who of D belongs to the case c and is at a node of N
Placed(F, D, c, N) == Cardinality({i \in D : F[i].case = c /\ F[i].node \in N})

\* Finitely many
LEMMA PlacedIs ==
    ASSUME NEW F, NEW D, IsFiniteSet(D), NEW c, NEW N
    PROVE  /\ Placed(F, D, c, N) \in Nat
           /\ Placed(F, D, c, N) = 0 <=> \A i \in D : ~(F[i].case = c /\ F[i].node \in N)
  <1> DEFINE S == {i \in D : F[i].case = c /\ F[i].node \in N}
  <1>1. IsFiniteSet(S)
    <2>1. S \in SUBSET D
      OBVIOUS
    <2> HIDE DEF S
    <2>. QED BY <2>1, FS_Subset
  <1>2. S = {} <=> \A i \in D : ~(F[i].case = c /\ F[i].node \in N)
    OBVIOUS
  <1> HIDE DEF S
  <1>3. Cardinality(S) \in Nat /\ (Cardinality(S) = 0 <=> S = {})
    BY <1>1, FS_EmptySet, FS_CardinalityType
  <1>. QED BY <1>2, <1>3 DEF Placed, S

\* They depend on those of the case at nodes of N alone
LEMMA PlacedSame ==
    ASSUME NEW F, NEW D, NEW G, NEW E, NEW c, NEW N, NEW M,
           \A i : (i \in D /\ F[i].case = c /\ F[i].node \in N) <=> (i \in E /\ G[i].case = c /\ G[i].node \in M)
    PROVE  Placed(F, D, c, N) = Placed(G, E, c, M)
  <1>1. {i \in D : F[i].case = c /\ F[i].node \in N} = {i \in E : G[i].case = c /\ G[i].node \in M}
    OBVIOUS
  <1>. QED BY <1>1 DEF Placed

\* They are in one part of N or in the other
LEMMA PlacedParts ==
    ASSUME NEW F, NEW D, IsFiniteSet(D), NEW c, NEW N, NEW I, NEW J,
           \A x : x \in N <=> x \in I \/ x \in J, \A x \in I : x \notin J
    PROVE  Placed(F, D, c, N) = Placed(F, D, c, I) + Placed(F, D, c, J)
  <1> DEFINE S == {i \in D : F[i].case = c /\ F[i].node \in I}
             T == {i \in D : F[i].case = c /\ F[i].node \in J}
  <1>1. IsFiniteSet(S) /\ IsFiniteSet(T)
    <2>1. S \in SUBSET D /\ T \in SUBSET D
      OBVIOUS
    <2> HIDE DEF S, T
    <2>. QED BY <2>1, FS_Subset
  <1>2. {i \in D : F[i].case = c /\ F[i].node \in N} = S \cup T /\ S \cap T = {}
    OBVIOUS
  <1> HIDE DEF S, T
  <1>3. Cardinality(S \cup T) = Cardinality(S) + Cardinality(T)
    <2>1. Cardinality(S \cup T) = Cardinality(S) + Cardinality(T) - Cardinality(S \cap T)
      BY <1>1, FS_Union
    <2>2. Cardinality(S \cap T) = 0 /\ Cardinality(S) \in Nat /\ Cardinality(T) \in Nat
      BY <1>1, <1>2, FS_EmptySet, FS_CardinalityType
    <2>. QED BY <2>1, <2>2
  <1>. QED BY <1>2, <1>3 DEF Placed, S, T

\* E has one more than D, i, which belongs to c and is at the node n
OneFurther(F, D, i, G, E, c, n) ==
    /\ IsFiniteSet(D) /\ i \notin D /\ (\A j : j \in E <=> j \in D \/ j = i)
    /\ \A j \in D : G[j].case = F[j].case /\ G[j].node = F[j].node
    /\ G[i].case = c /\ G[i].node = n

\* One more of the case, or one less
LEMMA PlacedMore ==
    ASSUME NEW F, NEW D, NEW i, NEW G, NEW E, NEW c, NEW n, OneFurther(F, D, i, G, E, c, n), NEW N
    PROVE  Placed(G, E, c, N) = Placed(F, D, c, N) + Unit(n, N)
  <1>0. /\ IsFiniteSet(D) /\ i \notin D /\ (\A j : j \in E <=> j \in D \/ j = i)
        /\ \A j \in D : G[j].case = F[j].case /\ G[j].node = F[j].node
        /\ G[i].case = c /\ G[i].node = n
    BY DEF OneFurther
  <1> DEFINE S == {j \in D : F[j].case = c /\ F[j].node \in N}
             T == {j \in E : G[j].case = c /\ G[j].node \in N}
  <1>1. IsFiniteSet(S) /\ i \notin S
    <2>1. S \in SUBSET D
      OBVIOUS
    <2>2. i \notin S
      BY <1>0
    <2> HIDE DEF S
    <2>. QED BY <1>0, <2>1, <2>2, FS_Subset
  <1>2. n \in N => T = S \cup {i}
    BY <1>0
  <1>3. n \notin N => T = S
    BY <1>0
  <1> HIDE DEF S, T
  <1>4. Cardinality(S \cup {i}) = Cardinality(S) + 1 /\ Cardinality(S) \in Nat
    BY <1>1, FS_AddElement, FS_CardinalityType
  <1>5. CASE n \in N
    <2>1. Cardinality(T) = Cardinality(S) + 1 /\ Unit(n, N) = 1
      BY <1>2, <1>4, <1>5 DEF Unit
    <2>. QED BY <2>1 DEF Placed, S, T
  <1>6. CASE n \notin N
    <2>1. Cardinality(T) = Cardinality(S) + 0 /\ Unit(n, N) = 0
      BY <1>3, <1>4, <1>6 DEF Unit
    <2>. QED BY <2>1 DEF Placed, S, T
  <1>. QED BY <1>5, <1>6

-----------------------------------------------------------------------------
(* What the helpers change, apart from units *)

\* What is ahead of a handler, as a sequence
All(w) == Tail(heap) \o w.events

\* Neither loops nor entries, nor what the case counts
Rest(w, x) ==
    /\ x.k = w.k /\ x.loops = w.loops /\ x.entries = w.entries /\ x.nextId = w.nextId
    /\ x.blocked = w.blocked

\* The activities of D are the same, but for the units they hold
Alike(A, B, D) ==
    \A i \in D : /\ B[i].node = A[i].node /\ B[i].case = A[i].case /\ B[i].entry = A[i].entry
                 /\ B[i].loop = A[i].loop /\ B[i].marks = A[i].marks

\* Only ends and rises come
Quiet(ev, B) ==
    /\ Sequence(ev)
    /\ \A e \in Range(ev) : /\ e.kind \in {"done", "capacity"}
                            /\ e.kind = "done" => e.act \in DOMAIN B /\ e.node = B[e.act].node

\* The activities of ids are gone
Freed(w, ids, x) ==
    /\ Good(x, {}) /\ Rest(w, x) /\ x.nextAct = w.nextAct
    /\ DOMAIN x.acts = DOMAIN w.acts \ ids /\ Alike(w.acts, x.acts, DOMAIN x.acts)
    /\ \E ev : Quiet(ev, x.acts) /\ x.events = w.events \o ev

\* An activity has come
Begun(w, new, x) ==
    /\ Good(x, {}) /\ Rest(w, x) /\ x.nextAct = w.nextAct + 1
    /\ DOMAIN x.acts = DOMAIN w.acts \cup {w.nextAct}
    /\ Alike(With(w.acts, w.nextAct, new), x.acts, DOMAIN x.acts)
    /\ \E ev : Quiet(ev, x.acts) /\ x.events = w.events \o ev

\* What Released changes
LEMMA ReleasedFrees ==
    ASSUME Here, NEW w, NEW ids, Good(w, ids), NEW x \in Released(w, ids)
    PROVE  Freed(w, ids, x)
  <1> DEFINE A0 == Without(w.acts, ids)
             M == UNION {IF w.acts[i].held # 0 THEN DemandsOn(Needs[w.acts[i].node][w.acts[i].held])
                                               ELSE DemandsOf(w.acts[i].node) : i \in ids}
  <1>1. PICK d \in Drained(A0, M) : x = [w EXCEPT !.acts = d.acts, !.events = @ \o d.events]
    BY DEF Released, Dropped
  <1>2. /\ x.acts = d.acts /\ x.events = w.events \o d.events
        /\ Rest(w, x) /\ x.nextAct = w.nextAct
    BY <1>1 DEF Good, WorkFields, Rest
  <1>3. DOMAIN A0 = DOMAIN w.acts \ ids /\ \A i \in DOMAIN A0 : A0[i] = w.acts[i]
    BY Left
  <1> HIDE DEF A0, M
  <1>4. Acts(A0, w.nextAct, Len(cases))
    BY <1>3 DEF Good, Acts
  <1>5. model \in Models /\ Due.t \in Nat
    BY DEF Here
  <1>6. Settled(A0, M, w.nextAct, d)
    BY ONLY <1>1, <1>4, <1>5, Drains
  <1>7. DOMAIN x.acts = DOMAIN w.acts \ ids /\ Alike(w.acts, x.acts, DOMAIN x.acts)
    BY <1>2, <1>3, <1>6 DEF Settled, Alike
  <1>8. Quiet(d.events, x.acts)
    <2>1. Sequence(d.events) /\ \A e \in Range(d.events) : e.kind = "done"
      BY <1>6 DEF Settled
    <2>2. ASSUME NEW e \in Range(d.events) PROVE e.act \in DOMAIN x.acts /\ e.node = x.acts[e.act].node
      <3>1. e.act \in Waiting(A0) /\ e.node = A0[e.act].node
        BY <1>6 DEF Settled
      <3>2. e.act \in DOMAIN A0
        BY <3>1 DEF Waiting
      <3>. QED BY <3>1, <3>2, <1>2, <1>6 DEF Settled
    <2>. QED BY <2>1, <2>2 DEF Quiet
  <1>9. Good(x, {})
    BY Releasing DEF GivenBack
  <1>. QED BY <1>2, <1>7, <1>8, <1>9 DEF Freed

\* What Scheduled changes
LEMMA ScheduledBegins ==
    ASSUME Here, NEW w, Good(w, {}), NEW new, IsNew(w, new), NEW x \in Scheduled(w, new)
    PROVE  Begun(w, new, x)
  <1> DEFINE A1 == With(w.acts, w.nextAct, new)
             y == [w EXCEPT !.acts = With(@, w.nextAct, new), !.nextAct = @ + 1]
             n == new.node
  <1>0. Good(x, {})
    BY Scheduling DEF Started
  <1>1. y.acts = A1 /\ DOMAIN w = WorkFields
    BY DEF Good, WorkFields
  <1>2. /\ DOMAIN A1 = DOMAIN w.acts \cup {w.nextAct} /\ A1[w.nextAct] = new
    BY Added
  <1>3. CASE Needs[n] = <<>>
    <2> DEFINE e == Event(Due.t + new.lasts, "done", Due.case, n, w.nextAct)
    <2>1. x = [y EXCEPT !.events = Append(@, e)]
      BY <1>3 DEF Scheduled
    <2>2. /\ x.acts = A1 /\ x.events = Append(w.events, e) /\ Rest(w, x) /\ x.nextAct = w.nextAct + 1
      BY <2>1, <1>1 DEF WorkFields, Rest
    <2>3. x.events = w.events \o <<e>>
      BY <2>2, Appended DEF Good
    <2>4. Quiet(<<e>>, x.acts)
      <3>1. e.kind = "done" /\ e.act = w.nextAct /\ e.node = n
        BY DEF Event
      <3> HIDE DEF e
      <3>2. Sequence(<<e>>) /\ Range(<<e>>) = {e}
        BY Single
      <3>. QED BY <3>1, <3>2, <2>2, <1>2 DEF Quiet
    <2>5. Alike(A1, x.acts, DOMAIN x.acts)
      BY <2>2 DEF Alike
    <2>. QED BY <1>0, <1>2, <2>2, <2>3, <2>4, <2>5 DEF Begun
  <1>4. CASE Needs[n] # <<>>
    <2>1. PICK d \in Drained(y.acts, DemandsOf(n)) :
             LET r == IF w.nextAct \in Waiting(d.acts) THEN RiseEvents(PoolsOf(n), w.pending) ELSE <<>>
             IN x = [y EXCEPT !.acts = d.acts, !.events = @ \o d.events \o r,
                              !.pending = @ \cup {r[j].node : j \in DOMAIN r}]
      BY <1>4 DEF Scheduled
    <2> DEFINE r == IF w.nextAct \in Waiting(d.acts) THEN RiseEvents(PoolsOf(n), w.pending) ELSE <<>>
    <2>2. /\ x.acts = d.acts /\ x.events = (w.events \o d.events) \o r /\ Rest(w, x) /\ x.nextAct = w.nextAct + 1
      BY <2>1, <1>1 DEF WorkFields, Rest
    <2>3. Acts(A1, w.nextAct + 1, Len(cases))
      BY Added
    <2>4. model \in Models /\ Due.t \in Nat /\ new.node \in Nodes
      BY DEF Here, IsNew, IsAct
    <2>5. Settled(A1, DemandsOf(n), w.nextAct + 1, d)
      BY <2>1, <1>1, <2>3, <2>4, Drains
    <2>6. Rising(PoolsOf(n), w.pending, r) \/ r = <<>>
      BY <2>4, RisesAhead, PoolsNeeded
    <2>7. Sequence(r) /\ \A e \in Range(r) : e.kind = "capacity"
      BY <2>6, Empty DEF Rising
    <2> HIDE DEF r, A1, n
    <2>8. Sequence(d.events) /\ DOMAIN d.acts = DOMAIN A1 /\ Alike(A1, x.acts, DOMAIN x.acts)
      BY <2>5, <2>2 DEF Settled, Alike
    <2>9. x.events = w.events \o (d.events \o r)
      <3> DEFINE a == w.events
                 b == d.events
      <3>1. Sequence(a) /\ Sequence(b) /\ Sequence(r)
        BY <2>7, <2>8 DEF Good
      <3> HIDE DEF a, b
      <3>2. (a \o b) \o r = a \o (b \o r)
        BY ONLY <3>1, Assoc
      <3>. QED BY <3>2, <2>2 DEF a, b
    <2>10. ASSUME NEW e \in Range(d.events)
           PROVE  e.kind = "done" /\ e.act \in DOMAIN x.acts /\ e.node = x.acts[e.act].node
      <3>1. e.kind = "done" /\ e.act \in Waiting(A1) /\ e.node = A1[e.act].node
        BY <2>5 DEF Settled
      <3>2. e.act \in DOMAIN A1
        BY <3>1 DEF Waiting
      <3>. QED BY <3>1, <3>2, <2>2, <2>5 DEF Settled
    <2>11. Sequence(d.events \o r) /\ Range(d.events \o r) = Range(d.events) \cup Range(r)
      BY <2>7, <2>8, Concat
    <2>12. Quiet(d.events \o r, x.acts)
      BY <2>7, <2>10, <2>11 DEF Quiet
    <2>. QED BY <1>0, <1>2, <2>2, <2>8, <2>9, <2>12 DEF Begun, A1
  <1>. QED BY <1>3, <1>4

\* Events that come make what is ahead longer
LEMMA AheadLonger ==
    ASSUME Here, NEW w, Sequence(w.events), NEW x, NEW ev, Sequence(ev), x.events = w.events \o ev
    PROVE  /\ Sequence(x.events) /\ Sequence(All(w)) /\ Sequence(All(x))
           /\ All(x) = All(w) \o ev /\ Coming(x) = Coming(w) \cup Range(ev)
           /\ Range(All(w)) = Coming(w) /\ Range(All(x)) = Coming(x)
  <1>1. Sequence(Tail(heap))
    BY DEF Here
  <1>2. Sequence(x.events) /\ Range(x.events) = Range(w.events) \cup Range(ev)
    BY Concat
  <1>3. Sequence(All(w)) /\ Range(All(w)) = Coming(w)
    BY <1>1, Concat DEF All, Coming
  <1>4. All(x) = All(w) \o ev
    <2> DEFINE a == Tail(heap)
               b == w.events
    <2>1. Sequence(a) /\ Sequence(b) /\ Sequence(ev)
      BY <1>1
    <2> HIDE DEF a, b
    <2>2. (a \o b) \o ev = a \o (b \o ev)
      BY ONLY <2>1, Assoc
    <2>. QED BY <2>2 DEF All, a, b
  <1>5. Sequence(All(x)) /\ Range(All(x)) = Coming(x)
    BY <1>1, <1>2, Concat DEF All, Coming
  <1>6. Coming(x) = Coming(w) \cup Range(ev)
    BY <1>2 DEF Coming
  <1>. QED BY <1>2, <1>3, <1>4, <1>5, <1>6

\* Ends and rises are no tokens
LEMMA QuietAhead ==
    ASSUME Here, NEW w, Sequence(w.events), NEW x, NEW ev, Sequence(ev), x.events = w.events \o ev,
           \A e \in Range(ev) : e.kind # "enter", NEW S, \A e \in S : e.kind = "enter"
    PROVE  NumberOf(All(x), S) = NumberOf(All(w), S)
  <1>1. All(x) = All(w) \o ev /\ Sequence(All(w))
    BY AheadLonger
  <1>2. NumberOf(ev, S) = 0
    BY NumberNone
  <1>3. NumberOf(All(w) \o ev, S) = NumberOf(All(w), S) + NumberOf(ev, S) /\ NumberOf(All(w), S) \in Nat
    BY <1>1, NumberConcat
  <1>. QED BY <1>1, <1>2, <1>3

-----------------------------------------------------------------------------
(* The tokens of a case *)

\* A token on its way counts as long as its sub-process has not been cancelled
Fresh(k, e) == Inside[e.node] = <<>> \/ EpochAt(k, e.node) = e.epoch

\* The tokens of the case c that are on their way to a node of N
Tokens(h, k, c, N) == {e \in Range(h) : e.kind = "enter" /\ e.case = c /\ e.node \in N /\ Fresh(k, e)}
EntersAt(h, k, c, N) == NumberOf(h, Tokens(h, k, c, N))

\* The activities that have a token of their own
Owners(A) == {i \in DOMAIN A : A[i].entry = 0}

\* All the tokens of the case c there are at the nodes of N, with those of X, that are lost or stuck
Total(h, k, A, E, c, X, N) ==
    EntersAt(h, k, c, N) + Placed(A, Owners(A), c, N) + Placed(E, DOMAIN E, c, N)
    + AtKeys(k.ands, N) + AtKeys(k.ors, N \X Nat) + AtKeys(X, N)

\* They are finitely many
Stock(h, k, A, E, X) ==
    /\ Sequence(h) /\ IsFiniteSet(DOMAIN A) /\ IsFiniteSet(DOMAIN E)
    /\ Heaped(k.ands) /\ Heaped(k.ors) /\ Heaped(X)

\* The tokens of two sequences
LEMMA EntersConcat ==
    ASSUME NEW h, Sequence(h), NEW g, Sequence(g), NEW k, NEW c, NEW N
    PROVE  /\ EntersAt(h, k, c, N) \in Nat /\ EntersAt(g, k, c, N) \in Nat
           /\ EntersAt(h \o g, k, c, N) = EntersAt(h, k, c, N) + EntersAt(g, k, c, N)
  <1> DEFINE a == h \o g
             S == Tokens(a, k, c, N)
             T == Tokens(h, k, c, N)
             U == Tokens(g, k, c, N)
  <1>1. Range(a) = Range(h) \cup Range(g)
    BY Concat
  <1>2. (\A e \in Range(h) : e \in S <=> e \in T) /\ (\A e \in Range(g) : e \in S <=> e \in U)
    BY <1>1 DEF Tokens
  <1> HIDE DEF S, T, U
  <1>3. NumberOf(h, S) = NumberOf(h, T) /\ NumberOf(g, S) = NumberOf(g, U)
    BY <1>2, NumberSame
  <1>4. NumberOf(h, S) \in Nat /\ NumberOf(g, S) \in Nat /\ NumberOf(a, S) = NumberOf(h, S) + NumberOf(g, S)
    BY NumberConcat
  <1>. QED BY <1>3, <1>4 DEF EntersAt, S, T, U

\* They are finitely many, and depend on the tokens alone
LEMMA EntersSame ==
    ASSUME NEW h, Sequence(h), NEW k, NEW l, NEW c, NEW N, NEW M,
           \A e \in Range(h) : e \in Tokens(h, k, c, N) <=> e \in Tokens(h, l, c, M)
    PROVE  EntersAt(h, k, c, N) \in Nat /\ EntersAt(h, k, c, N) = EntersAt(h, l, c, M)
  BY NumberNone, NumberSame DEF EntersAt

\* None of them, or one
LEMMA EntersFew ==
    ASSUME NEW k, NEW c, NEW N
    PROVE  /\ \A h : Sequence(h) /\ (\A e \in Range(h) : ~(e.kind = "enter" /\ e.case = c))
                     => EntersAt(h, k, c, N) = 0
           /\ \A e : EntersAt(<<e>>, k, c, N) = IF e \in Tokens(<<e>>, k, c, N) THEN 1 ELSE 0
  <1>1. ASSUME NEW h, Sequence(h), \A e \in Range(h) : ~(e.kind = "enter" /\ e.case = c)
        PROVE  EntersAt(h, k, c, N) = 0
    <2>1. \A e \in Range(h) : e \notin Tokens(h, k, c, N)
      BY <1>1 DEF Tokens
    <2>. QED BY <1>1, <2>1, NumberNone DEF EntersAt
  <1>2. ASSUME NEW e PROVE EntersAt(<<e>>, k, c, N) = IF e \in Tokens(<<e>>, k, c, N) THEN 1 ELSE 0
    BY NumberSingle DEF EntersAt
  <1>. QED BY <1>1, <1>2

\* They go to one part of N or to the other
LEMMA EntersParts ==
    ASSUME NEW h, Sequence(h), NEW k, NEW c, NEW N, NEW I, NEW J,
           \A x : x \in N <=> x \in I \/ x \in J, \A x \in I : x \notin J
    PROVE  EntersAt(h, k, c, N) = EntersAt(h, k, c, I) + EntersAt(h, k, c, J)
  <1> DEFINE S == Tokens(h, k, c, N)
             T == Tokens(h, k, c, I)
             U == Tokens(h, k, c, J)
  <1>1. (\A x : x \in S <=> x \in T \/ x \in U) /\ (\A x \in T : x \notin U)
    BY DEF Tokens
  <1> HIDE DEF S, T, U
  <1>2. NumberOf(h, S) = NumberOf(h, T) + NumberOf(h, U)
    BY <1>1, NumberParts
  <1>. QED BY <1>2 DEF EntersAt, S, T, U

\* Every part of the total is a number
LEMMA TotalIs ==
    ASSUME NEW h, NEW k, NEW A, NEW E, NEW X, Stock(h, k, A, E, X), NEW c, NEW N
    PROVE  /\ Total(h, k, A, E, c, X, N) \in Nat
           /\ EntersAt(h, k, c, N) \in Nat /\ Placed(A, Owners(A), c, N) \in Nat
           /\ Placed(E, DOMAIN E, c, N) \in Nat /\ AtKeys(k.ands, N) \in Nat
           /\ AtKeys(k.ors, N \X Nat) \in Nat /\ AtKeys(X, N) \in Nat
  <1>1. IsFiniteSet(Owners(A))
    <2>1. Owners(A) \subseteq DOMAIN A
      BY DEF Owners
    <2>. QED BY <2>1, FS_Subset DEF Stock
  <1>2. EntersAt(h, k, c, N) \in Nat
    BY EntersSame DEF Stock
  <1>3. Placed(A, Owners(A), c, N) \in Nat
    BY <1>1, PlacedIs
  <1>4. Placed(E, DOMAIN E, c, N) \in Nat
    BY PlacedIs DEF Stock
  <1>5. AtKeys(k.ands, N) \in Nat
    BY KeptIs DEF Stock
  <1>6. AtKeys(k.ors, N \X Nat) \in Nat
    BY KeptIs DEF Stock
  <1>7. AtKeys(X, N) \in Nat
    BY KeptIs DEF Stock
  <1>. QED BY <1>2, <1>3, <1>4, <1>5, <1>6, <1>7 DEF Total

\* The tokens of two parts
LEMMA TotalParts ==
    ASSUME NEW h, NEW k, NEW A, NEW E, NEW X, Stock(h, k, A, E, X), NEW c, NEW N, NEW I, NEW J,
           \A x : x \in N <=> x \in I \/ x \in J, \A x \in I : x \notin J
    PROVE  Total(h, k, A, E, c, X, N) = Total(h, k, A, E, c, X, I) + Total(h, k, A, E, c, X, J)
  <1>1. IsFiniteSet(Owners(A))
    <2>1. Owners(A) \subseteq DOMAIN A
      BY DEF Owners
    <2>. QED BY <2>1, FS_Subset DEF Stock
  <1>2. EntersAt(h, k, c, N) = EntersAt(h, k, c, I) + EntersAt(h, k, c, J)
    BY EntersParts DEF Stock
  <1>3. Placed(A, Owners(A), c, N) = Placed(A, Owners(A), c, I) + Placed(A, Owners(A), c, J)
    BY <1>1, PlacedParts
  <1>4. Placed(E, DOMAIN E, c, N) = Placed(E, DOMAIN E, c, I) + Placed(E, DOMAIN E, c, J)
    BY PlacedParts DEF Stock
  <1>5. AtKeys(k.ands, N) = AtKeys(k.ands, I) + AtKeys(k.ands, J)
    BY KeptParts DEF Stock
  <1>6. AtKeys(k.ors, N \X Nat) = AtKeys(k.ors, I \X Nat) + AtKeys(k.ors, J \X Nat)
    <2> DEFINE NN == N \X Nat
               II == I \X Nat
               JJ == J \X Nat
    <2>1. (\A x : x \in NN <=> x \in II \/ x \in JJ) /\ \A x \in II : x \notin JJ
      OBVIOUS
    <2> HIDE DEF NN, II, JJ
    <2>2. AtKeys(k.ors, NN) = AtKeys(k.ors, II) + AtKeys(k.ors, JJ)
      BY <2>1, KeptParts DEF Stock
    <2>. QED BY <2>2 DEF NN, II, JJ
  <1>7. AtKeys(X, N) = AtKeys(X, I) + AtKeys(X, J)
    BY KeptParts DEF Stock
  <1>8. /\ EntersAt(h, k, c, I) \in Nat /\ EntersAt(h, k, c, J) \in Nat
        /\ Placed(A, Owners(A), c, I) \in Nat /\ Placed(A, Owners(A), c, J) \in Nat
        /\ Placed(E, DOMAIN E, c, I) \in Nat /\ Placed(E, DOMAIN E, c, J) \in Nat
        /\ AtKeys(k.ands, I) \in Nat /\ AtKeys(k.ands, J) \in Nat
        /\ AtKeys(k.ors, I \X Nat) \in Nat /\ AtKeys(k.ors, J \X Nat) \in Nat
        /\ AtKeys(X, I) \in Nat /\ AtKeys(X, J) \in Nat
    BY TotalIs
  <1>. QED BY <1>2, <1>3, <1>4, <1>5, <1>6, <1>7, <1>8 DEF Total

\* More nodes have no fewer tokens, and no nodes have none
LEMMA TotalMore ==
    ASSUME NEW h, NEW k, NEW A, NEW E, NEW X, Stock(h, k, A, E, X), NEW c, NEW N, NEW I, I \subseteq N
    PROVE  Total(h, k, A, E, c, X, I) <= Total(h, k, A, E, c, X, N)
  <1> DEFINE J == N \ I
  <1>1. (\A x : x \in N <=> x \in I \/ x \in J) /\ \A x \in I : x \notin J
    OBVIOUS
  <1> HIDE DEF J
  <1>2. Total(h, k, A, E, c, X, N) = Total(h, k, A, E, c, X, I) + Total(h, k, A, E, c, X, J)
    BY <1>1, TotalParts
  <1>3. Total(h, k, A, E, c, X, I) \in Nat /\ Total(h, k, A, E, c, X, J) \in Nat
    BY TotalIs
  <1>. QED BY <1>2, <1>3

\* Where there are tokens, there are nodes
LEMMA TotalNodes ==
    ASSUME NEW h, NEW k, NEW A, NEW E, NEW X, Stock(h, k, A, E, X), NEW c, NEW N,
           Total(h, k, A, E, c, X, N) # 0
    PROVE  N # {}
  <1> SUFFICES ASSUME N = {} PROVE FALSE
    OBVIOUS
  <1>1. (\A x : x \in N <=> x \in N \/ x \in N) /\ \A x \in N : x \notin N
    OBVIOUS
  <1>2. Total(h, k, A, E, c, X, N) = Total(h, k, A, E, c, X, N) + Total(h, k, A, E, c, X, N)
    BY <1>1, TotalParts
  <1>3. Total(h, k, A, E, c, X, N) \in Nat
    BY TotalIs
  <1>4. \A a : a \in Nat /\ a = a + a => a = 0
    OBVIOUS
  <1>. QED BY ONLY <1>2, <1>3, <1>4, Total(h, k, A, E, c, X, N) # 0

-----------------------------------------------------------------------------
(* What becomes of the total *)

\* Who is lost, or stuck, in the case c
Lost(X, B, c) ==
    /\ \A n \in DOMAIN X : n \in Nodes /\ (<<n, c>> \in B \/ n \in DeadEnds)
    /\ \A n \in Nodes : <<n, c>> \in B => n \in DOMAIN X

\* The counts of a case are its tokens, m more in the case and d[u] more in u
Balance(h, k, A, E, B, c, X, m, d) ==
    /\ Stock(h, k, A, E, X) /\ Lost(X, B, c)
    /\ k.tokens = Total(h, k, A, E, c, X, Nodes) + m
    /\ \A u \in Subs : k.subs[u].tokens = Total(h, k, A, E, c, X, NodesIn(u)) + d[u]

\* No sub-process is cancelled
SameEpochs(k, l) == \A u \in Subs : l.subs[u].epoch = k.subs[u].epoch

\* The same tokens are counted
SameCounts(k, l) == l.tokens = k.tokens /\ \A u \in Subs : l.subs[u].tokens = k.subs[u].tokens

\* j tokens more at n, j fewer at hand
LEMMA Rebalance ==
    ASSUME model \in Models,
           NEW h, NEW k, NEW A, NEW E, NEW b, NEW c, NEW X, NEW m \in Int, NEW d \in [Subs -> Int],
           Balance(h, k, A, E, b, c, X, m, d),
           NEW g, NEW l, NEW B, NEW F, NEW y, NEW Y, Stock(g, l, B, F, Y), Lost(Y, y, c), SameCounts(k, l),
           NEW n \in Nodes, NEW j \in Int,
           \A N : Total(g, l, B, F, c, Y, N) = Total(h, k, A, E, c, X, N) + (IF n \in N THEN j ELSE 0),
           NEW e, \A u \in Subs : e[u] = d[u] - (IF u \in Round(n) THEN j ELSE 0)
    PROVE  Balance(g, l, B, F, y, c, Y, m - j, e)
  <1>1. l.tokens = Total(g, l, B, F, c, Y, Nodes) + (m - j)
    <2>1. /\ k.tokens = Total(h, k, A, E, c, X, Nodes) + m /\ l.tokens = k.tokens
          /\ Total(h, k, A, E, c, X, Nodes) \in Nat
      BY TotalIs DEF Balance, SameCounts
    <2>2. Total(g, l, B, F, c, Y, Nodes) = Total(h, k, A, E, c, X, Nodes) + j
      OBVIOUS
    <2>. QED BY <2>1, <2>2
  <1>2. ASSUME NEW u \in Subs PROVE l.subs[u].tokens = Total(g, l, B, F, c, Y, NodesIn(u)) + e[u]
    <2>1. /\ k.subs[u].tokens = Total(h, k, A, E, c, X, NodesIn(u)) + d[u]
          /\ l.subs[u].tokens = k.subs[u].tokens
          /\ Total(h, k, A, E, c, X, NodesIn(u)) \in Nat
      BY TotalIs DEF Balance, SameCounts
    <2>2. n \in NodesIn(u) <=> u \in Round(n)
      BY DEF NodesIn
    <2>3. Total(g, l, B, F, c, Y, NodesIn(u))
              = Total(h, k, A, E, c, X, NodesIn(u)) + (IF u \in Round(n) THEN j ELSE 0)
      BY <2>2
    <2>. QED BY <2>1, <2>3
  <1>. QED BY <1>1, <1>2 DEF Balance

\* Events that are no tokens leave the tokens on their way as they are
Quieter(h, ev, g, c, k, l) ==
    /\ Sequence(h) /\ \A e \in Range(h) : e.kind = "enter" => e.node \in Nodes
    /\ Sequence(ev) /\ g = h \o ev /\ \A e \in Range(ev) : ~(e.kind = "enter" /\ e.case = c)
    /\ SameEpochs(k, l)

\* ... at any nodes
LEMMA EntersQuiet ==
    ASSUME model \in Models, NEW h, NEW ev, NEW g, NEW c, NEW k, NEW l, Quieter(h, ev, g, c, k, l), NEW N
    PROVE  Sequence(g) /\ EntersAt(g, l, c, N) = EntersAt(h, k, c, N)
  <1>0. /\ Sequence(h) /\ \A e \in Range(h) : e.kind = "enter" => e.node \in Nodes
        /\ Sequence(ev) /\ g = h \o ev /\ \A e \in Range(ev) : ~(e.kind = "enter" /\ e.case = c)
        /\ SameEpochs(k, l)
    BY DEF Quieter
  <1> USE <1>0
  <1>1. EntersAt(g, l, c, N) = EntersAt(h, l, c, N) + EntersAt(ev, l, c, N) /\ EntersAt(h, l, c, N) \in Nat
    BY EntersConcat
  <1>2. EntersAt(ev, l, c, N) = 0
    BY EntersFew
  <1>3. EntersAt(h, k, c, N) = EntersAt(h, l, c, N)
    <2>1. ASSUME NEW e \in Range(h), e.kind = "enter" PROVE Fresh(k, e) <=> Fresh(l, e)
      <3>1. CASE Inside[e.node] = <<>>
        BY <3>1 DEF Fresh
      <3>2. CASE Inside[e.node] # <<>>
        <4>1. Head(Inside[e.node]) \in Subs
          BY <2>1, <3>2, InsideIs
        <4>. QED BY <3>2, <4>1 DEF Fresh, EpochAt, SameEpochs
      <3>. QED BY <3>1, <3>2
    <2>2. \A e \in Range(h) : e \in Tokens(h, k, c, N) <=> e \in Tokens(h, l, c, N)
      BY <2>1 DEF Tokens
    <2>. QED BY <2>2, EntersSame
  <1>4. Sequence(g)
    BY Concat
  <1>. QED BY <1>1, <1>2, <1>3, <1>4

\* g is f without those of S
Fewer(f, g, S) == DOMAIN g = DOMAIN f \ S /\ \A x \in DOMAIN g : g[x] = f[x]

\* One more token is on its way
LEMMA EntersOne ==
    ASSUME NEW h, Sequence(h), NEW e, e.kind = "enter", NEW k, Fresh(k, e), NEW N
    PROVE  EntersAt(h \o <<e>>, k, e.case, N) = EntersAt(h, k, e.case, N) + Unit(e.node, N)
  <1>1. Sequence(<<e>>) /\ Range(<<e>>) = {e}
    BY Single
  <1>2. /\ EntersAt(h \o <<e>>, k, e.case, N) = EntersAt(h, k, e.case, N) + EntersAt(<<e>>, k, e.case, N)
    BY <1>1, EntersConcat
  <1>3. e \in Tokens(<<e>>, k, e.case, N) <=> e.node \in N
    BY <1>1 DEF Tokens
  <1>4. EntersAt(<<e>>, k, e.case, N) = Unit(e.node, N)
    BY <1>3, EntersFew DEF Unit
  <1>. QED BY <1>2, <1>4

\* Activities that have no token of their own go
LEMMA ActsGone ==
    ASSUME NEW A, NEW B, NEW ids, DOMAIN B = DOMAIN A \ ids, Alike(A, B, DOMAIN B),
           \A i \in ids : i \notin Owners(A), NEW c, NEW N
    PROVE  Placed(B, Owners(B), c, N) = Placed(A, Owners(A), c, N)
  <1>1. \A i : (i \in Owners(B) /\ B[i].case = c /\ B[i].node \in N)
               <=> (i \in Owners(A) /\ A[i].case = c /\ A[i].node \in N)
    BY DEF Owners, Alike
  <1>. QED BY <1>1, PlacedSame

\* One that has a token goes
LEMMA ActGone ==
    ASSUME NEW A, IsFiniteSet(DOMAIN A), NEW i, i \in Owners(A), NEW B, DOMAIN B = DOMAIN A \ {i},
           Alike(A, B, DOMAIN B), NEW N
    PROVE  Placed(A, Owners(A), A[i].case, N) = Placed(B, Owners(B), A[i].case, N) + Unit(A[i].node, N)
  <1> DEFINE D == Owners(B)
             E == Owners(A)
             c == A[i].case
  <1>1. /\ D \subseteq DOMAIN A /\ i \notin D /\ \A j : j \in E <=> j \in D \/ j = i
        /\ \A j \in D : A[j].case = B[j].case /\ A[j].node = B[j].node
    BY DEF Owners, Alike
  <1>2. IsFiniteSet(D)
    BY <1>1, FS_Subset
  <1>3. c = A[i].case
    OBVIOUS
  <1> HIDE DEF D, E, c
  <1>4. OneFurther(B, D, i, A, E, c, A[i].node)
    BY <1>1, <1>2, <1>3 DEF OneFurther
  <1>5. Placed(A, E, c, N) = Placed(B, D, c, N) + Unit(A[i].node, N)
    BY <1>4, PlacedMore
  <1>. QED BY <1>5 DEF D, E, c

\* One that has a token comes
LEMMA ActCome ==
    ASSUME NEW A, IsFiniteSet(DOMAIN A), NEW i, i \notin DOMAIN A, NEW new, new.entry = 0,
           NEW B, DOMAIN B = DOMAIN A \cup {i}, Alike(With(A, i, new), B, DOMAIN B), NEW N
    PROVE  Placed(B, Owners(B), new.case, N) = Placed(A, Owners(A), new.case, N) + Unit(new.node, N)
  <1> DEFINE D == Owners(A)
             E == Owners(B)
             c == new.case
  <1>0. With(A, i, new)[i] = new /\ \A j \in DOMAIN A : With(A, i, new)[j] = A[j]
    BY DEF With
  <1>1. /\ D \subseteq DOMAIN A /\ i \notin D /\ \A j : j \in E <=> j \in D \/ j = i
        /\ \A j \in D : B[j].case = A[j].case /\ B[j].node = A[j].node
        /\ B[i].case = c /\ B[i].node = new.node
    BY <1>0 DEF Owners, Alike
  <1>2. IsFiniteSet(D)
    BY <1>1, FS_Subset
  <1> HIDE DEF D, E, c
  <1>3. OneFurther(A, D, i, B, E, c, new.node)
    BY <1>1, <1>2 DEF OneFurther
  <1>4. Placed(B, E, c, N) = Placed(A, D, c, N) + Unit(new.node, N)
    BY <1>3, PlacedMore
  <1>. QED BY <1>4 DEF D, E, c

\* One that has none comes
LEMMA InstanceCome ==
    ASSUME NEW A, NEW i, i \notin DOMAIN A, NEW new, new.entry # 0,
           NEW B, DOMAIN B = DOMAIN A \cup {i}, Alike(With(A, i, new), B, DOMAIN B), NEW c, NEW N
    PROVE  Placed(B, Owners(B), c, N) = Placed(A, Owners(A), c, N)
  <1>0. With(A, i, new)[i] = new /\ \A j \in DOMAIN A : With(A, i, new)[j] = A[j]
    BY DEF With
  <1>1. \A j : (j \in Owners(B) /\ B[j].case = c /\ B[j].node \in N)
               <=> (j \in Owners(A) /\ A[j].case = c /\ A[j].node \in N)
    BY <1>0 DEF Owners, Alike
  <1>. QED BY <1>1, PlacedSame

\* An entry comes
LEMMA EntryCome ==
    ASSUME NEW E, IsFiniteSet(DOMAIN E), NEW i, i \notin DOMAIN E, NEW x, NEW F, F = With(E, i, x), NEW N
    PROVE  /\ IsFiniteSet(DOMAIN F)
           /\ Placed(F, DOMAIN F, x.case, N) = Placed(E, DOMAIN E, x.case, N) + Unit(x.node, N)
  <1> DEFINE D == DOMAIN E
             G == DOMAIN F
  <1>1. G = D \cup {i} /\ F[i] = x /\ \A j \in D : F[j] = E[j]
    BY DEF With
  <1> HIDE DEF D, G
  <1>2. i \notin D /\ (\A j : j \in G <=> j \in D \/ j = i) /\ IsFiniteSet(D)
    BY <1>1 DEF D
  <1>3. \A j \in D : F[j].case = E[j].case /\ F[j].node = E[j].node
    BY <1>1
  <1>6. OneFurther(E, D, i, F, G, x.case, x.node)
    BY <1>1, <1>2, <1>3 DEF OneFurther
  <1>4. Placed(F, G, x.case, N) = Placed(E, D, x.case, N) + Unit(x.node, N)
    BY <1>6, PlacedMore
  <1>5. IsFiniteSet(G)
    BY <1>1, <1>2, FS_AddElement
  <1>. QED BY <1>1, <1>4, <1>5 DEF D, G

\* An entry goes
LEMMA EntryGone ==
    ASSUME NEW E, IsFiniteSet(DOMAIN E), NEW i \in DOMAIN E, NEW F, Fewer(E, F, {i}), NEW N
    PROVE  /\ IsFiniteSet(DOMAIN F)
           /\ Placed(E, DOMAIN E, E[i].case, N) = Placed(F, DOMAIN F, E[i].case, N) + Unit(E[i].node, N)
  <1> DEFINE D == DOMAIN F
             G == DOMAIN E
  <1>1. D = G \ {i} /\ \A j \in D : F[j] = E[j]
    BY DEF Fewer
  <1>a. i \in G /\ IsFiniteSet(G)
    OBVIOUS
  <1> HIDE DEF D, G
  <1>2. i \notin D /\ (\A j : j \in G <=> j \in D \/ j = i)
    BY <1>1, <1>a
  <1>5. IsFiniteSet(D)
    BY <1>1, <1>a, FS_Difference
  <1>3. \A j \in D : E[j].case = F[j].case /\ E[j].node = F[j].node
    BY <1>1
  <1>6. OneFurther(F, D, i, E, G, E[i].case, E[i].node)
    BY <1>1, <1>2, <1>3, <1>5 DEF OneFurther
  <1>4. Placed(E, G, E[i].case, N) = Placed(F, D, E[i].case, N) + Unit(E[i].node, N)
    BY <1>6, PlacedMore
  <1>. QED BY <1>4, <1>5 DEF D, G

-----------------------------------------------------------------------------
(* Activities, loops, entries and the boundaries that watch them *)

\* A token that goes on with a loop, and those of the loop l
Returning(e) == e.kind = "enter" /\ e.loop # 0
Iterations(h, l) == {e \in Range(h) : Returning(e) /\ e.loop = l}

\* A loop has one token at the most on its way
Lone(h) == \A l : NumberOf(h, Iterations(h, l)) <= 1

\* A loop goes on with one activity or with one token, that belong to it
Looped(A, L, E, na) ==
    /\ \A l \in DOMAIN L :
          /\ l \in 1 .. na - 1 /\ {"iteration", "current"} \subseteq DOMAIN L[l]
          /\ L[l].current \in 1 .. na - 1
          /\ L[l].current \in DOMAIN A => A[L[l].current].loop = l
    /\ \A i \in DOMAIN A : A[i].loop # 0 => A[i].loop \in DOMAIN L /\ L[A[i].loop].current = i
    /\ \A e \in E : Returning(e) => e.loop \in DOMAIN L /\ \A i \in DOMAIN A : A[i].loop # e.loop

\* The boundary event e belongs to an activity, a token or an entry x
Guards(e, x) == x.case = e.case /\ e.node \in Range(Borders[x.node])

\* What is ahead concerns the activities, loops, entries and sub-processes it names
Bordered(A, N, E, na, ni) ==
    \A e \in E :
       /\ e.kind = "boundary" =>
             /\ e.act \in 1 .. na - 1
             /\ \A i \in DOMAIN A : i = e.act \/ A[i].loop = e.act => Guards(e, A[i]) /\ A[i].entry = 0
             /\ \A f \in E : Returning(f) /\ f.loop = e.act => Guards(e, f)
       /\ e.kind = "multiBoundary" =>
             e.act \in 1 .. ni - 1 /\ (e.act \in DOMAIN N => Guards(e, N[e.act]))
       /\ e.kind = "done" /\ e.act \in DOMAIN A => A[e.act].node = e.node
       /\ e.kind = "deadline" =>
             e.act \in 1 .. ni - 1 /\ \E u \in Subs : e.node \in Range(Borders[u])

\* The instances of the entry e: one at least, one exactly if they come one by one, and as many
\* as were drawn have been enabled if they do not
Peopled(A, N, e) ==
    /\ \E i \in DOMAIN A : A[i].entry = e
    /\ "enabled" \in DOMAIN N[e] /\ N[e].enabled \in Nat /\ N[e].total \in Nat
    /\ N[e].enabled <= N[e].total
    /\ N[e].node \in model.sequential =>
          \A i, j \in DOMAIN A : A[i].entry = e /\ A[j].entry = e => i = j
    /\ N[e].node \notin model.sequential => N[e].enabled = N[e].total
Populated(A, N, X) == \A e \in DOMAIN N \ X : Peopled(A, N, e)

\* Activities are of tasks and timers
Kinds(A) == \A i \in DOMAIN A : Type[A[i].node] \in {"task", "timer"}

\* All of it
Ties(A, L, N, h, na, ni, X) ==
    /\ Sequence(h) /\ Lone(h) /\ Looped(A, L, Range(h), na)
    /\ Bordered(A, N, Range(h), na, ni) /\ Populated(A, N, X) /\ Kinds(A)

\* Those of a loop in a longer sequence
LEMMA LoneLonger ==
    ASSUME NEW h, Sequence(h), NEW ev, Sequence(ev), Lone(h), \A e \in Range(ev) : ~Returning(e)
    PROVE  Sequence(h \o ev) /\ Lone(h \o ev) /\ Range(h \o ev) = Range(h) \cup Range(ev)
  <1>1. Sequence(h \o ev) /\ Range(h \o ev) = Range(h) \cup Range(ev)
    BY Concat
  <1>2. ASSUME NEW l PROVE NumberOf(h \o ev, Iterations(h \o ev, l)) <= 1
    <2> DEFINE S == Iterations(h \o ev, l)
               T == Iterations(h, l)
    <2>1. (\A e \in Range(h) : e \in S <=> e \in T) /\ \A e \in Range(ev) : e \notin S
      BY <1>1 DEF Iterations
    <2>2. NumberOf(h, T) <= 1
      BY DEF Lone
    <2> HIDE DEF S, T
    <2>3. NumberOf(h, S) = NumberOf(h, T) /\ NumberOf(ev, S) = 0
      BY <2>1, NumberSame, NumberNone
    <2>4. NumberOf(h \o ev, S) = NumberOf(h, S) + NumberOf(ev, S) /\ NumberOf(h, S) \in Nat
      BY NumberConcat
    <2>. QED BY <2>2, <2>3, <2>4 DEF S
  <1>. QED BY <1>1, <1>2 DEF Lone

\* Those of a loop in a shorter sequence, and none if the first was one
LEMMA LoneShorter ==
    ASSUME NEW h, Sequence(h), h # <<>>, Lone(h)
    PROVE  /\ Sequence(Tail(h)) /\ Lone(Tail(h)) /\ Range(h) = {Head(h)} \cup Range(Tail(h))
           /\ Returning(Head(h)) => \A e \in Range(Tail(h)) : Returning(e) => e.loop # Head(h).loop
  <1> DEFINE e == Head(h)
             t == Tail(h)
             o == <<e>>
  <1>1. Sequence(t) /\ h = o \o t /\ Range(h) = {e} \cup Range(t)
    BY Headed
  <1>2. Sequence(o)
    BY Single
  <1>3. \A S : NumberOf(o, S) = IF e \in S THEN 1 ELSE 0
    BY NumberSingle
  <1> HIDE DEF e, t, o
  <1>4. ASSUME NEW l
        PROVE  /\ NumberOf(t, Iterations(t, l)) \in Nat
               /\ NumberOf(t, Iterations(t, l)) + (IF Returning(e) /\ e.loop = l THEN 1 ELSE 0) <= 1
    <2> DEFINE S == Iterations(h, l)
               T == Iterations(t, l)
    <2>1. (\A x \in Range(t) : x \in S <=> x \in T) /\ (e \in S <=> Returning(e) /\ e.loop = l)
      BY <1>1 DEF Iterations
    <2>2. NumberOf(h, S) <= 1
      BY DEF Lone
    <2> HIDE DEF S, T
    <2>3. NumberOf(t, S) = NumberOf(t, T)
      BY <2>1, NumberSame
    <2>4. NumberOf(h, S) = NumberOf(o, S) + NumberOf(t, S) /\ NumberOf(t, S) \in Nat
      BY ONLY <1>1, <1>2, NumberConcat
    <2>5. NumberOf(o, S) = IF Returning(e) /\ e.loop = l THEN 1 ELSE 0
      BY <1>3, <2>1
    <2>. QED BY <2>2, <2>3, <2>4, <2>5 DEF T
  <1>5. Lone(t)
    <2>1. ASSUME NEW l PROVE NumberOf(t, Iterations(t, l)) <= 1
      BY <1>4
    <2>. QED BY <2>1 DEF Lone
  <1>6. ASSUME Returning(e), NEW x \in Range(t), Returning(x), x.loop = e.loop PROVE FALSE
    <2>1. NumberOf(t, Iterations(t, e.loop)) = 0
      BY <1>4, <1>6
    <2>2. x \in Iterations(t, e.loop)
      BY <1>6 DEF Iterations
    <2>. QED BY <2>1, <2>2, <1>1, NumberNone
  <1>. QED BY <1>1, <1>5, <1>6 DEF e, t

\* The first event leaves
LEMMA FirstTies ==
    ASSUME NEW A, NEW L, NEW N, NEW h, NEW na, NEW ni, NEW X, Ties(A, L, N, h, na, ni, X), h # <<>>
    PROVE  Ties(A, L, N, Tail(h), na, ni, X)
  <1>1. Sequence(Tail(h)) /\ Lone(Tail(h)) /\ Range(Tail(h)) \subseteq Range(h)
    BY LoneShorter DEF Ties
  <1>2. Looped(A, L, Range(Tail(h)), na)
    BY <1>1 DEF Ties, Looped
  <1>3. Bordered(A, N, Range(Tail(h)), na, ni)
    BY <1>1 DEF Ties, Bordered
  <1>. QED BY <1>1, <1>2, <1>3 DEF Ties

\* Activities of ids, loops of ls and entries of es go, and only ends and rises come
Cuts(A, L, N, h, B, K, M, g, ids, ls, es) ==
    /\ DOMAIN B = DOMAIN A \ ids /\ Alike(A, B, DOMAIN B)
    /\ Fewer(L, K, ls) /\ Fewer(N, M, es)
    /\ \E ev : Quiet(ev, B) /\ g = h \o ev

\* The loops and the entries of those that stay are kept
LEMMA CutTies ==
    ASSUME NEW A, NEW L, NEW N, NEW h, NEW na, NEW ni, NEW X, Ties(A, L, N, h, na, ni, X),
           NEW B, NEW K, NEW M, NEW g, NEW ids, NEW ls, NEW es, Cuts(A, L, N, h, B, K, M, g, ids, ls, es),
           \A i \in DOMAIN B : A[i].loop # 0 => A[i].loop \notin ls,
           \A e \in Range(h) : Returning(e) => e.loop \notin ls,
           NEW Y, \A e \in DOMAIN N \ (es \cup Y) : e \notin X /\ \E i \in DOMAIN B : A[i].entry = e
    PROVE  Ties(B, K, M, g, na, ni, Y)
  <1>1. PICK ev : Quiet(ev, B) /\ g = h \o ev
    BY DEF Cuts
  <1>2. /\ DOMAIN B = DOMAIN A \ ids /\ Alike(A, B, DOMAIN B)
        /\ DOMAIN K = DOMAIN L \ ls /\ \A l \in DOMAIN K : K[l] = L[l]
        /\ DOMAIN M = DOMAIN N \ es /\ \A e \in DOMAIN M : M[e] = N[e]
    BY DEF Cuts, Fewer
  <1>3. Sequence(ev) /\ \A e \in Range(ev) : ~Returning(e) /\ e.kind \in {"done", "capacity"}
    BY <1>1 DEF Quiet, Returning
  <1>4. Sequence(g) /\ Lone(g) /\ Range(g) = Range(h) \cup Range(ev)
    BY <1>1, <1>3, LoneLonger DEF Ties
  <1>5. Looped(B, K, Range(g), na)
    <2>1. Looped(A, L, Range(h), na)
      BY DEF Ties
    <2>2. \A e \in Range(g) : Returning(e) => e \in Range(h)
      BY <1>3, <1>4
    <2>. QED BY <2>1, <2>2, <1>2 DEF Looped, Alike
  <1>6. Bordered(B, M, Range(g), na, ni)
    <2>1. Bordered(A, N, Range(h), na, ni)
      BY DEF Ties
    <2>2. ASSUME NEW e \in Range(h), e.kind = "boundary"
          PROVE  /\ e.act \in 1 .. na - 1
                 /\ \A i \in DOMAIN B : i = e.act \/ B[i].loop = e.act => Guards(e, B[i]) /\ B[i].entry = 0
                 /\ \A f \in Range(g) : Returning(f) /\ f.loop = e.act => Guards(e, f)
      <3>1. \A f \in Range(g) : Returning(f) => f \in Range(h)
        BY <1>3, <1>4
      <3>. QED BY <2>1, <2>2, <3>1, <1>2 DEF Bordered, Alike, Guards
    <2>3. ASSUME NEW e \in Range(h), e.kind = "multiBoundary"
          PROVE  e.act \in 1 .. ni - 1 /\ (e.act \in DOMAIN M => Guards(e, M[e.act]))
      BY <2>1, <2>3, <1>2 DEF Bordered
    <2>4. ASSUME NEW e \in Range(h), e.kind = "done", e.act \in DOMAIN B PROVE B[e.act].node = e.node
      BY <2>1, <2>4, <1>2 DEF Bordered, Alike
    <2>5. ASSUME NEW e \in Range(h), e.kind = "deadline"
          PROVE  e.act \in 1 .. ni - 1 /\ \E u \in Subs : e.node \in Range(Borders[u])
      BY <2>1, <2>5 DEF Bordered
    <2>6. ASSUME NEW e \in Range(ev), e.kind = "done", e.act \in DOMAIN B PROVE B[e.act].node = e.node
      BY <1>1, <2>6 DEF Quiet
    <2>. QED BY <2>2, <2>3, <2>4, <2>5, <2>6, <1>3, <1>4 DEF Bordered
  <1>7. Populated(B, M, Y)
    <2>1. ASSUME NEW e \in DOMAIN M \ Y PROVE Peopled(B, M, e)
      <3>1. Peopled(A, N, e) /\ \E i \in DOMAIN B : A[i].entry = e
        BY <1>2 DEF Ties, Populated
      <3>. QED BY <3>1, <1>2 DEF Peopled, Alike
    <2>. QED BY <2>1 DEF Populated
  <1>8. Kinds(B)
    BY <1>2 DEF Ties, Kinds, Alike
  <1>. QED BY <1>4, <1>5, <1>6, <1>7, <1>8 DEF Ties

\* Events come, but no token that goes on with a loop
LEMMA MoreTies ==
    ASSUME NEW A, NEW L, NEW N, NEW h, NEW na, NEW ni, NEW X, Ties(A, L, N, h, na, ni, X),
           NEW ev, Sequence(ev), \A e \in Range(ev) : ~Returning(e),
           Bordered(A, N, Range(ev), na, ni),
           \A e \in Range(ev), f \in Range(h) : e.kind = "boundary" /\ Returning(f) => f.loop # e.act
    PROVE  Ties(A, L, N, h \o ev, na, ni, X)
  <1>1. Sequence(h \o ev) /\ Lone(h \o ev) /\ Range(h \o ev) = Range(h) \cup Range(ev)
    BY LoneLonger DEF Ties
  <1> DEFINE g == h \o ev
  <1> HIDE DEF g
  <1>2. Looped(A, L, Range(g), na)
    <2>1. Looped(A, L, Range(h), na) /\ \A e \in Range(g) : Returning(e) => e \in Range(h)
      BY <1>1 DEF Ties, g
    <2>. QED BY <2>1 DEF Looped
  <1>3. Bordered(A, N, Range(g), na, ni)
    <2>1. Bordered(A, N, Range(h), na, ni)
      BY DEF Ties
    <2>2. \A f \in Range(g) : Returning(f) => f \in Range(h)
      BY <1>1 DEF g
    <2>3. ASSUME NEW e \in Range(g), e.kind = "boundary"
          PROVE  /\ e.act \in 1 .. na - 1
                 /\ \A i \in DOMAIN A : i = e.act \/ A[i].loop = e.act => Guards(e, A[i]) /\ A[i].entry = 0
                 /\ \A f \in Range(g) : Returning(f) /\ f.loop = e.act => Guards(e, f)
      <3>1. CASE e \in Range(h)
        BY <2>1, <2>2, <2>3, <3>1 DEF Bordered
      <3>2. CASE e \in Range(ev)
        <4>1. \A f \in Range(g) : ~(Returning(f) /\ f.loop = e.act)
          BY <2>2, <2>3, <3>2
        <4>. QED BY <4>1, <2>3, <3>2 DEF Bordered
      <3>. QED BY <3>1, <3>2, <1>1 DEF g
    <2>4. ASSUME NEW e \in Range(g)
          PROVE  /\ e.kind = "multiBoundary" =>
                       e.act \in 1 .. ni - 1 /\ (e.act \in DOMAIN N => Guards(e, N[e.act]))
                 /\ e.kind = "done" /\ e.act \in DOMAIN A => A[e.act].node = e.node
                 /\ e.kind = "deadline" =>
                       e.act \in 1 .. ni - 1 /\ \E u \in Subs : e.node \in Range(Borders[u])
      <3>1. CASE e \in Range(h)
        BY <2>1, <3>1 DEF Bordered
      <3>2. CASE e \in Range(ev)
        BY <3>2 DEF Bordered
      <3>. QED BY <3>1, <3>2, <1>1 DEF g
    <2>. QED BY <2>3, <2>4 DEF Bordered
  <1>. QED BY <1>1, <1>2, <1>3 DEF Ties, g

\* A token goes on with the loop l, that nothing goes on with
LEMMA ReturnTies ==
    ASSUME NEW A, NEW L, NEW N, NEW h, NEW na, NEW ni, NEW X, Ties(A, L, N, h, na, ni, X),
           NEW e, Returning(e), e.loop \in DOMAIN L, \A i \in DOMAIN A : A[i].loop # e.loop,
           \A f \in Range(h) : Returning(f) => f.loop # e.loop,
           \A f \in Range(h) : f.kind = "boundary" /\ f.act = e.loop => Guards(f, e),
           NEW x, NEW K, K = [L EXCEPT ![e.loop].iteration = x]
    PROVE  Ties(A, K, N, h \o <<e>>, na, ni, X)
  <1> DEFINE g == h \o <<e>>
  <1>0. Sequence(<<e>>) /\ Range(<<e>>) = {e}
    BY Single
  <1>1. Sequence(g) /\ Range(g) = Range(h) \cup {e}
    <2> DEFINE o == <<e>>
    <2>1. Sequence(o) /\ Range(o) = {e} /\ Sequence(h)
      BY <1>0 DEF Ties
    <2> HIDE DEF o
    <2>2. Sequence(h \o o) /\ Range(h \o o) = Range(h) \cup Range(o)
      BY ONLY <2>1, Concat
    <2>. QED BY <2>1, <2>2 DEF o
  <1>2. Lone(g)
    <2>1. ASSUME NEW l PROVE NumberOf(g, Iterations(g, l)) <= 1
      <3> DEFINE S == Iterations(g, l)
                 T == Iterations(h, l)
      <3>1. (\A f \in Range(h) : f \in S <=> f \in T) /\ (e \in S <=> l = e.loop)
        BY <1>1 DEF Iterations
      <3>2. NumberOf(h, T) <= 1
        BY DEF Ties, Lone
      <3>3. l = e.loop => \A f \in Range(h) : f \notin T
        BY DEF Iterations
      <3> HIDE DEF S, T
      <3>4. NumberOf(h, S) = NumberOf(h, T) /\ (l = e.loop => NumberOf(h, T) = 0) /\ NumberOf(h, S) \in Nat
        BY <3>1, <3>3, NumberSame, NumberNone DEF Ties
      <3>5. NumberOf(g, S) = NumberOf(h, S) + NumberOf(<<e>>, S)
        BY <1>0, NumberConcat DEF Ties
      <3>6. NumberOf(<<e>>, S) = IF l = e.loop THEN 1 ELSE 0
        BY <3>1, NumberSingle
      <3>. QED BY <3>2, <3>4, <3>5, <3>6 DEF S
    <2>. QED BY <2>1 DEF Lone
  <1> HIDE DEF g
  <1>3. Looped(A, K, Range(g), na)
    <2>1. Looped(A, L, Range(h), na)
      BY DEF Ties
    <2>2. /\ DOMAIN K = DOMAIN L /\ \A l \in DOMAIN L : {"iteration", "current"} \subseteq DOMAIN L[l]
      BY <2>1 DEF Looped
    <2>3. \A l \in DOMAIN L : K[l].current = L[l].current /\ {"iteration", "current"} \subseteq DOMAIN K[l]
      BY <2>2
    <2>4. \A f \in Range(g) : f \in Range(h) \/ f = e
      BY <1>1
    <2>. QED BY <2>1, <2>2, <2>3, <2>4 DEF Looped
  <1>4. Bordered(A, N, Range(g), na, ni)
    <2>1. Bordered(A, N, Range(h), na, ni)
      BY DEF Ties
    <2>2. \A f \in Range(g) : f \in Range(h) \/ f = e
      BY <1>1
    <2>3. e.kind = "enter"
      BY DEF Returning
    <2>. QED BY <2>1, <2>2, <2>3 DEF Bordered
  <1>. QED BY <1>1, <1>2, <1>3, <1>4 DEF Ties, g

\* What the loops become when the activity na comes: those of L, with a new one, or with one
\* that goes on
LoopsWith(A, L, E, K, na, l) ==
    \/ l = 0 /\ K = L
    \/ l = na /\ K = With(L, na, [iteration |-> 1, current |-> na])
    \/ /\ l \in DOMAIN L /\ K = [L EXCEPT ![l].current = na]
       /\ \A i \in DOMAIN A : A[i].loop # l
       /\ \A e \in E : Returning(e) => e.loop # l

\* An activity comes
Readies(A, L, N, h, na, ni, X, new, K, B, ev) ==
    /\ na \in Nat \ {0} /\ DOMAIN A \subseteq 1 .. na - 1
    /\ Sequence(h) /\ Lone(h) /\ Looped(A, L, Range(h), na) /\ Bordered(A, N, Range(h), na + 1, ni)
    /\ Populated(A, N, X) /\ Kinds(A)
    /\ Type[new.node] \in {"task", "timer"} /\ (new.entry # 0 => new.entry \in X)
    /\ \A e \in Range(h) : e.kind = "boundary" /\ (e.act = na \/ e.act = new.loop)
                           => Guards(e, new) /\ new.entry = 0
    /\ \A e \in Range(h) : e.kind = "done" => e.act # na
    /\ LoopsWith(A, L, Range(h), K, na, new.loop) /\ 0 \notin DOMAIN N
    /\ DOMAIN B = DOMAIN A \cup {na} /\ Alike(With(A, na, new), B, DOMAIN B)
    /\ Quiet(ev, B)

\* What ties activities, loops, entries and events together is kept when an activity comes
LEMMA ComeTies ==
    ASSUME NEW A, NEW L, NEW N, NEW h, NEW na, NEW ni, NEW X, NEW new, NEW K, NEW B, NEW ev,
           Readies(A, L, N, h, na, ni, X, new, K, B, ev)
    PROVE  Ties(B, K, N, h \o ev, na + 1, ni, X)
  <1>0. /\ na \in Nat \ {0} /\ DOMAIN A \subseteq 1 .. na - 1
        /\ Sequence(h) /\ Lone(h) /\ Looped(A, L, Range(h), na) /\ Bordered(A, N, Range(h), na + 1, ni)
        /\ Populated(A, N, X) /\ Kinds(A)
        /\ Type[new.node] \in {"task", "timer"} /\ (new.entry # 0 => new.entry \in X)
        /\ \A e \in Range(h) : e.kind = "boundary" /\ (e.act = na \/ e.act = new.loop)
                               => Guards(e, new) /\ new.entry = 0
        /\ \A e \in Range(h) : e.kind = "done" => e.act # na
        /\ LoopsWith(A, L, Range(h), K, na, new.loop) /\ 0 \notin DOMAIN N
        /\ DOMAIN B = DOMAIN A \cup {na} /\ Alike(With(A, na, new), B, DOMAIN B)
        /\ Quiet(ev, B)
    BY DEF Readies
  <1> USE <1>0
  <1> DEFINE g == h \o ev
  <1>1. Sequence(ev) /\ \A e \in Range(ev) : ~Returning(e) /\ e.kind \in {"done", "capacity"}
    BY DEF Quiet, Returning
  <1>2. Sequence(g) /\ Lone(g) /\ Range(g) = Range(h) \cup Range(ev)
    BY <1>1, LoneLonger
  <1>3. na \notin DOMAIN A /\ na + 1 - 1 = na /\ 1 .. na - 1 \subseteq 1 .. na /\ na \in 1 .. na
    OBVIOUS
  <1>4. /\ \A i \in DOMAIN A : B[i].node = A[i].node /\ B[i].case = A[i].case /\ B[i].entry = A[i].entry
                               /\ B[i].loop = A[i].loop
        /\ B[na].node = new.node /\ B[na].case = new.case /\ B[na].entry = new.entry /\ B[na].loop = new.loop
    BY <1>3 DEF Alike, With
  <1> HIDE DEF g
  <1>5. Looped(B, K, Range(g), na + 1)
    <2>0. \A e \in Range(g) : Returning(e) => e \in Range(h)
      BY <1>1, <1>2
    <2>1. CASE new.loop = 0 /\ K = L
      BY <2>0, <2>1, <1>3, <1>4 DEF Looped
    <2>2. CASE new.loop = na /\ K = With(L, na, [iteration |-> 1, current |-> na])
      <3>1. na \notin DOMAIN L
        BY <1>3 DEF Looped
      <3>2. /\ DOMAIN K = DOMAIN L \cup {na} /\ K[na] = [iteration |-> 1, current |-> na]
            /\ \A l \in DOMAIN L : K[l] = L[l]
        BY <2>2, <3>1 DEF With
      <3>3. \A l \in DOMAIN K : /\ l \in 1 .. na /\ {"iteration", "current"} \subseteq DOMAIN K[l]
                                /\ K[l].current \in 1 .. na
                                /\ K[l].current \in DOMAIN B => B[K[l].current].loop = l
        <4>1. ASSUME NEW l \in DOMAIN L
              PROVE  /\ l \in 1 .. na /\ {"iteration", "current"} \subseteq DOMAIN K[l]
                     /\ K[l].current \in 1 .. na
                     /\ K[l].current \in DOMAIN B => B[K[l].current].loop = l
          BY <3>2, <1>3, <1>4 DEF Looped
        <4>. QED BY <4>1, <3>2, <2>2, <1>3, <1>4
      <3>4. \A i \in DOMAIN B : B[i].loop # 0 => B[i].loop \in DOMAIN K /\ K[B[i].loop].current = i
        BY <3>2, <2>2, <1>3, <1>4 DEF Looped
      <3>5. \A e \in Range(g) : Returning(e) => e.loop \in DOMAIN K /\ \A i \in DOMAIN B : B[i].loop # e.loop
        BY <2>0, <3>1, <3>2, <2>2, <1>3, <1>4 DEF Looped
      <3>. QED BY <3>3, <3>4, <3>5, <1>3 DEF Looped
    <2>3. CASE /\ new.loop \in DOMAIN L /\ K = [L EXCEPT ![new.loop].current = na]
               /\ \A i \in DOMAIN A : A[i].loop # new.loop
               /\ \A e \in Range(h) : Returning(e) => e.loop # new.loop
      <3>1. \A l \in DOMAIN L : {"iteration", "current"} \subseteq DOMAIN L[l]
        BY DEF Looped
      <3>2. /\ DOMAIN K = DOMAIN L /\ K[new.loop].current = na
            /\ \A l \in DOMAIN L : {"iteration", "current"} \subseteq DOMAIN K[l]
            /\ \A l \in DOMAIN L \ {new.loop} : K[l] = L[l]
        BY <2>3, <3>1
      <3>3. \A l \in DOMAIN K : /\ l \in 1 .. na
                                /\ K[l].current \in 1 .. na
                                /\ K[l].current \in DOMAIN B => B[K[l].current].loop = l
        BY <3>2, <2>3, <1>3, <1>4 DEF Looped
      <3>4. \A i \in DOMAIN B : B[i].loop # 0 => B[i].loop \in DOMAIN K /\ K[B[i].loop].current = i
        BY <3>2, <2>3, <1>3, <1>4 DEF Looped
      <3>5. \A e \in Range(g) : Returning(e) => e.loop \in DOMAIN K /\ \A i \in DOMAIN B : B[i].loop # e.loop
        BY <2>0, <3>2, <2>3, <1>3, <1>4 DEF Looped
      <3>. QED BY <3>2, <3>3, <3>4, <3>5, <1>3 DEF Looped
    <2>. QED BY <2>1, <2>2, <2>3 DEF LoopsWith
  <1>6. Bordered(B, N, Range(g), na + 1, ni)
    <2>1. ASSUME NEW e \in Range(h), e.kind = "boundary"
          PROVE  /\ e.act \in 1 .. na + 1 - 1
                 /\ \A i \in DOMAIN B : i = e.act \/ B[i].loop = e.act => Guards(e, B[i]) /\ B[i].entry = 0
                 /\ \A f \in Range(g) : Returning(f) /\ f.loop = e.act => Guards(e, f)
      <3>1. \A f \in Range(g) : Returning(f) => f \in Range(h)
        BY <1>1, <1>2
      <3>2. ASSUME NEW i \in DOMAIN A, i = e.act \/ B[i].loop = e.act
            PROVE  Guards(e, B[i]) /\ B[i].entry = 0
        BY <2>1, <3>2, <1>4 DEF Bordered, Guards
      <3>3. ASSUME na = e.act \/ B[na].loop = e.act PROVE Guards(e, B[na]) /\ B[na].entry = 0
        BY <2>1, <3>3, <1>4 DEF Guards
      <3>. QED BY <2>1, <3>1, <3>2, <3>3 DEF Bordered
    <2>2. ASSUME NEW e \in Range(h), e.kind = "done", e.act \in DOMAIN B PROVE B[e.act].node = e.node
      <3>1. CASE e.act \in DOMAIN A
        BY <2>2, <3>1, <1>4 DEF Bordered
      <3>2. CASE e.act = na
        BY <2>2, <3>2
      <3>. QED BY <3>1, <3>2, <2>2
    <2>3. ASSUME NEW e \in Range(h)
          PROVE  /\ e.kind = "multiBoundary" =>
                       e.act \in 1 .. ni - 1 /\ (e.act \in DOMAIN N => Guards(e, N[e.act]))
                 /\ e.kind = "deadline" =>
                       e.act \in 1 .. ni - 1 /\ \E u \in Subs : e.node \in Range(Borders[u])
      BY DEF Bordered
    <2>4. ASSUME NEW e \in Range(ev), e.kind = "done", e.act \in DOMAIN B PROVE B[e.act].node = e.node
      BY <2>4 DEF Quiet
    <2>. QED BY <2>1, <2>2, <2>3, <2>4, <1>1, <1>2 DEF Bordered
  <1>7. Populated(B, N, X)
    <2>1. ASSUME NEW e \in DOMAIN N \ X PROVE Peopled(B, N, e)
      <3>1. Peopled(A, N, e) /\ new.entry # e /\ e # 0
        BY DEF Populated
      <3>2. \A i \in DOMAIN B : B[i].entry = e => i \in DOMAIN A /\ A[i].entry = e
        BY <3>1, <1>4
      <3>. QED BY <3>1, <3>2, <1>4 DEF Peopled
    <2>. QED BY <2>1 DEF Populated
  <1>8. Kinds(B)
    BY <1>4 DEF Kinds
  <1>. QED BY <1>2, <1>5, <1>6, <1>7, <1>8 DEF Ties, g

-----------------------------------------------------------------------------
(* What a case keeps *)

\* The activations an item of the case has gone through, of m there have been
IsMarks(s, m) == s \in Seq(1 .. m)

\* A sub-process of a case
IsSub(s, m) ==
    /\ DOMAIN s = {"tokens", "instance", "marks", "epoch"}
    /\ s.tokens \in Int /\ s.instance \in Nat /\ s.epoch \in Nat /\ IsMarks(s.marks, m)

\* A case: fewer tokens wait at a join than it waits for; sz are the sizes of the activations
CaseFields == {"tokens", "alive", "endId", "ands", "ors", "instant", "events", "subs"}
CaseIs(k, sz) ==
    /\ DOMAIN k = CaseFields /\ k.tokens \in Int
    /\ DOMAIN k.subs = Subs /\ \A u \in Subs : IsSub(k.subs[u], Len(sz))
    /\ Heaped(k.ands) /\ DOMAIN k.ands \subseteq Nodes
    /\ \A n \in DOMAIN k.ands : k.ands[n] < Incoming[n]
    /\ Heaped(k.ors) /\ DOMAIN k.ors \subseteq Nodes \X (1 .. Len(sz))
    /\ \A key \in DOMAIN k.ors : k.ors[key] < sz[key[2]]

\* It goes on
Going(k) == k.alive = TRUE /\ k.endId = NoNode

\* No token has left a sub-process that is still to begin
Epochs(k, c, E) ==
    \A e \in E : e.kind = "enter" /\ e.case = c =>
       e.epoch \in Nat /\ (Inside[e.node] # <<>> => e.epoch <= EpochAt(k, e.node))

\* Everything has its marks
Marked(A, N, E, m) ==
    /\ \A e \in E : e.kind = "enter" => IsMarks(e.marks, m)
    /\ \A i \in DOMAIN A : IsMarks(A[i].marks, m)
    /\ \A e \in DOMAIN N : IsMarks(N[e].marks, m)

\* One activity is another, but for what it holds
AlikeAt(A, B, i) ==
    /\ B[i].node = A[i].node /\ B[i].case = A[i].case /\ B[i].entry = A[i].entry
    /\ B[i].loop = A[i].loop /\ B[i].marks = A[i].marks

\* The other cases are as they were
Others(w) ==
    /\ \A i \in DOMAIN w.acts : w.acts[i].case # Due.case => i \in DOMAIN acts /\ AlikeAt(acts, w.acts, i)
    /\ \A i \in DOMAIN acts : acts[i].case # Due.case => i \in DOMAIN w.acts /\ AlikeAt(acts, w.acts, i)
    /\ \A e \in DOMAIN w.entries : w.entries[e].case # Due.case => e \in DOMAIN entries /\ w.entries[e] = entries[e]
    /\ \A e \in DOMAIN entries : entries[e].case # Due.case => e \in DOMAIN w.entries /\ w.entries[e] = entries[e]
    /\ \A n, c : c # Due.case => (<<n, c>> \in w.blocked <=> <<n, c>> \in blocked)
    /\ \A e \in Range(w.events) : e.kind = "enter" => e.case = Due.case

\* The tables of w
Tied(w, X) ==
    /\ Ties(w.acts, w.loops, w.entries, All(w), w.nextAct, w.nextId, X)
    /\ InTime(w.acts, Tail(heap), w.events)

\* The case of w and the others
Noted(w, sz) ==
    /\ Others(w) /\ Marked(w.acts, w.entries, Coming(w), Len(sz))
    /\ CaseIs(w.k, sz) /\ Going(w.k) /\ Epochs(w.k, Due.case, Coming(w))

\* The activities of B that events of S end are those of A
SameEnded(A, B, S) ==
    \A d \in S : d.kind = "done" /\ d.act \in DOMAIN B =>
       /\ d.act \in DOMAIN A /\ B[d.act].node = A[d.act].node /\ B[d.act].case = A[d.act].case
       /\ B[d.act].loop = A[d.act].loop /\ B[d.act].entry = A[d.act].entry

\* Boundaries that are in time for A are in time for B then
LEMMA InTimeAlike ==
    ASSUME NEW A, NEW B, NEW h, NEW ev, InTime(A, h, ev), SameEnded(A, B, Range(h) \cup Range(ev))
    PROVE  InTime(B, h, ev)
  <1>1. \A d \in Range(h) \cup Range(ev) : \A e : Misses(B, d, e) => Misses(A, d, e)
    BY DEF SameEnded, Misses, Watched
  <1>2. (\A k \in DOMAIN h : h[k] \in Range(h)) /\ \A k \in DOMAIN ev : ev[k] \in Range(ev)
    BY DEF Range
  <1>3. Early(h, B)
    BY <1>1, <1>2 DEF InTime, Early
  <1>4. InOrder(B, ev)
    BY <1>1, <1>2 DEF InTime, InOrder
  <1>. QED BY <1>1, <1>3, <1>4 DEF InTime

\* Events that concern no activity keep it
LEMMA InTimeMore ==
    ASSUME NEW A, NEW h, NEW ev, Sequence(ev), NEW more, Sequence(more), InTime(A, h, ev),
           \A e \in Range(more) : \A i \in DOMAIN A : ~Watched(e, i, A[i])
    PROVE  InTime(A, h, ev \o more)
  <1>1. \A e \in Range(more) : \A d : ~Misses(A, d, e)
    BY DEF Misses
  <1>2. \A k \in DOMAIN more : more[k] \in Range(more)
    BY DEF Range
  <1>3. InOrder(A, more)
    BY <1>1, <1>2 DEF InOrder
  <1>4. InOrder(A, ev \o more)
    BY <1>1, <1>3, InOrderConcat DEF InTime
  <1>5. Range(ev \o more) = Range(ev) \cup Range(more)
    BY Concat
  <1>. QED BY <1>1, <1>4, <1>5 DEF InTime

\* Nothing new comes too late
LEMMA InTimeNone ==
    ASSUME NEW A, NEW h, Early(h, A)
    PROVE  InTime(A, h, <<>>)
  <1>1. Range(<<>>) = {} /\ DOMAIN <<>> = {}
    BY Empty DEF Range
  <1>. QED BY <1>1 DEF InTime, InOrder

\* What is left of the heap is in time too
LEMMA EarlyTail ==
    ASSUME NEW A, NEW h, Sequence(h), h # <<>>, Early(h, A)
    PROVE  Early(Tail(h), A)
  <1>1. Sequence(Tail(h)) /\ h = <<Head(h)>> \o Tail(h) /\ Sequence(<<Head(h)>>)
    BY Headed, Single
  <1>2. Early(<<Head(h)>> \o Tail(h), A)
    BY <1>1
  <1>. QED BY ONLY <1>1, <1>2, EarlyConcat

\* Only timers watch activities
LEMMA Unwatched ==
    \A e, i, x : e.kind \notin {"boundary", "multiBoundary", "deadline"} => ~Watched(e, i, x)
  BY DEF Watched

\* x is w with what a step does to the case: it may end things and begin things
Notes(w, x, sz) ==
    /\ \A i \in DOMAIN x.acts : \/ i \in DOMAIN w.acts /\ AlikeAt(w.acts, x.acts, i)
                                \/ x.acts[i].case = Due.case /\ IsMarks(x.acts[i].marks, Len(sz))
    /\ \A i \in DOMAIN w.acts : w.acts[i].case # Due.case => i \in DOMAIN x.acts /\ AlikeAt(w.acts, x.acts, i)
    /\ \A e \in DOMAIN x.entries : \/ e \in DOMAIN w.entries /\ x.entries[e] = w.entries[e]
                                   \/ x.entries[e].case = Due.case /\ IsMarks(x.entries[e].marks, Len(sz))
    /\ \A e \in DOMAIN w.entries : w.entries[e].case # Due.case => e \in DOMAIN x.entries /\ x.entries[e] = w.entries[e]
    /\ \A n, c : c # Due.case => (<<n, c>> \in x.blocked <=> <<n, c>> \in w.blocked)
    /\ CaseIs(x.k, sz) /\ Going(x.k) /\ \A u \in Subs : w.k.subs[u].epoch <= x.k.subs[u].epoch
    /\ \E ev : /\ Sequence(ev) /\ x.events = w.events \o ev
               /\ \A e \in Range(ev) : e.kind = "enter" =>
                     /\ e.case = Due.case /\ IsMarks(e.marks, Len(sz)) /\ e.epoch \in Nat
                     /\ Inside[e.node] # <<>> => e.epoch <= EpochAt(x.k, e.node)

\* It keeps the case and the others
LEMMA NotedNext ==
    ASSUME Here, NEW w, NEW Y, Good(w, Y), NEW x, NEW sz, Noted(w, sz), Notes(w, x, sz)
    PROVE  Noted(x, sz)
  <1>0. PICK ev : /\ Sequence(ev) /\ x.events = w.events \o ev
                  /\ \A e \in Range(ev) : e.kind = "enter" =>
                        /\ e.case = Due.case /\ IsMarks(e.marks, Len(sz)) /\ e.epoch \in Nat
                        /\ Inside[e.node] # <<>> => e.epoch <= EpochAt(x.k, e.node)
    BY DEF Notes
  <1>1. Coming(x) = Coming(w) \cup Range(ev) /\ Range(x.events) = Range(w.events) \cup Range(ev)
    <2>1. Sequence(w.events)
      BY DEF Good
    <2>2. Coming(x) = Coming(w) \cup Range(ev)
      BY <1>0, <2>1, AheadLonger
    <2>3. Range(w.events \o ev) = Range(w.events) \cup Range(ev)
      BY <1>0, <2>1, Concat
    <2>. QED BY <1>0, <2>2, <2>3
  <1>2. Others(x)
    BY <1>0, <1>1 DEF Noted, Notes, Others, AlikeAt
  <1>3. Marked(x.acts, x.entries, Coming(x), Len(sz))
    BY <1>0, <1>1 DEF Noted, Notes, Marked, AlikeAt
  <1>4. Epochs(x.k, Due.case, Coming(x))
    <2>1. ASSUME NEW e \in Coming(w), e.kind = "enter", e.case = Due.case
          PROVE  e.epoch \in Nat /\ (Inside[e.node] # <<>> => e.epoch <= EpochAt(x.k, e.node))
      <3>1. e.epoch \in Nat /\ (Inside[e.node] # <<>> => e.epoch <= EpochAt(w.k, e.node))
        BY <2>1 DEF Noted, Epochs
      <3>2. CASE Inside[e.node] # <<>>
        <4>1. e.node \in Nodes
          BY <2>1 DEF Good, Events, IsEvent
        <4>2. Head(Inside[e.node]) \in Subs
          BY <4>1, <3>2, InsideIs DEF Here
        <4>3. EpochAt(w.k, e.node) <= EpochAt(x.k, e.node) /\ EpochAt(w.k, e.node) \in Nat /\ EpochAt(x.k, e.node) \in Nat
          BY <4>2, <3>2 DEF Notes, Noted, EpochAt, CaseIs, IsSub
        <4>. QED BY <3>1, <4>3
      <3>. QED BY <3>1, <3>2
    <2>. QED BY <2>1, <1>0, <1>1 DEF Epochs
  <1>. QED BY <1>2, <1>3, <1>4 DEF Noted, Notes

\* Longer sizes
LEMMA NotedLater ==
    ASSUME NEW w, NEW sz, sz \in Seq(Nat \ {0}), Noted(w, sz), NEW j \in Nat \ {0}
    PROVE  Append(sz, j) \in Seq(Nat \ {0}) /\ Noted(w, Append(sz, j)) /\ Len(Append(sz, j)) = Len(sz) + 1
  <1> DEFINE s == Append(sz, j)
  <1>1. /\ s \in Seq(Nat \ {0}) /\ Len(sz) \in Nat /\ Len(s) = Len(sz) + 1
        /\ \A i \in 1 .. Len(sz) : s[i] = sz[i]
    BY AppendProperties, LenProperties
  <1> HIDE DEF s
  <1>2. \A x : IsMarks(x, Len(sz)) => IsMarks(x, Len(s))
    <2>1. 1 .. Len(sz) \subseteq 1 .. Len(s)
      BY <1>1
    <2>. QED BY <2>1, SeqMonotonic DEF IsMarks
  <1>3. CaseIs(w.k, s)
    <2>1. \A key \in DOMAIN w.k.ors : key[2] \in 1 .. Len(sz) /\ key \in Nodes \X (1 .. Len(s))
      BY <1>1 DEF Noted, CaseIs
    <2>2. \A key \in DOMAIN w.k.ors : w.k.ors[key] < s[key[2]]
      BY <2>1, <1>1 DEF Noted, CaseIs
    <2>3. \A u \in Subs : IsSub(w.k.subs[u], Len(s))
      BY <1>2 DEF Noted, CaseIs, IsSub
    <2>. QED BY <2>1, <2>2, <2>3 DEF Noted, CaseIs
  <1>4. Marked(w.acts, w.entries, Coming(w), Len(s))
    BY <1>2 DEF Noted, Marked
  <1>. QED BY <1>1, <1>3, <1>4 DEF Noted, s

\* What goes is of the case: x is w without the activities of ids, the loops of ls and the entries
\* of es, or with another case k and another set of blocked gateways
Cut(w, x, ids, ls, es) ==
    /\ Good(x, {}) /\ x.nextAct = w.nextAct /\ x.nextId = w.nextId
    /\ DOMAIN x.acts = DOMAIN w.acts \ ids /\ Alike(w.acts, x.acts, DOMAIN x.acts)
    /\ Fewer(w.loops, x.loops, ls) /\ Fewer(w.entries, x.entries, es)
    /\ \E ev : Quiet(ev, x.acts) /\ x.events = w.events \o ev
    /\ x.k = w.k /\ x.blocked = w.blocked
    /\ \A i \in ids \cap DOMAIN w.acts : w.acts[i].case = Due.case
    /\ \A e \in es \cap DOMAIN w.entries : w.entries[e].case = Due.case

\* The tables it leaves
LEMMA CutNoted ==
    ASSUME Here, NEW w, NEW Y, Good(w, Y), NEW sz, Noted(w, sz), NEW x, NEW ids, NEW ls, NEW es, Cut(w, x, ids, ls, es)
    PROVE  Noted(x, sz)
  <1>1. PICK ev : Quiet(ev, x.acts) /\ x.events = w.events \o ev
    BY DEF Cut
  <1>2. /\ DOMAIN x.acts = DOMAIN w.acts \ ids /\ Alike(w.acts, x.acts, DOMAIN x.acts)
        /\ DOMAIN x.entries = DOMAIN w.entries \ es /\ \A e \in DOMAIN x.entries : x.entries[e] = w.entries[e]
        /\ \A i \in ids \cap DOMAIN w.acts : w.acts[i].case = Due.case
        /\ \A e \in es \cap DOMAIN w.entries : w.entries[e].case = Due.case
    BY DEF Cut, Fewer
  <1>3. \A i \in DOMAIN x.acts : i \in DOMAIN w.acts /\ AlikeAt(w.acts, x.acts, i)
    BY <1>2 DEF Alike, AlikeAt
  <1>4. \A e \in Range(ev) : e.kind # "enter"
    BY <1>1 DEF Quiet
  <1>5. x.k = w.k /\ x.blocked = w.blocked /\ Sequence(ev)
    BY <1>1 DEF Cut, Quiet
  <1>6. CaseIs(w.k, sz) /\ Going(w.k) /\ \A u \in Subs : w.k.subs[u].epoch <= w.k.subs[u].epoch
    BY DEF Noted, CaseIs, IsSub
  <1>7. Notes(w, x, sz)
    BY <1>1, <1>2, <1>3, <1>4, <1>5, <1>6 DEF Notes
  <1>. QED BY <1>7, NotedNext

\* What a batch that is dropped from w leaves, once loops and entries have been closed (v)
Closing(w, v, ids, ls, es) ==
    /\ v.k = w.k /\ v.acts = w.acts /\ v.nextAct = w.nextAct /\ v.nextId = w.nextId
    /\ v.blocked = w.blocked /\ v.events = w.events
    /\ Fewer(w.loops, v.loops, ls) /\ Fewer(w.entries, v.entries, es)
    /\ Good(v, ids)
    /\ \A i \in ids \cap DOMAIN w.acts : w.acts[i].case = Due.case
    /\ \A e \in es \cap DOMAIN w.entries : w.entries[e].case = Due.case

\* The batch is cut off then: its activities, loops and entries are gone, and nothing else
LEMMA FreedCut ==
    ASSUME Here, NEW w, NEW v, NEW ids, NEW ls, NEW es, Closing(w, v, ids, ls, es), NEW x \in Released(v, ids)
    PROVE  Cut(w, x, ids, ls, es)
  <1>1. Freed(v, ids, x)
    BY ReleasedFrees DEF Closing
  <1>. QED BY <1>1 DEF Freed, Rest, Cut, Closing

\* The tables that are left, if the loops are those of the activities that go, and the entries
\* they are instances of go too, or are to be looked at
LEMMA CutTied ==
    ASSUME Here, NEW w, NEW Z, Good(w, Z), NEW X, Tied(w, X), NEW x, NEW ids, NEW ls, NEW es,
           Cut(w, x, ids, ls, es), ids \subseteq DOMAIN w.acts, NEW Y, X \subseteq es \cup Y,
           \A l \in ls : \E i \in ids : w.acts[i].loop = l,
           \A i \in ids : w.acts[i].entry # 0 => w.acts[i].entry \in es \cup Y
    PROVE  Tied(x, Y)
  <1> DEFINE A == w.acts
             B == x.acts
             h == All(w)
  <1>1. PICK ev : Quiet(ev, B) /\ x.events = w.events \o ev
    BY DEF Cut
  <1>2. Sequence(ev) /\ Sequence(w.events)
    BY <1>1 DEF Quiet, Good
  <1>3. All(x) = h \o ev
    BY <1>1, <1>2, AheadLonger
  <1>4. Cuts(A, w.loops, w.entries, h, B, x.loops, x.entries, All(x), ids, ls, es)
    BY <1>1, <1>3 DEF Cut, Cuts
  <1>5. Looped(A, w.loops, Range(h), w.nextAct)
    BY DEF Tied, Ties
  <1>6. DOMAIN B = DOMAIN A \ ids
    BY DEF Cut
  <1>7. \A i \in DOMAIN B : A[i].loop # 0 => A[i].loop \notin ls
    <2>1. ASSUME NEW i \in DOMAIN B, A[i].loop # 0, NEW j \in ids, A[j].loop = A[i].loop
          PROVE  FALSE
      <3>1. i \in DOMAIN A /\ j \in DOMAIN A /\ i # j
        BY <2>1, <1>6
      <3>2. w.loops[A[i].loop].current = i /\ w.loops[A[j].loop].current = j
        BY <3>1, <2>1, <1>5 DEF Looped
      <3>. QED BY <3>1, <3>2, <2>1
    <2>. QED BY <2>1
  <1>8. \A e \in Range(h) : Returning(e) => e.loop \notin ls
    BY <1>5 DEF Looped
  <1>9. \A e \in DOMAIN w.entries \ (es \cup Y) : e \notin X /\ \E i \in DOMAIN B : A[i].entry = e
    <2>1. ASSUME NEW e \in DOMAIN w.entries \ (es \cup Y) PROVE e \notin X /\ \E i \in DOMAIN B : A[i].entry = e
      <3>1. e \notin X /\ e # 0
        BY DEF Good, Entered
      <3>2. PICK i \in DOMAIN A : A[i].entry = e
        BY <3>1 DEF Tied, Ties, Populated, Peopled
      <3>3. i \notin ids
        BY <3>1, <3>2
      <3>. QED BY <3>1, <3>2, <3>3, <1>6
    <2>. QED BY <2>1
  <1>10. x.nextAct = w.nextAct /\ x.nextId = w.nextId
    BY DEF Cut
  <1>11. Ties(A, w.loops, w.entries, h, w.nextAct, w.nextId, X)
    BY DEF Tied
  <1> HIDE DEF A, B, h
  <1>12. Ties(B, x.loops, x.entries, All(x), w.nextAct, w.nextId, Y)
    BY <1>4, <1>7, <1>8, <1>9, <1>11, CutTies
  <1>13. Alike(w.acts, x.acts, DOMAIN x.acts) /\ DOMAIN x.acts \subseteq DOMAIN w.acts
    BY DEF Cut
  <1>14. InTime(w.acts, Tail(heap), w.events)
    BY DEF Tied
  <1>15. InTime(x.acts, Tail(heap), w.events)
    <2>1. SameEnded(w.acts, x.acts, Range(Tail(heap)) \cup Range(w.events))
      BY <1>13 DEF SameEnded, Alike
    <2>. QED BY <1>14, <2>1, InTimeAlike
  <1>16. InTime(x.acts, Tail(heap), x.events)
    <2>1. \A e \in Range(ev) : \A i \in DOMAIN x.acts : ~Watched(e, i, x.acts[i])
      BY <1>1, Unwatched DEF Quiet
    <2>. QED BY <1>1, <1>2, <1>15, <2>1, InTimeMore
  <1>. QED BY <1>12, <1>10, <1>16 DEF Tied, B

\* Events come, and numbers are given out
Grows(w, x, ev) ==
    /\ Sequence(ev) /\ x.events = w.events \o ev
    /\ x.acts = w.acts /\ x.loops = w.loops /\ x.entries = w.entries /\ x.blocked = w.blocked
    /\ x.nextAct = w.nextAct /\ x.nextId \in {w.nextId, w.nextId + 1}

\* The tables with events that belong to no activity and to no loop
LEMMA GrownTied ==
    ASSUME Here, NEW w, NEW Z, Good(w, Z), NEW X, Tied(w, X), NEW x, NEW ev, Grows(w, x, ev),
           \A e \in Range(ev) : \/ e.kind = "enter" /\ e.loop = 0
                                \/ /\ e.kind = "deadline" /\ e.act \in 1 .. x.nextId - 1
                                   /\ \E u \in Subs : e.node \in Range(Borders[u])
                                   /\ \A i \in DOMAIN w.acts : ~Watched(e, i, w.acts[i])
    PROVE  Tied(x, X)
  <1> DEFINE h == All(w)
  <1>1. Sequence(ev) /\ Sequence(w.events)
    BY DEF Grows, Good
  <1>2. All(x) = h \o ev /\ Range(h) = Coming(w)
    BY <1>1, AheadLonger DEF Grows
  <1>3. w.nextId \in Nat \ {0}
    BY DEF Good, Entered
  <1>4. Ties(w.acts, w.loops, w.entries, h, w.nextAct, w.nextId, X)
    BY DEF Tied
  <1>5. Bordered(w.acts, w.entries, Range(h), w.nextAct, x.nextId)
    <2>1. \A a : a \in 1 .. w.nextId - 1 => a \in 1 .. x.nextId - 1
      BY <1>3 DEF Grows
    <2>2. Bordered(w.acts, w.entries, Range(h), w.nextAct, w.nextId)
      BY <1>4 DEF Ties
    <2>. HIDE DEF h
    <2>. QED BY <2>1, <2>2 DEF Bordered
  <1>6. Ties(w.acts, w.loops, w.entries, h, w.nextAct, x.nextId, X)
    BY <1>4, <1>5 DEF Ties
  <1>7. Bordered(w.acts, w.entries, Range(ev), w.nextAct, x.nextId)
    BY DEF Bordered
  <1>8. \A e \in Range(ev) : ~Returning(e) /\ e.kind # "boundary"
    BY DEF Returning
  <1> HIDE DEF h
  <1>9. Ties(w.acts, w.loops, w.entries, h \o ev, w.nextAct, x.nextId, X)
    BY <1>1, <1>6, <1>7, <1>8, MoreTies
  <1>10. InTime(w.acts, Tail(heap), w.events)
    BY DEF Tied
  <1>11. \A e \in Range(ev) : \A i \in DOMAIN w.acts : ~Watched(e, i, w.acts[i])
    BY Unwatched
  <1>12. InTime(w.acts, Tail(heap), w.events \o ev)
    BY <1>1, <1>10, <1>11, InTimeMore
  <1>13. x.acts = w.acts /\ x.events = w.events \o ev
    BY DEF Grows
  <1>14. InTime(x.acts, Tail(heap), x.events)
    BY <1>12, <1>13
  <1>. QED BY <1>9, <1>2, <1>14 DEF Tied, Grows

\* The case and the others, if its epochs stay and no token comes that is too old
LEMMA GrownNoted ==
    ASSUME Here, NEW w, NEW Z, Good(w, Z), NEW sz, Noted(w, sz), NEW x, NEW ev, Grows(w, x, ev),
           CaseIs(x.k, sz), Going(x.k), \A u \in Subs : w.k.subs[u].epoch <= x.k.subs[u].epoch,
           \A e \in Range(ev) : e.kind = "enter" =>
              /\ e.case = Due.case /\ IsMarks(e.marks, Len(sz)) /\ e.epoch \in Nat
              /\ Inside[e.node] # <<>> => e.epoch <= EpochAt(x.k, e.node)
    PROVE  Noted(x, sz)
  <1>1. Notes(w, x, sz)
    BY DEF Notes, Grows, AlikeAt
  <1>. QED BY <1>1, NotedNext

\* An activity is about to come to w, which has loops and boundaries for it already, from L
Awaits(w, new, L, X) ==
    /\ Good(w, {}) /\ Lone(All(w)) /\ Looped(w.acts, L, Coming(w), w.nextAct)
    /\ Bordered(w.acts, w.entries, Coming(w), w.nextAct + 1, w.nextId)
    /\ Populated(w.acts, w.entries, X) /\ Kinds(w.acts)
    /\ Type[new.node] \in {"task", "timer"} /\ (new.entry # 0 => new.entry \in X)
    /\ \A e \in Coming(w) : e.kind = "boundary" /\ (e.act = w.nextAct \/ e.act = new.loop)
                              => Guards(e, new) /\ new.entry = 0
    /\ LoopsWith(w.acts, L, Coming(w), w.loops, w.nextAct, new.loop)
    /\ InTime(w.acts, Tail(heap), w.events)

\* What ties activities, loops and entries is kept when it has come
LEMMA BegunTied ==
    ASSUME Here, NEW w, NEW new, NEW L, NEW X, Awaits(w, new, L, X), NEW x, Begun(w, new, x)
    PROVE  Tied(x, X)
  <1> DEFINE h == All(w)
             na == w.nextAct
             B == x.acts
  <1>1. PICK ev : Quiet(ev, B) /\ x.events = w.events \o ev
    BY DEF Begun
  <1>2. Sequence(ev) /\ Sequence(w.events)
    BY <1>1 DEF Quiet, Good, Awaits
  <1>3. All(x) = h \o ev /\ Range(h) = Coming(w) /\ Sequence(h)
    BY <1>1, <1>2, AheadLonger
  <1>4. na \in Nat \ {0} /\ DOMAIN w.acts \subseteq 1 .. na - 1
    BY DEF Awaits, Good, Acts
  <1>5. \A e \in Coming(w) : e.kind = "done" => e.act # na
    <2>1. ASSUME NEW e \in Coming(w), e.kind = "done" PROVE e.act # na
      <3>1. e.act \in 1 .. na - 1
        BY <2>1 DEF Awaits, Good, Events, IsEvent
      <3>. QED BY <3>1, <1>4
    <2>. QED BY <2>1
  <1>6. 0 \notin DOMAIN w.entries
    BY DEF Awaits, Good, Entered
  <1>7. /\ x.entries = w.entries /\ x.loops = w.loops /\ x.nextId = w.nextId /\ x.nextAct = na + 1
        /\ DOMAIN B = DOMAIN w.acts \cup {na} /\ Alike(With(w.acts, na, new), B, DOMAIN B)
    BY DEF Begun, Rest
  <1>8. /\ Lone(h) /\ Looped(w.acts, L, Range(h), na) /\ Bordered(w.acts, w.entries, Range(h), na + 1, w.nextId)
        /\ Populated(w.acts, w.entries, X) /\ Kinds(w.acts)
        /\ Type[new.node] \in {"task", "timer"} /\ (new.entry # 0 => new.entry \in X)
        /\ \A e \in Range(h) : e.kind = "boundary" /\ (e.act = na \/ e.act = new.loop)
                              => Guards(e, new) /\ new.entry = 0
        /\ \A e \in Range(h) : e.kind = "done" => e.act # na
        /\ LoopsWith(w.acts, L, Range(h), w.loops, na, new.loop)
    BY <1>3, <1>5 DEF Awaits
  <1>a. na \in Nat \ {0}
    BY <1>4
  <1> HIDE DEF h, na, B
  <1>b. Readies(w.acts, L, w.entries, h, na, w.nextId, X, new, w.loops, B, ev)
    BY <1>1, <1>2, <1>3, <1>4, <1>6, <1>7, <1>8 DEF Readies
  <1>9. Ties(B, w.loops, w.entries, h \o ev, na + 1, w.nextId, X)
    BY <1>b, ComeTies
  <1>10. InTime(w.acts, Tail(heap), w.events) /\ w.nextAct \notin DOMAIN w.acts
    BY <1>4 DEF Awaits, na
  <1>11. Alike(With(w.acts, w.nextAct, new), x.acts, DOMAIN x.acts) /\ DOMAIN x.acts = DOMAIN w.acts \cup {w.nextAct}
    BY <1>7 DEF na, B
  <1>12. \A i \in DOMAIN w.acts : With(w.acts, w.nextAct, new)[i] = w.acts[i]
    BY <1>10 DEF With
  <1>13. \A e \in Coming(w) : e.kind = "done" => e.act # w.nextAct
    BY <1>5 DEF na
  <1>14. InTime(x.acts, Tail(heap), w.events)
    <2>1. SameEnded(w.acts, x.acts, Range(Tail(heap)) \cup Range(w.events))
      BY <1>11, <1>12, <1>13 DEF SameEnded, Alike, Coming
    <2>. QED BY <1>10, <2>1, InTimeAlike
  <1>15. InTime(x.acts, Tail(heap), x.events)
    <2>1. \A e \in Range(ev) : \A i \in DOMAIN x.acts : ~Watched(e, i, x.acts[i])
      BY <1>1, Unwatched DEF Quiet
    <2>. QED BY <1>1, <1>2, <1>14, <2>1, InTimeMore
  <1>. QED BY <1>3, <1>7, <1>9, <1>15 DEF Tied, B

\* The case and the others
LEMMA BegunNoted ==
    ASSUME Here, NEW w, Good(w, {}), NEW sz, Noted(w, sz), NEW new, new.case = Due.case,
           IsMarks(new.marks, Len(sz)), NEW x, Begun(w, new, x)
    PROVE  Noted(x, sz)
  <1>1. PICK ev : Quiet(ev, x.acts) /\ x.events = w.events \o ev
    BY DEF Begun
  <1>2. Sequence(ev) /\ \A e \in Range(ev) : e.kind # "enter"
    BY <1>1 DEF Quiet
  <1>3. w.nextAct \notin DOMAIN w.acts
    BY DEF Good, Acts
  <1>4. \A i \in DOMAIN x.acts : \/ i \in DOMAIN w.acts /\ AlikeAt(w.acts, x.acts, i)
                                 \/ x.acts[i].case = Due.case /\ IsMarks(x.acts[i].marks, Len(sz))
    BY <1>3 DEF Begun, Alike, AlikeAt, With
  <1>5. \A i \in DOMAIN w.acts : i \in DOMAIN x.acts /\ AlikeAt(w.acts, x.acts, i)
    BY <1>3 DEF Begun, Alike, AlikeAt, With
  <1>6. CaseIs(w.k, sz) /\ Going(w.k) /\ \A u \in Subs : w.k.subs[u].epoch <= w.k.subs[u].epoch
    BY DEF Noted, CaseIs, IsSub
  <1>7. x.k = w.k /\ x.entries = w.entries /\ x.blocked = w.blocked
    BY DEF Begun, Rest
  <1>8. Notes(w, x, sz)
    BY <1>1, <1>2, <1>4, <1>5, <1>6, <1>7 DEF Notes
  <1>. QED BY <1>8, NotedNext

\* Only the case has changed, or loops and numbers that do not concern anyone
Recounts(w, x, sz) ==
    /\ x.acts = w.acts /\ x.entries = w.entries /\ x.events = w.events /\ x.blocked = w.blocked
    /\ CaseIs(x.k, sz) /\ Going(x.k) /\ \A u \in Subs : w.k.subs[u].epoch <= x.k.subs[u].epoch

\* What is noted of the case stays true
LEMMA RecountedNoted ==
    ASSUME Here, NEW w, NEW Z, Good(w, Z), NEW sz, Noted(w, sz), NEW x, Recounts(w, x, sz)
    PROVE  Noted(x, sz)
  <1>1. Coming(x) = Coming(w) /\ Others(x)
    BY DEF Noted, Recounts, Others, Coming
  <1>2. Epochs(x.k, Due.case, Coming(x))
    <2>1. ASSUME NEW e \in Coming(w), e.kind = "enter", e.case = Due.case, Inside[e.node] # <<>>
          PROVE  e.epoch <= EpochAt(x.k, e.node)
      <3>1. e.node \in Nodes
        BY <2>1 DEF Good, Events, IsEvent
      <3>2. Head(Inside[e.node]) \in Subs
        BY <3>1, <2>1, InsideIs DEF Here
      <3>3. e.epoch \in Nat /\ e.epoch <= EpochAt(w.k, e.node)
        BY <2>1 DEF Noted, Epochs
      <3>4. EpochAt(w.k, e.node) <= EpochAt(x.k, e.node) /\ EpochAt(w.k, e.node) \in Nat /\ EpochAt(x.k, e.node) \in Nat
        BY <2>1, <3>2 DEF Recounts, Noted, EpochAt, CaseIs, IsSub
      <3>. QED BY <3>3, <3>4
    <2>. QED BY <2>1, <1>1 DEF Epochs, Noted
  <1>. QED BY <1>1, <1>2 DEF Noted, Recounts

===============================================================================
