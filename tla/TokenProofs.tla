------------------------------ MODULE TokenProofs ------------------------------
(*****************************************************************************)
(* TokensAccounted and BoundaryWinsTies, for any models that satisfy the     *)
(* assumptions of Replication.  The counts of a case are not the numbers of  *)
(* its tokens while a handler runs: it takes the token of its event, or that *)
(* of an activity, and puts it somewhere else step by step.  Held(w, n, l)   *)
(* says how they are off by then: in the work w there are l tokens fewer     *)
(* than the counts of the case and of the sub-processes around the node n    *)
(* say.  Each helper of the kernel shifts l or the node, and a handler       *)
(* begins and ends with l = 0.                                               *)
(*                                                                           *)
(* The counts are right only if nothing takes the same token twice, which is *)
(* what else a state keeps.  Ties (Tied in a work): a loop goes on with one  *)
(* activity or with one token, a boundary timer watches what is at its host, *)
(* and an entry has the instances it waits for.  Epochs: no token on its way *)
(* is of an instance of a sub-process that is still to begin.  Marked: the   *)
(* OR activations a token belongs to have been made.  Sound is all of this   *)
(* between two events, and Early: no activity ends ahead of a boundary that  *)
(* covers it and is due at the same instant.                                 *)
(*                                                                           *)
(* Tokens may be lost without being counted out, at a node without a way on  *)
(* or at an event gateway that has one stuck already.  X stands for them in  *)
(* Balance: none of them is elsewhere than Lost allows.                      *)
(*****************************************************************************)
EXTENDS ReplicationProofs

-----------------------------------------------------------------------------
(* The tokens a handler has in hand *)

\* The tokens of the case of w
Worth(w, X, N) == Total(All(w), w.k, w.acts, w.entries, Due.case, X, N)
Stocked(w, X) == Stock(All(w), w.k, w.acts, w.entries, X)

\* Its counts are m more, and those of its sub-processes d more
Weighed(w, X, m, d) ==
    Balance(All(w), w.k, w.acts, w.entries, w.blocked, Due.case, X, m, d)

\* l tokens at n
Hold(n, l) == [u \in Subs |-> IF u \in Round(n) THEN l ELSE 0]

\* A sub-process with tokens has an open instance, unless cases are born in it
OpensAt(sub, u) == (sub.instance # 0 => sub.tokens > 0) /\ (sub.tokens > 0 /\ u \notin Births => sub.instance # 0)
Opens(k) == \A u \in Subs : OpensAt(k.subs[u], u)

\* l tokens are counted at n, but are nowhere
Held(w, n, l) == Opens(w.k) /\ \E X : Weighed(w, X, l, Hold(n, l))

\* The tokens on their way are the same as long as none comes and no sub-process is cancelled
LEMMA AheadQuiet ==
    ASSUME Here, NEW w, NEW Z, Good(w, Z), NEW x, SameEpochs(w.k, x.k),
           NEW ev, Sequence(ev), x.events = w.events \o ev, \A e \in Range(ev) : e.kind # "enter"
    PROVE  Sequence(All(w)) /\ Sequence(All(x))
           /\ \A N : EntersAt(All(x), x.k, Due.case, N) = EntersAt(All(w), w.k, Due.case, N)
  <1> DEFINE h == All(w)
             g == All(x)
  <1>1. Sequence(w.events)
    BY DEF Good
  <1>2. Sequence(h) /\ Range(h) = Coming(w) /\ g = h \o ev
    BY <1>1, AheadLonger
  <1>3. \A e \in Range(h) : e.kind = "enter" => e.node \in Nodes
    BY <1>2 DEF Good, Events, IsEvent
  <1>4. model \in Models /\ \A e \in Range(ev) : ~(e.kind = "enter" /\ e.case = Due.case)
    BY DEF Here
  <1> DEFINE k == w.k
             l == x.k
             c == Due.case
  <1>6. SameEpochs(k, l) /\ \A e \in Range(ev) : ~(e.kind = "enter" /\ e.case = c)
    BY <1>4
  <1> HIDE DEF h, g, k, l, c
  <1>5. ASSUME NEW N PROVE Sequence(g) /\ EntersAt(g, l, c, N) = EntersAt(h, k, c, N)
    <2>1. Sequence(h) /\ g = h \o ev /\ Sequence(ev)
      BY <1>2
    <2>2. model \in Models
      BY <1>4
    <2>3. Quieter(h, ev, g, c, k, l)
      BY <2>1, <1>3, <1>6 DEF Quieter
    <2>. QED BY ONLY <2>2, <2>3, EntersQuiet
  <1>. QED BY <1>2, <1>5 DEF h, g, k, l, c

\* ... and if nothing comes
LEMMA AheadSame ==
    ASSUME Here, NEW w, NEW Z, Good(w, Z), NEW x, SameEpochs(w.k, x.k), x.events = w.events
    PROVE  Sequence(All(w)) /\ Sequence(All(x))
           /\ \A N : EntersAt(All(x), x.k, Due.case, N) = EntersAt(All(w), w.k, Due.case, N)
  <1>1. Sequence(<<>>) /\ Range(<<>>) = {} /\ x.events = w.events \o <<>>
    BY Empty, WithNothing DEF Good
  <1>. QED BY <1>1, AheadQuiet

\* What is around a node alone matters
LEMMA HeldSame ==
    ASSUME NEW w, NEW n, NEW l, Held(w, n, l), NEW m, Inside[m] = Inside[n] PROVE Held(w, m, l)
  <1>1. Hold(m, l) = Hold(n, l)
    BY DEF Hold, Round
  <1>. QED BY <1>1 DEF Held

\* Without tokens the node does not
LEMMA HeldNone ==
    ASSUME NEW w, NEW n, Held(w, n, 0), NEW m PROVE Held(w, m, 0)
  <1>1. Hold(m, 0) = Hold(n, 0)
    BY DEF Hold
  <1>. QED BY <1>1 DEF Held

\* j tokens more are at n in x than in w
Shifts(w, x, n, j) ==
    /\ x.k.tokens = w.k.tokens /\ x.k.subs = w.k.subs /\ x.blocked = w.blocked
    /\ \A X : Stocked(w, X) =>
          Stocked(x, X) /\ \A N : Worth(x, X, N) = Worth(w, X, N) + (IF n \in N THEN j ELSE 0)

\* So j fewer are in hand
LEMMA ShiftHeld ==
    ASSUME Here, NEW w, NEW n \in Nodes, NEW l \in Int, Held(w, n, l), NEW x, NEW j \in Int, Shifts(w, x, n, j)
    PROVE  Held(x, n, l - j)
  <1>1. PICK X : Weighed(w, X, l, Hold(n, l))
    BY DEF Held
  <1>2. Stocked(w, X) /\ Lost(X, w.blocked, Due.case)
    BY <1>1 DEF Weighed, Balance, Stocked
  <1>3. Stocked(x, X) /\ \A N : Worth(x, X, N) = Worth(w, X, N) + (IF n \in N THEN j ELSE 0)
    BY <1>2 DEF Shifts
  <1>4. SameCounts(w.k, x.k) /\ Lost(X, x.blocked, Due.case)
    BY <1>2 DEF Shifts, SameCounts
  <1>5. Hold(n, l) \in [Subs -> Int]
    BY DEF Hold
  <1>6. \A u \in Subs : Hold(n, l - j)[u] = Hold(n, l)[u] - (IF u \in Round(n) THEN j ELSE 0)
    BY DEF Hold
  <1> DEFINE d == Hold(n, l)
             e == Hold(n, l - j)
  <1>7. d \in [Subs -> Int] /\ \A u \in Subs : e[u] = d[u] - (IF u \in Round(n) THEN j ELSE 0)
    BY <1>5, <1>6
  <1>8. Balance(All(w), w.k, w.acts, w.entries, w.blocked, Due.case, X, l, d)
    BY <1>1 DEF Weighed
  <1>9. Stock(All(x), x.k, x.acts, x.entries, X)
        /\ \A N : Total(All(x), x.k, x.acts, x.entries, Due.case, X, N)
                  = Total(All(w), w.k, w.acts, w.entries, Due.case, X, N) + (IF n \in N THEN j ELSE 0)
    BY <1>3 DEF Stocked, Worth
  <1>10. model \in Models
    BY DEF Here
  <1> HIDE DEF d, e
  <1>11. Balance(All(x), x.k, x.acts, x.entries, x.blocked, Due.case, X, l - j, e)
    BY <1>4, <1>7, <1>8, <1>9, <1>10, Rebalance
  <1>12. Weighed(x, X, l - j, Hold(n, l - j))
    BY <1>11 DEF Weighed, e
  <1>13. Opens(x.k)
    BY DEF Held, Opens, Shifts
  <1>. QED BY <1>12, <1>13 DEF Held

\* No token moves
LEMMA StillHeld ==
    ASSUME Here, NEW w, NEW n \in Nodes, NEW l \in Int, Held(w, n, l), NEW x,
           x.k.tokens = w.k.tokens, x.k.subs = w.k.subs, x.blocked = w.blocked,
           \A X : Stocked(w, X) => Stocked(x, X) /\ \A N : Worth(x, X, N) = Worth(w, X, N)
    PROVE  Held(x, n, l)
  <1>1. Shifts(w, x, n, 0)
    <2>1. ASSUME NEW X, Stocked(w, X) PROVE \A N : Worth(x, X, N) = Worth(w, X, N) + (IF n \in N THEN 0 ELSE 0)
      <3>1. \A N : Worth(w, X, N) \in Nat
        BY <2>1, TotalIs DEF Worth, Stocked
      <3>. QED BY <2>1, <3>1
    <2>. QED BY <2>1 DEF Shifts
  <1>2. Held(x, n, l - 0)
    BY <1>1, ShiftHeld
  <1>3. l - 0 = l
    OBVIOUS
  <1>. QED BY <1>2, <1>3

\* Tokens are counted as they come or go (adjustInside)
LEMMA GainHeld ==
    ASSUME Here, NEW w, NEW Z, Good(w, Z), NEW sz, CaseIs(w.k, sz),
           NEW n \in Nodes, NEW l \in Int, Held(w, n, l), NEW j \in Int,
           j > 0 => l > 0 \/ \A u \in Round(n) : w.k.subs[u].tokens > 0
    PROVE  LET x == Gain(w, n, j) IN Held(x, n, l + j) /\ CaseIs(x.k, sz)
              /\ (\A u \in Subs : x.k.subs[u].epoch = w.k.subs[u].epoch)
              /\ x.k.tokens = w.k.tokens + j
  <1> DEFINE x == Gain(w, n, j)
  <1>1. /\ x.k.tokens = w.k.tokens + j /\ DOMAIN x.k = DOMAIN w.k
        /\ x.k.subs = [u \in Subs |-> IF u \in Round(n) THEN Moved(w.k.subs[u], j) ELSE w.k.subs[u]]
        /\ x.k.ands = w.k.ands /\ x.k.ors = w.k.ors
        /\ x.acts = w.acts /\ x.entries = w.entries /\ x.events = w.events /\ x.blocked = w.blocked
    <2>1. DOMAIN w = WorkFields /\ DOMAIN w.k = CaseFields
      BY DEF Good, CaseIs
    <2>2. x.k = [w.k EXCEPT !.tokens = @ + j,
                            !.subs = [u \in Subs |-> IF u \in Round(n) THEN Moved(@[u], j) ELSE @[u]]]
      BY <2>1 DEF Gain, WorkFields, Round
    <2>3. /\ x.acts = w.acts /\ x.entries = w.entries /\ x.events = w.events /\ x.blocked = w.blocked
      BY <2>1 DEF Gain, WorkFields
    <2>. HIDE DEF x
    <2>. QED BY <2>1, <2>2, <2>3 DEF CaseFields
  <1> HIDE DEF x
  <1>2. \A u \in Subs : /\ x.k.subs[u] = IF u \in Round(n) THEN Moved(w.k.subs[u], j) ELSE w.k.subs[u]
                        /\ IsSub(w.k.subs[u], Len(sz))
    BY <1>1 DEF CaseIs
  <1>3. \A s : IsSub(s, Len(sz)) =>
           /\ IsSub(Moved(s, j), Len(sz)) /\ Moved(s, j).tokens = s.tokens + j /\ Moved(s, j).epoch = s.epoch
           /\ Moved(s, j).instance = IF s.tokens + j <= 0 THEN 0 ELSE s.instance
    BY DEF IsSub, Moved
  <1>4. \A u \in Subs : /\ IsSub(x.k.subs[u], Len(sz)) /\ x.k.subs[u].epoch = w.k.subs[u].epoch
                        /\ x.k.subs[u].tokens = w.k.subs[u].tokens + (IF u \in Round(n) THEN j ELSE 0)
                        /\ w.k.subs[u].tokens \in Int
    <2>1. \A u \in Subs : w.k.subs[u].tokens \in Int
      BY <1>2 DEF IsSub
    <2>. QED BY <1>2, <1>3, <2>1
  <1>5. w.k.tokens \in Int
    BY DEF CaseIs
  <1>6. CaseIs(x.k, sz)
    BY <1>1, <1>4, <1>5 DEF CaseIs
  <1>7. PICK X : Weighed(w, X, l, Hold(n, l))
    BY DEF Held
  <1>8. /\ Stock(All(w), w.k, w.acts, w.entries, X) /\ Lost(X, w.blocked, Due.case)
        /\ w.k.tokens = Worth(w, X, Nodes) + l
        /\ \A u \in Subs : w.k.subs[u].tokens = Worth(w, X, NodesIn(u)) + (IF u \in Round(n) THEN l ELSE 0)
    BY <1>7 DEF Weighed, Balance, Worth, Hold
  <1>a. SameEpochs(w.k, x.k)
    BY <1>4 DEF SameEpochs
  <1>9. \A N : Worth(x, X, N) = Worth(w, X, N)
    <2>1. \A N : EntersAt(All(x), x.k, Due.case, N) = EntersAt(All(w), w.k, Due.case, N)
      BY <1>1, <1>a, AheadSame
    <2>. QED BY <2>1, <1>1 DEF Worth, Total
  <1>10. Sequence(All(x)) /\ Stock(All(x), x.k, x.acts, x.entries, X)
    BY <1>1, <1>8, <1>a, AheadSame DEF Stock
  <1>11. \A N : Worth(x, X, N) \in Nat
    BY <1>10, TotalIs DEF Worth
  <1>12. Weighed(x, X, l + j, Hold(n, l + j))
    <2>1. x.k.tokens = Worth(x, X, Nodes) + (l + j)
      BY <1>1, <1>8, <1>9, <1>11
    <2>2. ASSUME NEW u \in Subs
          PROVE  x.k.subs[u].tokens = Worth(x, X, NodesIn(u)) + (IF u \in Round(n) THEN l + j ELSE 0)
      BY <1>4, <1>8, <1>9, <1>11
    <2>. QED BY <2>1, <2>2, <1>1, <1>8, <1>10 DEF Weighed, Balance, Worth, Hold
  <1>13. Opens(x.k)
    <2>1. ASSUME NEW u \in Subs PROVE OpensAt(x.k.subs[u], u)
      <3>1. OpensAt(w.k.subs[u], u)
        BY DEF Held, Opens
      <3>2. CASE u \notin Round(n)
        BY <3>1, <3>2, <1>2
      <3>3. CASE u \in Round(n)
        <4>1. x.k.subs[u].instance = (IF w.k.subs[u].tokens + j <= 0 THEN 0 ELSE w.k.subs[u].instance)
              /\ x.k.subs[u].tokens = w.k.subs[u].tokens + j /\ w.k.subs[u].tokens \in Int
          BY <3>3, <1>2, <1>3, <1>4
        <4>2. j > 0 => w.k.subs[u].tokens > 0
          <5>1. w.k.subs[u].tokens = Worth(w, X, NodesIn(u)) + l /\ Worth(w, X, NodesIn(u)) \in Nat
            BY <1>8, <1>9, <1>11, <3>3
          <5>. QED BY <5>1, <3>3
        <4>. QED BY <3>1, <4>1, <4>2 DEF OpensAt
      <3>. QED BY <3>2, <3>3
    <2>. QED BY <2>1 DEF Opens
  <1>14. Held(x, n, l + j)
    BY <1>12, <1>13 DEF Held
  <1>. QED BY <1>1, <1>4, <1>6, <1>14 DEF x

-----------------------------------------------------------------------------
(* Activities and entries that go *)

\* What a handler works on is in stock
LEMMA Stocks ==
    ASSUME Here, NEW w, NEW Z, Good(w, Z), NEW sz, CaseIs(w.k, sz)
    PROVE  /\ IsFiniteSet(DOMAIN w.acts) /\ IsFiniteSet(DOMAIN w.entries)
           /\ \A X : Heaped(X) <=> Stocked(w, X)
  <1>1. IsFiniteSet(DOMAIN w.acts)
    BY Finite DEF Good, Acts
  <1>2. IsFiniteSet(DOMAIN w.entries)
    <2>1. w.nextId \in Nat \ {0} /\ DOMAIN w.entries \subseteq 1 .. w.nextId - 1
      BY DEF Good, Entered
    <2>2. w.nextId - 1 \in Nat
      BY <2>1
    <2>. QED BY <2>1, <2>2, Interval, FS_Subset
  <1>3. Sequence(All(w))
    <2>1. Sequence(w.events) /\ Sequence(Tail(heap))
      BY DEF Good, Here
    <2>. QED BY <2>1, Concat DEF All
  <1>. QED BY <1>1, <1>2, <1>3 DEF Stocked, Stock, CaseIs

\* One kind of token, a more of them at n
Apart(f, g, n, a, N) == g = f + (IF n \in N THEN a ELSE 0)
Moves(w, x, n, a, b, c, d, N) ==
    /\ Apart(EntersAt(All(w), w.k, Due.case, N), EntersAt(All(x), x.k, Due.case, N), n, a, N)
    /\ Apart(Placed(w.acts, Owners(w.acts), Due.case, N), Placed(x.acts, Owners(x.acts), Due.case, N), n, b, N)
    /\ Apart(Placed(w.entries, DOMAIN w.entries, Due.case, N), Placed(x.entries, DOMAIN x.entries, Due.case, N), n, c, N)
    /\ Apart(AtKeys(w.k.ands, N) + AtKeys(w.k.ors, N \X Nat), AtKeys(x.k.ands, N) + AtKeys(x.k.ors, N \X Nat), n, d, N)

\* Nothing else of the case changes
LEMMA MovesHeld ==
    ASSUME Here, NEW w, NEW Z, Good(w, Z), NEW x, NEW Y, Good(x, Y), NEW sz, CaseIs(w.k, sz), CaseIs(x.k, sz),
           x.k.tokens = w.k.tokens, x.k.subs = w.k.subs, x.blocked = w.blocked,
           NEW n \in Nodes, NEW l \in Int, Held(w, n, l),
           NEW a \in Int, NEW b \in Int, NEW c \in Int, NEW d \in Int, \A N : Moves(w, x, n, a, b, c, d, N)
    PROVE  Held(x, n, l - (a + b + c + d))
  <1> DEFINE j == a + b + c + d
  <1>1. ASSUME NEW X, Stocked(w, X)
        PROVE  Stocked(x, X) /\ \A N : Worth(x, X, N) = Worth(w, X, N) + (IF n \in N THEN j ELSE 0)
    <2>1. Stocked(x, X)
      BY <1>1, Stocks
    <2>2. ASSUME NEW N PROVE Worth(x, X, N) = Worth(w, X, N) + (IF n \in N THEN j ELSE 0)
      <3> DEFINE p1 == EntersAt(All(w), w.k, Due.case, N)
                 p2 == Placed(w.acts, Owners(w.acts), Due.case, N)
                 p3 == Placed(w.entries, DOMAIN w.entries, Due.case, N)
                 p4 == AtKeys(w.k.ands, N)
                 p5 == AtKeys(w.k.ors, N \X Nat)
                 q1 == EntersAt(All(x), x.k, Due.case, N)
                 q2 == Placed(x.acts, Owners(x.acts), Due.case, N)
                 q3 == Placed(x.entries, DOMAIN x.entries, Due.case, N)
                 q4 == AtKeys(x.k.ands, N)
                 q5 == AtKeys(x.k.ors, N \X Nat)
                 r == AtKeys(X, N)
      <3>1. p1 \in Nat /\ p2 \in Nat /\ p3 \in Nat /\ p4 \in Nat /\ p5 \in Nat /\ r \in Nat
        BY <1>1, TotalIs DEF Stocked
      <3>2. q1 \in Nat /\ q2 \in Nat /\ q3 \in Nat /\ q4 \in Nat /\ q5 \in Nat /\ r \in Nat
        BY <2>1, TotalIs DEF Stocked
      <3>3. Apart(p1, q1, n, a, N) /\ Apart(p2, q2, n, b, N) /\ Apart(p3, q3, n, c, N) /\ Apart(p4 + p5, q4 + q5, n, d, N)
        BY DEF Moves
      <3>4. Worth(w, X, N) = p1 + p2 + p3 + p4 + p5 + r /\ Worth(x, X, N) = q1 + q2 + q3 + q4 + q5 + r
        BY DEF Worth, Total
      <3> HIDE DEF p1, p2, p3, p4, p5, q1, q2, q3, q4, q5, r
      <3>. QED BY <3>1, <3>2, <3>3, <3>4 DEF Apart
    <2>. QED BY <2>1, <2>2
  <1>2. j \in Int
    OBVIOUS
  <1> HIDE DEF j
  <1>3. Shifts(w, x, n, j)
    BY <1>1 DEF Shifts
  <1>4. Held(x, n, l - j)
    BY <1>2, <1>3, ShiftHeld
  <1>. QED BY <1>4 DEF j

\* Every part is a number
LEMMA PartsAre ==
    ASSUME Here, NEW w, NEW Z, Good(w, Z), NEW sz, CaseIs(w.k, sz), NEW N
    PROVE  /\ EntersAt(All(w), w.k, Due.case, N) \in Nat
           /\ Placed(w.acts, Owners(w.acts), Due.case, N) \in Nat
           /\ Placed(w.entries, DOMAIN w.entries, Due.case, N) \in Nat
           /\ AtKeys(w.k.ands, N) \in Nat /\ AtKeys(w.k.ors, N \X Nat) \in Nat
  <1> DEFINE X == [m \in {} |-> 0]
  <1>1. Heaped(X)
    BY FS_EmptySet DEF Heaped
  <1> HIDE DEF X
  <1>2. Stock(All(w), w.k, w.acts, w.entries, X)
    BY <1>1, Stocks DEF Stocked
  <1>. QED BY <1>2, TotalIs

\* What goes with a batch: the tokens of the activities of ids and of the entries of es
LEMMA CutMoves ==
    ASSUME Here, NEW w, NEW Z, Good(w, Z), NEW sz, CaseIs(w.k, sz), NEW x, NEW ids, NEW ls, NEW es,
           Cut(w, x, ids, ls, es), NEW n, NEW b \in Int, NEW c \in Int,
           \A N : Apart(Placed(w.acts, Owners(w.acts), Due.case, N), Placed(x.acts, Owners(x.acts), Due.case, N), n, b, N),
           \A N : Apart(Placed(w.entries, DOMAIN w.entries, Due.case, N),
                        Placed(x.entries, DOMAIN x.entries, Due.case, N), n, c, N)
    PROVE  \A N : Moves(w, x, n, 0, b, c, 0, N)
  <1>1. PICK ev : Quiet(ev, x.acts) /\ x.events = w.events \o ev
    BY DEF Cut
  <1>2. Sequence(ev) /\ \A e \in Range(ev) : e.kind # "enter"
    BY <1>1 DEF Quiet
  <1>3. x.k = w.k
    BY DEF Cut
  <1>4. SameEpochs(w.k, x.k)
    BY <1>3 DEF SameEpochs
  <1>5. \A N : EntersAt(All(x), x.k, Due.case, N) = EntersAt(All(w), w.k, Due.case, N)
    BY <1>1, <1>2, <1>4, AheadQuiet
  <1>6. ASSUME NEW N PROVE Moves(w, x, n, 0, b, c, 0, N)
    <2> DEFINE p == EntersAt(All(w), w.k, Due.case, N)
               q == EntersAt(All(x), x.k, Due.case, N)
               r == AtKeys(w.k.ands, N) + AtKeys(w.k.ors, N \X Nat)
    <2>a. p \in Nat /\ AtKeys(w.k.ands, N) \in Nat /\ AtKeys(w.k.ors, N \X Nat) \in Nat
      BY PartsAre
    <2>1. p \in Nat /\ r \in Nat /\ q = p
      BY <2>a, <1>5
    <2>2. AtKeys(x.k.ands, N) + AtKeys(x.k.ors, N \X Nat) = r
      BY <1>3
    <2>3. \A t \in Nat : Apart(t, t, n, 0, N)
      BY DEF Apart
    <2> HIDE DEF p, q, r
    <2>4. Apart(p, q, n, 0, N) /\ Apart(r, r, n, 0, N)
      BY <2>1, <2>3
    <2>. QED BY <2>2, <2>4 DEF Moves, p, q, r
  <1>. QED BY <1>6

\* None of them has a token
LEMMA CutActs ==
    ASSUME Here, NEW w, NEW Z, Good(w, Z), NEW sz, CaseIs(w.k, sz), NEW x, NEW ids, NEW ls, NEW es,
           Cut(w, x, ids, ls, es), \A i \in ids : i \notin Owners(w.acts), NEW n, NEW N
    PROVE  Apart(Placed(w.acts, Owners(w.acts), Due.case, N), Placed(x.acts, Owners(x.acts), Due.case, N), n, 0, N)
  <1> DEFINE A == w.acts
             B == x.acts
             c == Due.case
             p == Placed(A, Owners(A), c, N)
             q == Placed(B, Owners(B), c, N)
  <1>1. DOMAIN B = DOMAIN A \ ids /\ Alike(A, B, DOMAIN B) /\ \A i \in ids : i \notin Owners(A)
    BY DEF Cut
  <1>2. p \in Nat
    BY PartsAre
  <1>3. q = p
    <2> HIDE DEF A, B, c
    <2>. QED BY <1>1, ActsGone
  <1> HIDE DEF p, q
  <1>4. Apart(p, q, n, 0, N)
    BY <1>2, <1>3 DEF Apart
  <1>. QED BY <1>4 DEF p, q

\* No entry goes
LEMMA CutEntries ==
    ASSUME Here, NEW w, NEW Z, Good(w, Z), NEW sz, CaseIs(w.k, sz), NEW x, NEW ids, NEW ls,
           Cut(w, x, ids, ls, {}), NEW n, NEW N
    PROVE  Apart(Placed(w.entries, DOMAIN w.entries, Due.case, N),
                 Placed(x.entries, DOMAIN x.entries, Due.case, N), n, 0, N)
  <1> DEFINE E == w.entries
             F == x.entries
             c == Due.case
             p == Placed(E, DOMAIN E, c, N)
             q == Placed(F, DOMAIN F, c, N)
  <1>1. DOMAIN F = DOMAIN E /\ \A e \in DOMAIN E : F[e] = E[e]
    BY DEF Cut, Fewer
  <1>2. p \in Nat
    BY PartsAre
  <1>3. q = p
    <2>1. \A i : (i \in DOMAIN E /\ E[i].case = c /\ E[i].node \in N) <=> (i \in DOMAIN F /\ F[i].case = c /\ F[i].node \in N)
      BY <1>1
    <2> HIDE DEF E, F, c
    <2>. QED BY <2>1, PlacedSame
  <1> HIDE DEF p, q
  <1>4. Apart(p, q, n, 0, N)
    BY <1>2, <1>3 DEF Apart
  <1>. QED BY <1>4 DEF p, q

\* Instances go
LEMMA CutInstances ==
    ASSUME Here, NEW w, NEW Z, Good(w, Z), NEW sz, CaseIs(w.k, sz), NEW x, NEW ids, NEW ls, Cut(w, x, ids, ls, {}),
           \A i \in ids : i \notin Owners(w.acts), NEW n \in Nodes, NEW l \in Int, Held(w, n, l)
    PROVE  Held(x, n, l)
  <1>1. \A N : Moves(w, x, n, 0, 0, 0, 0, N)
    <2>1. \A N : Apart(Placed(w.acts, Owners(w.acts), Due.case, N), Placed(x.acts, Owners(x.acts), Due.case, N), n, 0, N)
      BY CutActs
    <2>2. \A N : Apart(Placed(w.entries, DOMAIN w.entries, Due.case, N),
                        Placed(x.entries, DOMAIN x.entries, Due.case, N), n, 0, N)
      BY CutEntries
    <2>. QED BY <2>1, <2>2, CutMoves
  <1>2. x.k = w.k /\ x.blocked = w.blocked /\ Good(x, {})
    BY DEF Cut
  <1>3. Held(x, n, l - (0 + 0 + 0 + 0))
    <2>1. 0 \in Int
      OBVIOUS
    <2>. QED BY <2>1, <1>1, <1>2, MovesHeld
  <1>4. l - (0 + 0 + 0 + 0) = l
    OBVIOUS
  <1>. QED BY <1>3, <1>4

\* An activity that has a token goes
LEMMA CutOwner ==
    ASSUME Here, NEW w, NEW Z, Good(w, Z), NEW sz, CaseIs(w.k, sz), NEW x, NEW i \in DOMAIN w.acts, NEW ls,
           Cut(w, x, {i}, ls, {}), w.acts[i].entry = 0, NEW n \in Nodes, w.acts[i].node = n,
           NEW l \in Int, Held(w, n, l)
    PROVE  Held(x, n, l + 1)
  <1>6. IsFiniteSet(DOMAIN w.acts) /\ IsFiniteSet(DOMAIN w.entries)
    BY Stocks
  <1>7. w.acts[i].case = Due.case /\ i \in Owners(w.acts)
    BY DEF Cut, Owners
  <1> DEFINE A == w.acts
             B == x.acts
  <1>8. DOMAIN B = DOMAIN A \ {i} /\ Alike(A, B, DOMAIN B) /\ IsFiniteSet(DOMAIN B)
    BY <1>6, FS_Difference DEF Cut
  <1>9. ASSUME NEW N PROVE Apart(Placed(A, Owners(A), Due.case, N), Placed(B, Owners(B), Due.case, N), n, -1, N)
    <2>1. Placed(A, Owners(A), A[i].case, N) = Placed(B, Owners(B), A[i].case, N) + Unit(A[i].node, N)
      <3> HIDE DEF A, B
      <3>. QED BY <1>6, <1>7, <1>8, ActGone DEF A
    <2>2. Placed(B, Owners(B), Due.case, N) \in Nat
      <3>1. IsFiniteSet(Owners(B))
        BY <1>8, FS_Subset DEF Owners
      <3>. QED BY <3>1, PlacedIs
    <2> DEFINE p == Placed(A, Owners(A), Due.case, N)
               q == Placed(B, Owners(B), Due.case, N)
    <2>3. p = q + Unit(n, N) /\ q \in Nat
      BY <2>1, <2>2, <1>7
    <2> HIDE DEF p, q
    <2>4. Apart(p, q, n, -1, N)
      BY <2>3 DEF Apart, Unit
    <2>. QED BY <2>4 DEF p, q
  <1>10. \A N : Moves(w, x, n, 0, -1, 0, 0, N)
    <2>1. \A N : Apart(Placed(w.entries, DOMAIN w.entries, Due.case, N),
                        Placed(x.entries, DOMAIN x.entries, Due.case, N), n, 0, N)
      BY CutEntries
    <2>2. -1 \in Int /\ 0 \in Int
      OBVIOUS
    <2>. QED BY <2>1, <2>2, <1>9, CutMoves
  <1>11. x.k = w.k /\ x.blocked = w.blocked /\ Good(x, {})
    BY DEF Cut
  <1>12. Held(x, n, l - (0 + (-1) + 0 + 0))
    <2>1. -1 \in Int /\ 0 \in Int
      OBVIOUS
    <2>. QED BY <2>1, <1>10, <1>11, MovesHeld
  <1>13. l - (0 + (-1) + 0 + 0) = l + 1
    OBVIOUS
  <1>. QED BY <1>12, <1>13

\* An entry goes with its instances
LEMMA CutEntry ==
    ASSUME Here, NEW w, NEW Z, Good(w, Z), NEW sz, CaseIs(w.k, sz), NEW x, NEW ids, NEW ls, NEW e \in DOMAIN w.entries,
           Cut(w, x, ids, ls, {e}), \A i \in ids : i \notin Owners(w.acts),
           NEW n \in Nodes, w.entries[e].node = n, NEW l \in Int, Held(w, n, l)
    PROVE  Held(x, n, l + 1)
  <1>1. w.entries[e].case = Due.case /\ Fewer(w.entries, x.entries, {e})
    BY DEF Cut
  <1>2. IsFiniteSet(DOMAIN w.entries)
    BY Stocks
  <1> DEFINE E == w.entries
             F == x.entries
  <1>3. ASSUME NEW N PROVE Apart(Placed(E, DOMAIN E, Due.case, N), Placed(F, DOMAIN F, Due.case, N), n, -1, N)
    <2>1. /\ IsFiniteSet(DOMAIN F)
          /\ Placed(E, DOMAIN E, E[e].case, N) = Placed(F, DOMAIN F, E[e].case, N) + Unit(E[e].node, N)
      <3>1. e \in DOMAIN E /\ IsFiniteSet(DOMAIN E) /\ Fewer(E, F, {e})
        BY <1>1, <1>2
      <3> HIDE DEF E, F
      <3>. QED BY <3>1, EntryGone
    <2>2. Placed(F, DOMAIN F, Due.case, N) \in Nat
      BY <2>1, PlacedIs
    <2> DEFINE p == Placed(E, DOMAIN E, Due.case, N)
               q == Placed(F, DOMAIN F, Due.case, N)
    <2>3. p = q + Unit(n, N) /\ q \in Nat
      BY <2>1, <2>2, <1>1
    <2> HIDE DEF p, q
    <2>4. Apart(p, q, n, -1, N)
      BY <2>3 DEF Apart, Unit
    <2>. QED BY <2>4 DEF p, q
  <1>10. \A N : Moves(w, x, n, 0, 0, -1, 0, N)
    <2>1. \A N : Apart(Placed(w.acts, Owners(w.acts), Due.case, N), Placed(x.acts, Owners(x.acts), Due.case, N), n, 0, N)
      BY CutActs
    <2>2. -1 \in Int /\ 0 \in Int
      OBVIOUS
    <2>. QED BY <2>1, <2>2, <1>3, CutMoves
  <1>11. x.k = w.k /\ x.blocked = w.blocked /\ Good(x, {})
    BY DEF Cut
  <1>12. Held(x, n, l - (0 + 0 + (-1) + 0))
    <2>1. -1 \in Int /\ 0 \in Int
      OBVIOUS
    <2>. QED BY <2>1, <1>10, <1>11, MovesHeld
  <1>13. l - (0 + 0 + (-1) + 0) = l + 1
    OBVIOUS
  <1>. QED BY <1>12, <1>13

-----------------------------------------------------------------------------
(* Activities that come *)

\* The part that does not change
LEMMA ApartSame == \A p \in Nat : \A n, N : Apart(p, p, n, 0, N)
  BY DEF Apart

\* Another one, with one more
LEMMA ApartMore == \A p \in Nat : \A n, N, q : q = p + Unit(n, N) => Apart(p, q, n, 1, N)
  BY DEF Apart, Unit

\* An activity comes, with a token of its own or as an instance
LEMMA BegunHeld ==
    ASSUME Here, NEW w, Good(w, {}), NEW sz, CaseIs(w.k, sz), NEW new, NEW x, Begun(w, new, x),
           NEW n \in Nodes, new.node = n, new.case = Due.case, NEW l \in Int, Held(w, n, l)
    PROVE  Held(x, n, IF new.entry = 0 THEN l - 1 ELSE l)
  <1> DEFINE A == w.acts
             B == x.acts
             i == w.nextAct
             E == w.entries
             b == IF new.entry = 0 THEN 1 ELSE 0
  <1>1. PICK ev : Quiet(ev, x.acts) /\ x.events = w.events \o ev
    BY DEF Begun
  <1>2. Sequence(ev) /\ \A e \in Range(ev) : e.kind # "enter"
    BY <1>1 DEF Quiet
  <1>3. x.k = w.k /\ x.entries = w.entries /\ x.blocked = w.blocked /\ Good(x, {})
    BY DEF Begun, Rest
  <1>4. SameEpochs(w.k, x.k)
    BY <1>3 DEF SameEpochs
  <1>5. \A N : EntersAt(All(x), x.k, Due.case, N) = EntersAt(All(w), w.k, Due.case, N)
    BY <1>1, <1>2, <1>4, AheadQuiet
  <1>6. IsFiniteSet(DOMAIN A) /\ i \notin DOMAIN A
    <2>1. IsFiniteSet(DOMAIN A)
      BY Stocks
    <2>2. i \notin DOMAIN A
      BY DEF Good, Acts
    <2>. QED BY <2>1, <2>2
  <1>7. DOMAIN B = DOMAIN A \cup {i} /\ Alike(With(A, i, new), B, DOMAIN B)
    BY DEF Begun
  <1>8. ASSUME NEW N PROVE Moves(w, x, n, 0, b, 0, 0, N)
    <2> DEFINE p1 == EntersAt(All(w), w.k, Due.case, N)
               p2 == Placed(A, Owners(A), Due.case, N)
               p3 == Placed(E, DOMAIN E, Due.case, N)
               p4 == AtKeys(w.k.ands, N) + AtKeys(w.k.ors, N \X Nat)
               q2 == Placed(B, Owners(B), Due.case, N)
    <2>a. p1 \in Nat /\ p2 \in Nat /\ p3 \in Nat /\ AtKeys(w.k.ands, N) \in Nat /\ AtKeys(w.k.ors, N \X Nat) \in Nat
      BY PartsAre
    <2>1. p4 \in Nat
      BY <2>a
    <2>2. new.entry = 0 => q2 = p2 + Unit(n, N)
      <3>1. ASSUME new.entry = 0
            PROVE  Placed(B, Owners(B), new.case, N) = Placed(A, Owners(A), new.case, N) + Unit(new.node, N)
        <4> HIDE DEF A, B, i
        <4>. QED BY ONLY <3>1, <1>6, <1>7, ActCome
      <3>. QED BY <3>1
    <2>3. new.entry # 0 => q2 = p2
      <3>1. ASSUME new.entry # 0
            PROVE  Placed(B, Owners(B), Due.case, N) = Placed(A, Owners(A), Due.case, N)
        <4> HIDE DEF A, B, i
        <4>. QED BY ONLY <3>1, <1>6, <1>7, InstanceCome
      <3>. QED BY <3>1
    <2>4. EntersAt(All(x), x.k, Due.case, N) = p1 /\ Placed(x.entries, DOMAIN x.entries, Due.case, N) = p3
          /\ AtKeys(x.k.ands, N) + AtKeys(x.k.ors, N \X Nat) = p4
      BY <1>3, <1>5
    <2>5. Placed(w.acts, Owners(w.acts), Due.case, N) = p2 /\ Placed(x.acts, Owners(x.acts), Due.case, N) = q2
          /\ EntersAt(All(w), w.k, Due.case, N) = p1 /\ Placed(w.entries, DOMAIN w.entries, Due.case, N) = p3
          /\ AtKeys(w.k.ands, N) + AtKeys(w.k.ors, N \X Nat) = p4
      OBVIOUS
    <2> HIDE DEF p1, p2, p3, p4, q2
    <2>6. Apart(p1, p1, n, 0, N) /\ Apart(p3, p3, n, 0, N) /\ Apart(p4, p4, n, 0, N)
      BY <2>a, <2>1, ApartSame
    <2>7. Apart(p2, q2, n, b, N)
      BY <2>a, <2>2, <2>3, ApartSame, ApartMore
    <2>. QED BY <2>4, <2>5, <2>6, <2>7 DEF Moves
  <1>9. b \in Int /\ 0 \in Int
    OBVIOUS
  <1> HIDE DEF b
  <1>10. Held(x, n, l - (0 + b + 0 + 0))
    BY <1>3, <1>8, <1>9, MovesHeld
  <1>11. l - (0 + b + 0 + 0) = IF new.entry = 0 THEN l - 1 ELSE l
    BY <1>9 DEF b
  <1>. QED BY <1>10, <1>11

\* Tokens that wait at joins: d more at n
LEMMA JoinHeld ==
    ASSUME Here, NEW w, NEW Z, Good(w, Z), NEW x, Good(x, Z), NEW sz, CaseIs(w.k, sz), CaseIs(x.k, sz),
           x.k.tokens = w.k.tokens, x.k.subs = w.k.subs, x.blocked = w.blocked,
           x.acts = w.acts, x.entries = w.entries, x.events = w.events,
           NEW n \in Nodes, NEW l \in Int, Held(w, n, l), NEW d \in Int,
           \A N : Apart(AtKeys(w.k.ands, N) + AtKeys(w.k.ors, N \X Nat), AtKeys(x.k.ands, N) + AtKeys(x.k.ors, N \X Nat), n, d, N)
    PROVE  Held(x, n, l - d)
  <1>1. SameEpochs(w.k, x.k)
    BY DEF SameEpochs
  <1>2. \A N : EntersAt(All(x), x.k, Due.case, N) = EntersAt(All(w), w.k, Due.case, N)
    BY <1>1, AheadSame
  <1>3. ASSUME NEW N PROVE Moves(w, x, n, 0, 0, 0, d, N)
    <2> DEFINE p1 == EntersAt(All(w), w.k, Due.case, N)
               p2 == Placed(w.acts, Owners(w.acts), Due.case, N)
               p3 == Placed(w.entries, DOMAIN w.entries, Due.case, N)
    <2>1. p1 \in Nat /\ p2 \in Nat /\ p3 \in Nat
      BY PartsAre
    <2>2. EntersAt(All(x), x.k, Due.case, N) = p1
      BY <1>2
    <2>3. Placed(x.acts, Owners(x.acts), Due.case, N) = p2 /\ Placed(x.entries, DOMAIN x.entries, Due.case, N) = p3
      OBVIOUS
    <2>4. Apart(p1, p1, n, 0, N) /\ Apart(p2, p2, n, 0, N) /\ Apart(p3, p3, n, 0, N)
      <3> HIDE DEF p1, p2, p3
      <3>. QED BY <2>1, ApartSame
    <2>5. Apart(p1, EntersAt(All(x), x.k, Due.case, N), n, 0, N)
      BY <2>2, <2>4
    <2>. QED BY <2>3, <2>4, <2>5 DEF Moves
  <1>4. 0 \in Int
    OBVIOUS
  <1>5. Held(x, n, l - (0 + 0 + 0 + d))
    BY <1>3, <1>4, MovesHeld
  <1>6. l - (0 + 0 + 0 + d) = l - d
    OBVIOUS
  <1>. QED BY <1>5, <1>6

\* All that is known of what a handler works on, entries of X apart
Proper(w, sz, X) == Good(w, {}) /\ Tied(w, X) /\ Noted(w, sz)

\* A case that is recounted
LEMMA RecountedProper ==
    ASSUME Here, NEW w, NEW sz, NEW X, Proper(w, sz, X), NEW x, Retold(w, x), Recounts(w, x, sz),
           x.loops = w.loops
    PROVE  Proper(x, sz, X)
  <1>1. Good(x, {})
    BY Retelling DEF Proper
  <1>2. Tied(x, X)
    BY DEF Proper, Tied, All, Retold
  <1>3. Noted(x, sz)
    BY RecountedNoted DEF Proper
  <1>. QED BY <1>1, <1>2, <1>3 DEF Proper

\* A token comes to an AND join and waits there
LEMMA AndWaits ==
    ASSUME Here, NEW w, NEW sz, Proper(w, sz, {}), NEW n \in Nodes, NEW l \in Int, Held(w, n, l),
           NEW came, came = WaitingAt(n, w.k.ands) + 1, came < Incoming[n],
           NEW x, x = [w EXCEPT !.k.ands = With(@, n, came)]
    PROVE  Proper(x, sz, {}) /\ Held(x, n, l - 1)
  <1>1. CaseIs(w.k, sz) /\ Going(w.k) /\ DOMAIN w = WorkFields /\ "instant" \in DOMAIN w.k /\ Good(w, {})
    BY DEF Proper, Noted, Good
  <1> DEFINE f == w.k.ands
             g == With(f, n, came)
  <1>2. DOMAIN w.k = CaseFields /\ Heaped(f)
    BY <1>1 DEF CaseIs
  <1>3. x = [w EXCEPT !.k = [w.k EXCEPT !.ands = g]]
    BY <1>1 DEF WorkFields
  <1>4. /\ x.k = [w.k EXCEPT !.ands = g]
        /\ DOMAIN x = WorkFields /\ x.acts = w.acts /\ x.nextAct = w.nextAct /\ x.events = w.events
        /\ x.pending = w.pending /\ x.entries = w.entries /\ x.nextId = w.nextId /\ x.blocked = w.blocked
        /\ x.loops = w.loops
    BY <1>1, <1>3 DEF WorkFields
  <1>5. /\ x.k.ands = g /\ x.k.ors = w.k.ors /\ x.k.subs = w.k.subs /\ x.k.tokens = w.k.tokens
        /\ DOMAIN x.k = CaseFields /\ x.k.alive = w.k.alive /\ x.k.endId = w.k.endId /\ x.k.instant = w.k.instant
    BY <1>2, <1>4 DEF CaseFields
  <1>6. \A m \in DOMAIN g : g[m] = (IF m = n THEN came ELSE f[m]) /\ (m = n \/ m \in DOMAIN f)
    BY DEF With
  <1>7. Heaped(g) /\ DOMAIN g = DOMAIN f \cup {n} /\ \A K : AtKeys(g, K) = AtKeys(f, K) + Unit(n, K)
    <2>1. Gathers(f, n, g)
      BY <1>2 DEF Gathers
    <2> HIDE DEF f, g
    <2>2. ASSUME NEW K PROVE Heaped(g) /\ DOMAIN g = DOMAIN f \cup {n} /\ AtKeys(g, K) = AtKeys(f, K) + Unit(n, K)
      <3>1. Gathered(f, n, g, K)
        BY <2>1, KeptMore
      <3>. QED BY <3>1 DEF Gathered
    <2>. QED BY <2>2
  <1>8. CaseIs(x.k, sz)
    <2>1. DOMAIN g \subseteq Nodes /\ \A m \in DOMAIN g : g[m] < Incoming[m]
      BY <1>1, <1>6, <1>7 DEF CaseIs
    <2> HIDE DEF f, g
    <2>. QED BY <2>1, <1>1, <1>5, <1>7 DEF CaseIs
  <1>9. Recounts(w, x, sz)
    <2>1. Going(x.k) /\ \A u \in Subs : w.k.subs[u].epoch <= x.k.subs[u].epoch
      BY <1>1, <1>5 DEF Going, CaseIs, IsSub
    <2>. QED BY <2>1, <1>4, <1>8 DEF Recounts
  <1>10. Retold(w, x)
    BY <1>1, <1>4, <1>5 DEF Retold, CaseFields
  <1>11. Proper(x, sz, {})
    BY <1>4, <1>9, <1>10, RecountedProper
  <1>12. ASSUME NEW N
         PROVE  Apart(AtKeys(w.k.ands, N) + AtKeys(w.k.ors, N \X Nat), AtKeys(x.k.ands, N) + AtKeys(x.k.ors, N \X Nat), n, 1, N)
    <2> DEFINE a == AtKeys(f, N)
               b == AtKeys(w.k.ors, N \X Nat)
    <2>1. a \in Nat /\ b \in Nat
      BY <1>1, PartsAre
    <2>2. AtKeys(x.k.ands, N) = a + Unit(n, N) /\ AtKeys(x.k.ors, N \X Nat) = b
      <3> HIDE DEF f, g
      <3>. QED BY <1>5, <1>7
    <2>3. AtKeys(w.k.ands, N) = a
      OBVIOUS
    <2> HIDE DEF a, b
    <2>4. Apart(a + b, (a + Unit(n, N)) + b, n, 1, N)
      BY <2>1 DEF Apart, Unit
    <2>. QED BY <2>2, <2>3, <2>4 DEF b
  <1>13. Held(x, n, l - 1)
    <2>1. Good(x, {}) /\ 1 \in Int
      BY <1>11 DEF Proper
    <2>2. x.k.tokens = w.k.tokens /\ x.k.subs = w.k.subs /\ x.blocked = w.blocked
           /\ x.acts = w.acts /\ x.entries = w.entries /\ x.events = w.events
      BY <1>4, <1>5
    <2> HIDE DEF f, g
    <2>. QED BY <2>1, <2>2, <1>1, <1>8, <1>12, JoinHeld
  <1>. QED BY <1>11, <1>13

-----------------------------------------------------------------------------
(* Tokens that wait at a join *)

\* What waits at joins changes, and nothing else
Rejoins(w, x) ==
    /\ DOMAIN x = WorkFields /\ x.acts = w.acts /\ x.nextAct = w.nextAct /\ x.events = w.events
    /\ x.pending = w.pending /\ x.entries = w.entries /\ x.nextId = w.nextId /\ x.blocked = w.blocked
    /\ x.loops = w.loops
    /\ x.k.subs = w.k.subs /\ x.k.tokens = w.k.tokens
    /\ DOMAIN x.k = CaseFields /\ x.k.alive = w.k.alive /\ x.k.endId = w.k.endId /\ x.k.instant = w.k.instant

\* d tokens more wait at n
LEMMA Rejoined ==
    ASSUME Here, NEW w, NEW sz, NEW X, Proper(w, sz, X), NEW n \in Nodes, NEW l \in Int, Held(w, n, l),
           NEW x, Rejoins(w, x), Heaped(x.k.ands), Heaped(x.k.ors),
           DOMAIN x.k.ands \subseteq Nodes, \A m \in DOMAIN x.k.ands : x.k.ands[m] < Incoming[m],
           DOMAIN x.k.ors \subseteq Nodes \X (1 .. Len(sz)), \A key \in DOMAIN x.k.ors : x.k.ors[key] < sz[key[2]],
           NEW d \in Int,
           \A N : Apart(AtKeys(w.k.ands, N) + AtKeys(w.k.ors, N \X Nat), AtKeys(x.k.ands, N) + AtKeys(x.k.ors, N \X Nat), n, d, N)
    PROVE  Proper(x, sz, X) /\ Held(x, n, l - d)
  <1>1. CaseIs(w.k, sz) /\ Going(w.k) /\ Good(w, {})
    BY DEF Proper, Noted
  <1>2. CaseIs(x.k, sz)
    BY <1>1 DEF CaseIs, Rejoins
  <1>3. Recounts(w, x, sz)
    <2>1. Going(x.k) /\ \A u \in Subs : w.k.subs[u].epoch <= x.k.subs[u].epoch
      BY <1>1 DEF Going, CaseIs, IsSub, Rejoins
    <2>. QED BY <2>1, <1>2 DEF Recounts, Rejoins
  <1>4. Retold(w, x)
    BY DEF Retold, CaseFields, Rejoins
  <1>5. Proper(x, sz, X)
    BY <1>3, <1>4, RecountedProper DEF Rejoins
  <1>6. Held(x, n, l - d)
    <2>1. Good(x, {})
      BY <1>5 DEF Proper
    <2>2. x.k.tokens = w.k.tokens /\ x.k.subs = w.k.subs /\ x.blocked = w.blocked
           /\ x.acts = w.acts /\ x.entries = w.entries /\ x.events = w.events
      BY DEF Rejoins
    <2>. QED BY <2>1, <2>2, <1>1, <1>2, JoinHeld
  <1>. QED BY <1>5, <1>6

\* Other tokens wait at AND joins
WithAnds(w, g) == [w EXCEPT !.k.ands = g]

\* Nothing but the tokens at joins changes by it
LEMMA NewAnds ==
    ASSUME NEW w, DOMAIN w = WorkFields, DOMAIN w.k = CaseFields, NEW g, NEW x, x = WithAnds(w, g)
    PROVE  Rejoins(w, x) /\ x.k.ands = g /\ x.k.ors = w.k.ors
  <1> DEFINE p == [w.k EXCEPT !.ands = g]
  <1>1. x = [w EXCEPT !.k = p]
    BY DEF WorkFields, WithAnds
  <1>2. /\ DOMAIN p = CaseFields /\ p.ands = g /\ p.ors = w.k.ors /\ p.tokens = w.k.tokens /\ p.subs = w.k.subs
        /\ p.alive = w.k.alive /\ p.endId = w.k.endId /\ p.instant = w.k.instant
    BY DEF CaseFields
  <1> HIDE DEF p
  <1>3. /\ DOMAIN x = WorkFields /\ x.acts = w.acts /\ x.nextAct = w.nextAct /\ x.events = w.events
        /\ x.pending = w.pending /\ x.entries = w.entries /\ x.nextId = w.nextId /\ x.blocked = w.blocked
        /\ x.loops = w.loops /\ x.k = p
    BY <1>1 DEF WorkFields
  <1>. QED BY <1>2, <1>3 DEF Rejoins

\* ... or at OR joins
WithOrs(w, g) == [w EXCEPT !.k.ors = g]

\* Nothing but the tokens at joins changes by it
LEMMA NewOrs ==
    ASSUME NEW w, DOMAIN w = WorkFields, DOMAIN w.k = CaseFields, NEW g, NEW x, x = WithOrs(w, g)
    PROVE  Rejoins(w, x) /\ x.k.ors = g /\ x.k.ands = w.k.ands
  <1> DEFINE p == [w.k EXCEPT !.ors = g]
  <1>1. x = [w EXCEPT !.k = p]
    BY DEF WorkFields, WithOrs
  <1>2. /\ DOMAIN p = CaseFields /\ p.ors = g /\ p.ands = w.k.ands /\ p.tokens = w.k.tokens /\ p.subs = w.k.subs
        /\ p.alive = w.k.alive /\ p.endId = w.k.endId /\ p.instant = w.k.instant
    BY DEF CaseFields
  <1> HIDE DEF p
  <1>3. /\ DOMAIN x = WorkFields /\ x.acts = w.acts /\ x.nextAct = w.nextAct /\ x.events = w.events
        /\ x.pending = w.pending /\ x.entries = w.entries /\ x.nextId = w.nextId /\ x.blocked = w.blocked
        /\ x.loops = w.loops /\ x.k = p
    BY <1>1 DEF WorkFields
  <1>. QED BY <1>2, <1>3 DEF Rejoins

\* One is fewer when the tokens at it go
LEMMA AndFires ==
    ASSUME Here, NEW w, NEW sz, Proper(w, sz, {}), NEW n \in Nodes, NEW l \in Int, Held(w, n, l),
           NEW x, x = [w EXCEPT !.k.ands = Without(@, {n})]
    PROVE  Proper(x, sz, {}) /\ Held(x, n, l + WaitingAt(n, w.k.ands)) /\ WaitingAt(n, w.k.ands) \in Nat
           /\ (WaitingAt(n, w.k.ands) < Incoming[n] \/ WaitingAt(n, w.k.ands) = 0)
  <1>1. CaseIs(w.k, sz) /\ DOMAIN w = WorkFields /\ Good(w, {})
    BY DEF Proper, Noted, Good
  <1> DEFINE f == w.k.ands
             g == Without(f, {n})
             a == WaitingAt(n, f)
  <1>2. DOMAIN w.k = CaseFields /\ Heaped(f) /\ Heaped(w.k.ors)
    BY <1>1 DEF CaseIs
  <1>3. Rejoins(w, x) /\ x.k.ands = g /\ x.k.ors = w.k.ors
    <2>1. x = WithAnds(w, g)
      BY DEF WithAnds
    <2> HIDE DEF g
    <2>. QED BY ONLY <2>1, <1>1, <1>2, NewAnds
  <1>4. /\ Heaped(g) /\ DOMAIN g = DOMAIN f \ {n} /\ a \in Nat
        /\ \A K : AtKeys(g, K) = AtKeys(f, K) - (IF n \in K THEN a ELSE 0)
    <2>1. Heaped(f) /\ Scatters(f, n, g)
      BY <1>2 DEF Scatters
    <2> HIDE DEF f, g
    <2>2. ASSUME NEW K
          PROVE  Heaped(g) /\ DOMAIN g = DOMAIN f \ {n} /\ AtKeys(g, K) = AtKeys(f, K) - (IF n \in K THEN a ELSE 0)
      <3>1. Scattered(f, n, g, K)
        BY <2>1, KeptGone
      <3>. QED BY <3>1 DEF Scattered
    <2>3. a \in Nat
      BY <2>1, KeptOne
    <2>. QED BY <2>2, <2>3
  <1>5. \A m \in DOMAIN g : m \in DOMAIN f /\ g[m] = f[m]
    BY DEF Without
  <1>6. DOMAIN g \subseteq Nodes /\ \A m \in DOMAIN g : g[m] < Incoming[m]
    BY <1>1, <1>5 DEF CaseIs
  <1>7. ASSUME NEW N
        PROVE  Apart(AtKeys(w.k.ands, N) + AtKeys(w.k.ors, N \X Nat), AtKeys(x.k.ands, N) + AtKeys(x.k.ors, N \X Nat), n, -a, N)
    <2> DEFINE p == AtKeys(f, N)
               q == AtKeys(w.k.ors, N \X Nat)
    <2>1. p \in Nat /\ q \in Nat
      BY <1>1, PartsAre
    <2>2. AtKeys(x.k.ands, N) = p - (IF n \in N THEN a ELSE 0) /\ AtKeys(x.k.ors, N \X Nat) = q
      <3> HIDE DEF f, g, a
      <3>. QED BY <1>3, <1>4
    <2>3. AtKeys(w.k.ands, N) = p
      OBVIOUS
    <2> HIDE DEF p, q, a
    <2>4. Apart(p + q, (p - (IF n \in N THEN a ELSE 0)) + q, n, -a, N)
      BY <2>1, <1>4 DEF Apart
    <2>. QED BY <2>2, <2>3, <2>4 DEF q
  <1>8. DOMAIN w.k.ors \subseteq Nodes \X (1 .. Len(sz)) /\ \A key \in DOMAIN w.k.ors : w.k.ors[key] < sz[key[2]]
    BY <1>1 DEF CaseIs
  <1>9. a < Incoming[n] \/ a = 0
    BY <1>1 DEF CaseIs, WaitingAt
  <1>10. Proper(x, sz, {}) /\ Held(x, n, l - (-a))
    <2>1. -a \in Int
      <3> HIDE DEF a
      <3>. QED BY <1>4
    <2> HIDE DEF f, g, a
    <2>. QED BY <2>1, <1>2, <1>3, <1>4, <1>6, <1>7, <1>8, Rejoined
  <1>11. l - (-a) = l + a
    <2> HIDE DEF a
    <2>. QED BY <1>4
  <1>. QED BY <1>4, <1>9, <1>10, <1>11

\* A token comes to an OR join and waits there
LEMMA OrWaits ==
    ASSUME Here, NEW w, NEW sz, Proper(w, sz, {}), NEW n \in Nodes, NEW l \in Int, Held(w, n, l),
           NEW j \in 1 .. Len(sz), Len(sz) \in Nat,
           NEW came, came = WaitingAt(<<n, j>>, w.k.ors) + 1, came < sz[j],
           NEW x, x = [w EXCEPT !.k.ors = With(@, <<n, j>>, came)]
    PROVE  Proper(x, sz, {}) /\ Held(x, n, l - 1)
  <1>1. CaseIs(w.k, sz) /\ DOMAIN w = WorkFields /\ Good(w, {})
    BY DEF Proper, Noted, Good
  <1> DEFINE f == w.k.ors
             key == <<n, j>>
             g == With(f, key, came)
  <1>2. DOMAIN w.k = CaseFields /\ Heaped(f) /\ Heaped(w.k.ands)
    BY <1>1 DEF CaseIs
  <1>3. Rejoins(w, x) /\ x.k.ors = g /\ x.k.ands = w.k.ands
    <2>1. x = WithOrs(w, g)
      BY DEF WithOrs
    <2> HIDE DEF g
    <2>. QED BY ONLY <2>1, <1>1, <1>2, NewOrs
  <1>4. Heaped(g) /\ DOMAIN g = DOMAIN f \cup {key} /\ \A K : AtKeys(g, K) = AtKeys(f, K) + Unit(key, K)
    <2>1. Heaped(f) /\ came = WaitingAt(key, f) + 1
      BY <1>2
    <2>3. Gathers(f, key, g)
      BY <2>1 DEF Gathers
    <2> HIDE DEF f, g, key
    <2>2. ASSUME NEW K
          PROVE  Heaped(g) /\ DOMAIN g = DOMAIN f \cup {key} /\ AtKeys(g, K) = AtKeys(f, K) + Unit(key, K)
      <3>1. Gathered(f, key, g, K)
        BY <2>3, KeptMore
      <3>. QED BY <3>1 DEF Gathered
    <2>. QED BY <2>2
  <1>5. \A m \in DOMAIN g : g[m] = (IF m = key THEN came ELSE f[m]) /\ (m = key \/ m \in DOMAIN f)
    BY DEF With
  <1>6. key \in Nodes \X (1 .. Len(sz)) /\ key[2] = j /\ \A N : Unit(key, N \X Nat) = Unit(n, N)
    BY DEF Unit
  <1>7. DOMAIN g \subseteq Nodes \X (1 .. Len(sz)) /\ \A m \in DOMAIN g : g[m] < sz[m[2]]
    <2>1. DOMAIN f \subseteq Nodes \X (1 .. Len(sz)) /\ \A m \in DOMAIN f : f[m] < sz[m[2]]
      BY <1>1 DEF CaseIs
    <2> HIDE DEF f, g, key
    <2>. QED BY <2>1, <1>4, <1>5, <1>6
  <1>8. ASSUME NEW N
        PROVE  Apart(AtKeys(w.k.ands, N) + AtKeys(w.k.ors, N \X Nat), AtKeys(x.k.ands, N) + AtKeys(x.k.ors, N \X Nat), n, 1, N)
    <2> DEFINE p == AtKeys(w.k.ands, N)
               q == AtKeys(f, N \X Nat)
    <2>1. p \in Nat /\ q \in Nat
      BY <1>1, PartsAre
    <2>2. AtKeys(x.k.ors, N \X Nat) = q + Unit(n, N) /\ AtKeys(x.k.ands, N) = p
      <3> HIDE DEF f, g, key
      <3>. QED BY <1>3, <1>4, <1>6
    <2>3. AtKeys(w.k.ors, N \X Nat) = q
      OBVIOUS
    <2> HIDE DEF p, q
    <2>4. Apart(p + q, p + (q + Unit(n, N)), n, 1, N)
      BY <2>1 DEF Apart, Unit
    <2>. QED BY <2>2, <2>3, <2>4 DEF p
  <1>9. DOMAIN w.k.ands \subseteq Nodes /\ \A m \in DOMAIN w.k.ands : w.k.ands[m] < Incoming[m]
    BY <1>1 DEF CaseIs
  <1>10. 1 \in Int
    OBVIOUS
  <1> HIDE DEF f, g, key
  <1>. QED BY <1>2, <1>3, <1>4, <1>7, <1>8, <1>9, <1>10, Rejoined

\* The tokens that wait at an OR join go
LEMMA OrFires ==
    ASSUME Here, NEW w, NEW sz, Proper(w, sz, {}), NEW n \in Nodes, NEW l \in Int, Held(w, n, l), NEW j \in Nat,
           NEW x, x = [w EXCEPT !.k.ors = Without(@, {<<n, j>>})]
    PROVE  Proper(x, sz, {}) /\ Held(x, n, l + WaitingAt(<<n, j>>, w.k.ors)) /\ WaitingAt(<<n, j>>, w.k.ors) \in Nat
           /\ (WaitingAt(<<n, j>>, w.k.ors) < sz[j] \/ WaitingAt(<<n, j>>, w.k.ors) = 0)
  <1>1. CaseIs(w.k, sz) /\ DOMAIN w = WorkFields /\ Good(w, {})
    BY DEF Proper, Noted, Good
  <1> DEFINE f == w.k.ors
             key == <<n, j>>
             g == Without(f, {key})
             a == WaitingAt(key, f)
  <1>2. DOMAIN w.k = CaseFields /\ Heaped(f) /\ Heaped(w.k.ands)
    BY <1>1 DEF CaseIs
  <1>3. Rejoins(w, x) /\ x.k.ors = g /\ x.k.ands = w.k.ands
    <2>1. x = WithOrs(w, g)
      BY DEF WithOrs
    <2> HIDE DEF g
    <2>. QED BY ONLY <2>1, <1>1, <1>2, NewOrs
  <1>4. /\ Heaped(g) /\ DOMAIN g = DOMAIN f \ {key} /\ a \in Nat
        /\ \A K : AtKeys(g, K) = AtKeys(f, K) - (IF key \in K THEN a ELSE 0)
    <2>1. Heaped(f) /\ Scatters(f, key, g)
      BY <1>2 DEF Scatters
    <2> HIDE DEF f, g, key
    <2>2. ASSUME NEW K
          PROVE  Heaped(g) /\ DOMAIN g = DOMAIN f \ {key} /\ AtKeys(g, K) = AtKeys(f, K) - (IF key \in K THEN a ELSE 0)
      <3>1. Scattered(f, key, g, K)
        BY <2>1, KeptGone
      <3>. QED BY <3>1 DEF Scattered
    <2>3. a \in Nat
      BY <2>1, KeptOne
    <2>. QED BY <2>2, <2>3
  <1>5. \A m \in DOMAIN g : m \in DOMAIN f /\ g[m] = f[m]
    BY DEF Without
  <1>6. key[2] = j /\ \A N : key \in N \X Nat <=> n \in N
    OBVIOUS
  <1>7. DOMAIN g \subseteq Nodes \X (1 .. Len(sz)) /\ \A m \in DOMAIN g : g[m] < sz[m[2]]
    <2>1. DOMAIN f \subseteq Nodes \X (1 .. Len(sz)) /\ \A m \in DOMAIN f : f[m] < sz[m[2]]
      BY <1>1 DEF CaseIs
    <2> HIDE DEF f, g, key
    <2>. QED BY <2>1, <1>5
  <1>8. ASSUME NEW N
        PROVE  Apart(AtKeys(w.k.ands, N) + AtKeys(w.k.ors, N \X Nat), AtKeys(x.k.ands, N) + AtKeys(x.k.ors, N \X Nat), n, -a, N)
    <2> DEFINE p == AtKeys(w.k.ands, N)
               q == AtKeys(f, N \X Nat)
    <2>1. p \in Nat /\ q \in Nat
      BY <1>1, PartsAre
    <2>2. AtKeys(x.k.ors, N \X Nat) = q - (IF n \in N THEN a ELSE 0) /\ AtKeys(x.k.ands, N) = p
      <3> HIDE DEF f, g, key, a
      <3>. QED BY <1>3, <1>4, <1>6
    <2>3. AtKeys(w.k.ors, N \X Nat) = q
      OBVIOUS
    <2> HIDE DEF p, q, a
    <2>4. Apart(p + q, p + (q - (IF n \in N THEN a ELSE 0)), n, -a, N)
      BY <2>1, <1>4 DEF Apart
    <2>. QED BY <2>2, <2>3, <2>4 DEF p
  <1>9. DOMAIN w.k.ands \subseteq Nodes /\ \A m \in DOMAIN w.k.ands : w.k.ands[m] < Incoming[m]
    BY <1>1 DEF CaseIs
  <1>10. a < sz[j] \/ a = 0
    BY <1>1, <1>6 DEF CaseIs, WaitingAt
  <1>11. Proper(x, sz, {}) /\ Held(x, n, l - (-a))
    <2>1. -a \in Int
      <3> HIDE DEF a
      <3>. QED BY <1>4
    <2> HIDE DEF f, g, a, key
    <2>. QED BY <2>1, <1>2, <1>3, <1>4, <1>7, <1>8, <1>9, Rejoined
  <1>12. l - (-a) = l + a
    <2> HIDE DEF a
    <2>. QED BY <1>4
  <1>. QED BY <1>4, <1>10, <1>11, <1>12

-----------------------------------------------------------------------------
(* A sub-process is interrupted *)

\* l is the case k once what is inside u has been cancelled and a token is at b
Cancels(k, l, u, b) ==
    /\ DOMAIN l = CaseFields /\ l.alive = k.alive /\ l.endId = k.endId /\ l.instant = k.instant
    /\ l.tokens = k.tokens + 1 - k.subs[u].tokens
    /\ l.ands = Without(k.ands, {n \in DOMAIN k.ands : u \in Round(n)})
    /\ l.ors = Without(k.ors, {key \in DOMAIN k.ors : u \in Round(key[1])})
    /\ DOMAIN l.subs = Subs
    /\ \A v \in Subs : DOMAIN l.subs[v] = DOMAIN k.subs[v] /\ l.subs[v].marks = k.subs[v].marks
    /\ \A v \in Under(u) :
          l.subs[v].tokens = 0 /\ l.subs[v].instance = 0 /\ l.subs[v].epoch = k.subs[v].epoch + 1
    /\ \A v \in Subs \ Under(u) : /\ l.subs[v].instance = k.subs[v].instance /\ l.subs[v].epoch = k.subs[v].epoch
                                  /\ l.subs[v].tokens = k.subs[v].tokens + (IF v \in Round(b) THEN 1 - k.subs[u].tokens ELSE 0)

\* It is what CancelledTokens says
LEMMA CancelledIs ==
    ASSUME model \in Models, NEW u \in Subs, NEW b, NEW sz, NEW k, CaseIs(k, sz), NEW l, l = CancelledTokens(k, u, b)
    PROVE  Cancels(k, l, u, b)
  <1> DEFINE S == [v \in Subs |->
                     IF v \in {u} \cup model.nested[u]
                     THEN [k.subs[v] EXCEPT !.tokens = 0, !.instance = 0, !.epoch = k.subs[v].epoch + 1]
                     ELSE IF v \in Range(Inside[b]) THEN [k.subs[v] EXCEPT !.tokens = k.subs[v].tokens + 1 - k.subs[u].tokens]
                     ELSE k.subs[v]]
             P == Without(k.ands, {n \in DOMAIN k.ands : u \in Range(Inside[n])})
             Q == Without(k.ors, {key \in DOMAIN k.ors : {n \in {key[1]} : u \in Range(Inside[n])} # {}})
  <1>1. l = [k EXCEPT !.tokens = @ + 1 - k.subs[u].tokens, !.ands = P, !.ors = Q, !.subs = S]
    BY DEF CancelledTokens
  <1>2. {key \in DOMAIN k.ors : {n \in {key[1]} : u \in Range(Inside[n])} # {}} = {key \in DOMAIN k.ors : u \in Round(key[1])}
    BY DEF Round
  <1>3. P = Without(k.ands, {n \in DOMAIN k.ands : u \in Round(n)})
    BY DEF Round
  <1>4. Q = Without(k.ors, {key \in DOMAIN k.ors : u \in Round(key[1])})
    BY <1>2
  <1>5. DOMAIN S = Subs
    OBVIOUS
  <1>6. ASSUME NEW v \in Subs
        PROVE  /\ DOMAIN S[v] = DOMAIN k.subs[v] /\ S[v].marks = k.subs[v].marks
               /\ v \in Under(u) => S[v].tokens = 0 /\ S[v].instance = 0 /\ S[v].epoch = k.subs[v].epoch + 1
               /\ v \notin Under(u) => /\ S[v].instance = k.subs[v].instance /\ S[v].epoch = k.subs[v].epoch
                                       /\ S[v].tokens = k.subs[v].tokens + (IF v \in Round(b) THEN 1 - k.subs[u].tokens ELSE 0)
    <2>1. DOMAIN k.subs[v] = {"tokens", "instance", "marks", "epoch"} /\ k.subs[v].tokens \in Int /\ k.subs[u].tokens \in Int
      BY DEF CaseIs, IsSub
    <2>2. v \in Under(u) <=> v \in {u} \cup model.nested[u]
      BY DEF Under
    <2>3. CASE v \in Under(u)
      <3>1. S[v] = [k.subs[v] EXCEPT !.tokens = 0, !.instance = 0, !.epoch = k.subs[v].epoch + 1]
        BY <2>2, <2>3
      <3>. QED BY <2>1, <2>3, <3>1
    <2>4. CASE v \notin Under(u) /\ v \in Round(b)
      <3>1. S[v] = [k.subs[v] EXCEPT !.tokens = k.subs[v].tokens + 1 - k.subs[u].tokens]
        BY <2>2, <2>4 DEF Round
      <3>. QED BY <2>1, <2>4, <3>1
    <2>5. CASE v \notin Under(u) /\ v \notin Round(b)
      <3>1. S[v] = k.subs[v]
        BY <2>2, <2>5 DEF Round
      <3> DEFINE a == k.subs[v]
                 z == S[v]
      <3>2. z = a /\ a.tokens = a.tokens + 0
        BY <2>1, <3>1
      <3> HIDE DEF a, z
      <3>3. /\ DOMAIN z = DOMAIN a /\ z.marks = a.marks
            /\ z.instance = a.instance /\ z.epoch = a.epoch /\ z.tokens = a.tokens + (IF v \in Round(b) THEN 1 - k.subs[u].tokens ELSE 0)
        BY <3>2, <2>5
      <3>. QED BY <2>5, <3>3 DEF a, z
    <2>. QED BY <2>3, <2>4, <2>5
  <1> HIDE DEF S, P, Q
  <1>7. DOMAIN k = CaseFields
    BY DEF CaseIs
  <1>8. /\ DOMAIN l = CaseFields /\ l.alive = k.alive /\ l.endId = k.endId /\ l.instant = k.instant
        /\ l.tokens = k.tokens + 1 - k.subs[u].tokens /\ l.ands = P /\ l.ors = Q /\ l.subs = S
    BY <1>1, <1>7 DEF CaseFields
  <1>9. \A v \in Under(u) : v \in Subs
    BY DEF Under
  <1>. QED BY <1>3, <1>4, <1>5, <1>6, <1>8, <1>9 DEF Cancels

\* It is a case
LEMMA CancelledCase ==
    ASSUME model \in Models, NEW u \in Subs, NEW b, NEW sz, NEW k, CaseIs(k, sz), NEW l, Cancels(k, l, u, b)
    PROVE  CaseIs(l, sz) /\ \A v \in Subs : k.subs[v].epoch <= l.subs[v].epoch
  <1>1. /\ Heaped(k.ands) /\ Heaped(k.ors) /\ DOMAIN k.ands \subseteq Nodes /\ DOMAIN k.ors \subseteq Nodes \X (1 .. Len(sz))
        /\ k.tokens \in Int /\ k.subs[u].tokens \in Int
    BY DEF CaseIs, IsSub
  <1>2. ASSUME NEW v \in Subs PROVE IsSub(l.subs[v], Len(sz)) /\ k.subs[v].epoch <= l.subs[v].epoch
    <2>1. IsSub(k.subs[v], Len(sz))
      BY DEF CaseIs
    <2>2. CASE v \in Under(u)
      BY <1>1, <2>1, <2>2 DEF Cancels, IsSub
    <2>3. CASE v \notin Under(u)
      BY <1>1, <2>1, <2>3 DEF Cancels, IsSub
    <2>. QED BY <2>2, <2>3
  <1>3. Heaped(l.ands) /\ DOMAIN l.ands \subseteq DOMAIN k.ands /\ \A n \in DOMAIN l.ands : l.ands[n] = k.ands[n]
    <2> DEFINE f == k.ands
               g == l.ands
               D == {n \in DOMAIN k.ands : u \in Round(n)}
    <2>1. g = Without(f, D)
      BY DEF Cancels
    <2>2. \A x : x \in Nodes \ D <=> x \in Nodes /\ x \notin D
      OBVIOUS
    <2> HIDE DEF f, g, D
    <2>3. Heaped(g)
      BY <1>1, <2>1, <2>2, KeptCut DEF f
    <2>4. DOMAIN g \subseteq DOMAIN f /\ \A n \in DOMAIN g : g[n] = f[n]
      BY <2>1 DEF Without
    <2>. QED BY <2>3, <2>4 DEF f, g
  <1>4. Heaped(l.ors) /\ DOMAIN l.ors \subseteq DOMAIN k.ors /\ \A n \in DOMAIN l.ors : l.ors[n] = k.ors[n]
    <2> DEFINE f == k.ors
               g == l.ors
               D == {key \in DOMAIN k.ors : u \in Round(key[1])}
    <2>1. g = Without(f, D)
      BY DEF Cancels
    <2>2. \A x : x \in Nodes \ D <=> x \in Nodes /\ x \notin D
      OBVIOUS
    <2> HIDE DEF f, g, D
    <2>3. Heaped(g)
      BY <1>1, <2>1, <2>2, KeptCut DEF f
    <2>4. DOMAIN g \subseteq DOMAIN f /\ \A n \in DOMAIN g : g[n] = f[n]
      BY <2>1 DEF Without
    <2>. QED BY <2>3, <2>4 DEF f, g
  <1>5. DOMAIN l = CaseFields /\ l.tokens \in Int /\ DOMAIN l.subs = Subs
    <2>1. DOMAIN l = CaseFields /\ l.tokens = k.tokens + 1 - k.subs[u].tokens /\ DOMAIN l.subs = Subs
      BY DEF Cancels
    <2>. QED BY <1>1, <2>1
  <1>6. \A n \in DOMAIN l.ands : l.ands[n] < Incoming[n]
    BY <1>3 DEF CaseIs
  <1>7. \A key \in DOMAIN l.ors : l.ors[key] < sz[key[2]]
    BY <1>4 DEF CaseIs
  <1>8. CaseIs(l, sz)
    BY <1>1, <1>2, <1>3, <1>4, <1>5, <1>6, <1>7 DEF CaseIs
  <1>. QED BY <1>2, <1>8

\* y is w once u has been cancelled for b in its case, with what was stuck inside
Severed(w, y, u, b) ==
    /\ DOMAIN y = WorkFields /\ y.acts = w.acts /\ y.loops = w.loops /\ y.entries = w.entries
    /\ y.nextAct = w.nextAct /\ y.nextId = w.nextId /\ y.events = w.events /\ y.pending = w.pending
    /\ Cancels(w.k, y.k, u, b)
    /\ y.blocked = {g \in w.blocked : g[2] # Due.case \/ u \notin Round(g[1])}

\* The activities of the case in u, and the entries they are instances of
ActsIn(w, u) == {i \in DOMAIN w.acts : w.acts[i].case = Due.case /\ u \in Round(w.acts[i].node)}
EntriesIn(w, u) == {w.acts[i].entry : i \in ActsIn(w, u)}

\* What interruptSubprocess does after that
LEMMA InterruptedCut ==
    ASSUME Here, NEW w, Good(w, {}), NEW u \in Subs, NEW b, NEW sz, CaseIs(w.k, sz), NEW x \in InterruptSubprocess(w, u, b)
    PROVE  \E y : Severed(w, y, u, b) /\ Good(y, {}) /\ Cut(y, x, ActsIn(w, u), {}, EntriesIn(w, u))
  <1> DEFINE mine == ActsIn(w, u)
             gone == EntriesIn(w, u)
             l == CancelledTokens(w.k, u, b)
             D == {g \in w.blocked : g[2] # Due.case \/ u \notin Round(g[1])}
             v == [w EXCEPT !.rows = Logged(@, mine, "interrupted"), !.entries = Without(@, gone), !.blocked = D, !.k = l]
             y == [w EXCEPT !.blocked = D, !.k = l]
  <1>0. model \in Models
    BY DEF Here
  <1>1. x \in Released(v, mine)
    BY DEF InterruptSubprocess, ActsIn, EntriesIn, Round
  <1>2. /\ DOMAIN w = WorkFields /\ "instant" \in DOMAIN w.k /\ Entered(w.acts, w.entries, w.nextId, {})
    BY DEF Good
  <1>3. Cancels(w.k, l, u, b)
    BY <1>0, CancelledIs
  <1>4. "instant" \in DOMAIN l /\ l.instant = w.k.instant
    BY <1>3 DEF Cancels, CaseFields
  <1>5. D = {g \in w.blocked : g[2] # Due.case \/ u \notin Round(g[1])}
    OBVIOUS
  <1> HIDE DEF mine, gone, l, D
  <1>6. /\ DOMAIN y = WorkFields /\ y.acts = w.acts /\ y.loops = w.loops /\ y.entries = w.entries
        /\ y.nextAct = w.nextAct /\ y.nextId = w.nextId /\ y.events = w.events /\ y.pending = w.pending
        /\ y.k = l /\ y.blocked = D
    BY <1>2 DEF WorkFields
  <1>7. /\ DOMAIN v = WorkFields /\ v.acts = w.acts /\ v.loops = w.loops /\ v.entries = Without(w.entries, gone)
        /\ v.nextAct = w.nextAct /\ v.nextId = w.nextId /\ v.events = w.events /\ v.pending = w.pending
        /\ v.k = l /\ v.blocked = D
    BY <1>2 DEF WorkFields
  <1> HIDE DEF v, y
  <1>8. Severed(w, y, u, b)
    BY <1>3, <1>5, <1>6 DEF Severed
  <1>9. Good(y, {})
    BY <1>2, <1>4, <1>6, Likewise
  <1>10. /\ \A i \in mine : i \in DOMAIN w.acts /\ w.acts[i].case = Due.case
         /\ \A e \in gone : \E i \in mine : w.acts[i].entry = e
         /\ \A i \in mine : w.acts[i].entry \in gone
    BY DEF mine, gone, EntriesIn, ActsIn
  <1>11. /\ DOMAIN v.entries = DOMAIN w.entries \ gone /\ \A e \in DOMAIN v.entries : v.entries[e] = w.entries[e]
    BY <1>7 DEF Without
  <1>12. ASSUME NEW i \in DOMAIN w.acts, i \notin mine, w.acts[i].entry # 0 PROVE w.acts[i].entry \notin gone
    <2>1. ASSUME NEW j \in mine, w.acts[i].entry = w.acts[j].entry PROVE FALSE
      <3>1. j \in DOMAIN w.acts /\ w.acts[j].case = Due.case /\ u \in Round(w.acts[j].node)
        BY DEF mine, ActsIn
      <3>2. w.acts[i].node = w.acts[j].node /\ w.acts[i].case = w.acts[j].case
        BY <3>1, <2>1, <1>12, <1>2 DEF Entered
      <3>. QED BY <3>1, <3>2, <1>12 DEF mine, ActsIn
    <2>. QED BY <2>1, <1>10
  <1>13. Entered(v.acts, v.entries, v.nextId, mine)
    BY <1>2, <1>7, <1>11, <1>12 DEF Entered
  <1>14. Good(v, mine)
    BY <1>2, <1>4, <1>7, <1>13, Likewise
  <1>15. \A e \in gone \cap DOMAIN w.entries : w.entries[e].case = Due.case
    <2>1. ASSUME NEW e \in gone \cap DOMAIN w.entries PROVE w.entries[e].case = Due.case
      <3>1. PICK i \in mine : w.acts[i].entry = e
        BY <1>10
      <3>2. e # 0 /\ i \in DOMAIN w.acts /\ w.acts[i].case = Due.case
        BY <3>1, <1>10, <1>2 DEF Entered
      <3>. QED BY <3>1, <3>2, <1>2 DEF Entered
    <2>. QED BY <2>1
  <1>16. Fewer(y.loops, v.loops, {}) /\ Fewer(y.entries, v.entries, gone)
    BY <1>6, <1>7, <1>11 DEF Fewer
  <1>17. Closing(y, v, mine, {}, gone)
    BY <1>6, <1>7, <1>10, <1>14, <1>15, <1>16 DEF Closing
  <1>18. Cut(y, x, mine, {}, gone)
    BY <1>1, <1>17, FreedCut
  <1>. QED BY <1>8, <1>9, <1>18 DEF mine, gone

\* The tables it leaves
LEMMA InterruptedProper ==
    ASSUME Here, NEW w, NEW sz, Proper(w, sz, {}), NEW u \in Subs, NEW b, NEW y, Severed(w, y, u, b), Good(y, {}),
           NEW x, Cut(y, x, ActsIn(w, u), {}, EntriesIn(w, u))
    PROVE  Proper(x, sz, {}) /\ x.k = y.k /\ Proper(y, sz, {})
  <1> DEFINE ids == ActsIn(w, u)
             es == EntriesIn(w, u)
  <1>0. model \in Models /\ Good(w, {}) /\ Tied(w, {}) /\ Noted(w, sz)
    BY DEF Proper, Here
  <1>1. y.acts = w.acts /\ y.events = w.events /\ y.entries = w.entries /\ Cancels(w.k, y.k, u, b)
    BY DEF Severed
  <1>2. Tied(y, {})
    BY <1>0 DEF Severed, Tied, All
  <1>3. CaseIs(w.k, sz) /\ Going(w.k) /\ Epochs(w.k, Due.case, Coming(w))
    BY <1>0 DEF Noted
  <1>4. CaseIs(y.k, sz) /\ \A v \in Subs : w.k.subs[v].epoch <= y.k.subs[v].epoch
    BY <1>0, <1>1, <1>3, CancelledCase
  <1>5. Going(y.k)
    BY <1>1, <1>3 DEF Going, Cancels
  <1>6. Notes(w, y, sz)
    <2>1. \A n, c : c # Due.case => (<<n, c>> \in y.blocked <=> <<n, c>> \in w.blocked)
      BY DEF Severed
    <2>2. Sequence(<<>>) /\ Range(<<>>) = {} /\ y.events = w.events \o <<>>
      BY <1>0, <1>1, Empty, WithNothing DEF Good
    <2>3. \E ev : /\ Sequence(ev) /\ y.events = w.events \o ev
                  /\ \A e \in Range(ev) : e.kind = "enter" =>
                        /\ e.case = Due.case /\ IsMarks(e.marks, Len(sz)) /\ e.epoch \in Nat
                        /\ Inside[e.node] # <<>> => e.epoch <= EpochAt(y.k, e.node)
      BY <2>2
    <2>4. \A i \in DOMAIN y.acts : i \in DOMAIN w.acts /\ AlikeAt(w.acts, y.acts, i)
      BY <1>1 DEF AlikeAt
    <2>5. \A i \in DOMAIN w.acts : i \in DOMAIN y.acts /\ AlikeAt(w.acts, y.acts, i)
      BY <1>1 DEF AlikeAt
    <2>. QED BY <1>1, <1>4, <1>5, <2>1, <2>3, <2>4, <2>5 DEF Notes
  <1>7. Noted(y, sz)
    BY <1>0, <1>6, NotedNext
  <1>8. Noted(x, sz)
    BY <1>7, CutNoted
  <1>9. Tied(x, {})
    <2>1. ids \subseteq DOMAIN y.acts /\ \A i \in ids : y.acts[i].entry # 0 => y.acts[i].entry \in es \cup {}
      BY <1>1 DEF ActsIn, EntriesIn
    <2>2. \A l \in {} : \E i \in ids : y.acts[i].loop = l
      OBVIOUS
    <2>3. {} \subseteq es \cup {}
      OBVIOUS
    <2> HIDE DEF ids, es
    <2>4. Cut(y, x, ids, {}, es)
      BY DEF ids, es
    <2>. QED BY <1>2, <2>1, <2>2, <2>3, <2>4, CutTied
  <1>10. Good(x, {}) /\ x.k = y.k
    BY DEF Cut
  <1>. QED BY <1>2, <1>7, <1>8, <1>9, <1>10 DEF Proper

\* A sub-process that has a boundary and a node has been interrupted
Severs(w, sz, y, x, u, b) ==
    /\ Proper(w, sz, {}) /\ Severed(w, y, u, b) /\ Proper(y, sz, {})
    /\ Proper(x, sz, {}) /\ Cut(y, x, ActsIn(w, u), {}, EntriesIn(w, u))
    /\ b \in Range(Borders[u]) \cup Errors(u) /\ NodesIn(u) # {}
Outside(N, u) == N \ NodesIn(u)

\* The tokens on their way inside do not count any more
LEMMA SeveredEnters ==
    ASSUME Here, NEW w, NEW sz, NEW y, NEW x, NEW u \in Subs, NEW b, Severs(w, sz, y, x, u, b), NEW N
    PROVE  EntersAt(All(x), x.k, Due.case, N) = EntersAt(All(w), w.k, Due.case, Outside(N, u))
  <1>0. /\ model \in Models /\ Good(w, {}) /\ Good(y, {}) /\ Noted(w, sz) /\ Cut(y, x, ActsIn(w, u), {}, EntriesIn(w, u))
        /\ CaseIs(w.k, sz) /\ Epochs(w.k, Due.case, Coming(w)) /\ y.events = w.events
    BY DEF Severs, Proper, Here, Noted, Severed
  <1>1. PICK ev : Quiet(ev, x.acts) /\ x.events = y.events \o ev
    BY <1>0 DEF Cut
  <1>2. EntersAt(All(x), x.k, Due.case, N) = EntersAt(All(y), y.k, Due.case, N)
    <2>1. Sequence(ev) /\ \A e \in Range(ev) : e.kind # "enter"
      BY <1>1 DEF Quiet
    <2>2. SameEpochs(y.k, x.k)
      BY <1>0 DEF SameEpochs, Cut
    <2>. QED BY <1>0, <1>1, <2>1, <2>2, AheadQuiet
  <1> DEFINE O == N \ NodesIn(u)
             h == All(w)
  <1>3. Sequence(h) /\ Range(h) = Coming(w) /\ All(y) = h
    <2>1. Sequence(<<>>) /\ w.events = w.events \o <<>> /\ Sequence(w.events)
      BY <1>0, Empty, WithNothing DEF Good
    <2>2. Sequence(h) /\ Range(h) = Coming(w)
      BY <2>1, AheadLonger
    <2>. QED BY <1>0, <2>2 DEF All
  <1>4. \A e \in Range(h) : e \in Tokens(h, w.k, Due.case, O) <=> e \in Tokens(h, y.k, Due.case, N)
    <2>1. ASSUME NEW e \in Range(h), e.kind = "enter", e.case = Due.case, e.node \in N
          PROVE  e.node \notin NodesIn(u) /\ Fresh(w.k, e) <=> Fresh(y.k, e)
      <3>1. e.node \in Nodes
        BY <1>0, <1>3, <2>1 DEF Good, Events, IsEvent
      <3>2. e.epoch \in Nat /\ (Inside[e.node] # <<>> => e.epoch <= EpochAt(w.k, e.node))
        BY <1>0, <1>3, <2>1 DEF Epochs
      <3> DEFINE r == Head(Inside[e.node])
      <3>3. CASE e.node \in NodesIn(u)
        <4>1. Inside[e.node] # <<>> /\ r \in Under(u)
          BY <1>0, <3>1, <3>3, Tree DEF Severs
        <4>2. y.k.subs[r].epoch = w.k.subs[r].epoch + 1
          BY <4>1 DEF Severs, Severed, Cancels
        <4>3. r \in Subs /\ w.k.subs[r].epoch \in Nat
          BY <4>1, <1>0 DEF Under, CaseIs, IsSub
        <4>4. EpochAt(w.k, e.node) = w.k.subs[r].epoch /\ EpochAt(y.k, e.node) = y.k.subs[r].epoch
          BY <4>1 DEF EpochAt
        <4> HIDE DEF r
        <4>5. EpochAt(y.k, e.node) # e.epoch
          BY <3>2, <4>1, <4>2, <4>3, <4>4
        <4>. QED BY <3>3, <4>1, <4>5 DEF Fresh
      <3>4. CASE e.node \notin NodesIn(u)
        <4>1. ASSUME Inside[e.node] # <<>> PROVE EpochAt(y.k, e.node) = EpochAt(w.k, e.node)
          <5>1. r \in Round(e.node) /\ r \in Subs
            <6>1. Inside[e.node] \in Seq(Subs) /\ Round(e.node) \subseteq Subs
              BY <1>0, <3>1, InsideIs
            <6>. QED BY <4>1, <6>1, SequenceOf, Headed DEF Round
          <5>2. e.node \in NodesIn(r)
            BY <3>1, <5>1 DEF NodesIn
          <5>3. r \notin Under(u)
            <6>1. PICK n \in NodesIn(u) : TRUE
              BY DEF Severs
            <6>2. \A q \in Under(u) : NodesIn(q) \subseteq NodesIn(u)
              BY <1>0, <6>1, Tree DEF Severs
            <6>. QED BY <6>2, <5>2, <3>4
          <5>4. y.k.subs[r].epoch = w.k.subs[r].epoch
            BY <5>1, <5>3 DEF Severs, Severed, Cancels
          <5>. QED BY <4>1, <5>4 DEF EpochAt
        <4>. QED BY <3>4, <4>1 DEF Fresh
      <3>. QED BY <3>3, <3>4
    <2>. QED BY <2>1 DEF Tokens
  <1>5. EntersAt(h, w.k, Due.case, O) = EntersAt(h, y.k, Due.case, N)
    <2> HIDE DEF h, O
    <2>. QED BY <1>3, <1>4, EntersSame
  <1>. QED BY <1>2, <1>3, <1>5 DEF Outside

\* The activities and the entries inside are gone
LEMMA SeveredPlaced ==
    ASSUME Here, NEW w, NEW sz, NEW y, NEW x, NEW u \in Subs, NEW b, Severs(w, sz, y, x, u, b), NEW N
    PROVE  /\ Placed(x.acts, Owners(x.acts), Due.case, N) = Placed(w.acts, Owners(w.acts), Due.case, Outside(N, u))
           /\ Placed(x.entries, DOMAIN x.entries, Due.case, N) = Placed(w.entries, DOMAIN w.entries, Due.case, Outside(N, u))
  <1> DEFINE O == N \ NodesIn(u)
             A == w.acts
             B == x.acts
             E == w.entries
             F == x.entries
             es == EntriesIn(w, u)
  <1>0. /\ Good(w, {}) /\ Tied(w, {}) /\ Cut(y, x, ActsIn(w, u), {}, es)
        /\ y.acts = A /\ y.entries = E
    BY DEF Severs, Proper, Severed
  <1>1. /\ DOMAIN B = DOMAIN A \ ActsIn(w, u) /\ Alike(A, B, DOMAIN B)
        /\ DOMAIN F = DOMAIN E \ es /\ \A e \in DOMAIN F : F[e] = E[e]
    BY <1>0 DEF Cut, Fewer
  <1>2. /\ \A i \in DOMAIN A : A[i].node \in Nodes
        /\ \A i \in DOMAIN A : A[i].entry # 0 => /\ A[i].entry \in DOMAIN E
                                                 /\ E[A[i].entry].node = A[i].node /\ E[A[i].entry].case = A[i].case
        /\ \A e \in DOMAIN E : E[e].node \in Nodes /\ e # 0
    <2>1. Acts(A, w.nextAct, Len(cases)) /\ Entered(A, E, w.nextId, {})
      BY <1>0 DEF Good
    <2> HIDE DEF A, E
    <2>2. \A i \in DOMAIN A : A[i].node \in Nodes
      BY <2>1 DEF Acts, IsAct
    <2>. QED BY <2>1, <2>2 DEF Entered
  <1>3. \A i \in DOMAIN A : i \in ActsIn(w, u) <=> A[i].case = Due.case /\ A[i].node \in NodesIn(u)
    BY <1>2 DEF ActsIn, NodesIn
  <1>4. \A i : (i \in Owners(A) /\ A[i].case = Due.case /\ A[i].node \in O)
               <=> (i \in Owners(B) /\ B[i].case = Due.case /\ B[i].node \in N)
    BY <1>1, <1>3 DEF Owners, Alike
  <1>5. \A e \in DOMAIN E : E[e].case = Due.case => (e \in es <=> E[e].node \in NodesIn(u))
    <2>1. ASSUME NEW e \in DOMAIN E, E[e].case = Due.case PROVE e \in es <=> E[e].node \in NodesIn(u)
      <3>1. PICK i \in DOMAIN A : A[i].entry = e
        BY <1>0, <2>1 DEF Tied, Ties, Populated, Peopled
      <3>2. E[e].node = A[i].node /\ A[i].case = Due.case
        BY <3>1, <1>2, <2>1
      <3>3. E[e].node \in NodesIn(u) => e \in es
        BY <3>1, <3>2, <1>3 DEF EntriesIn
      <3>4. ASSUME e \in es PROVE E[e].node \in NodesIn(u)
        <4>1. PICK j \in ActsIn(w, u) : A[j].entry = e
          BY <3>4 DEF EntriesIn
        <4>2. j \in DOMAIN A
          BY DEF ActsIn
        <4>. QED BY <4>1, <4>2, <1>2, <1>3
      <3>. QED BY <3>3, <3>4
    <2>. QED BY <2>1
  <1>6. \A e : (e \in DOMAIN E /\ E[e].case = Due.case /\ E[e].node \in O)
               <=> (e \in DOMAIN F /\ F[e].case = Due.case /\ F[e].node \in N)
    BY <1>1, <1>5
  <1>7. Placed(A, Owners(A), Due.case, O) = Placed(B, Owners(B), Due.case, N)
    <2> HIDE DEF A, B, O
    <2>. QED BY <1>4, PlacedSame
  <1>8. Placed(E, DOMAIN E, Due.case, O) = Placed(F, DOMAIN F, Due.case, N)
    <2> HIDE DEF E, F, O
    <2>. QED BY <1>6, PlacedSame
  <1>. QED BY <1>7, <1>8 DEF Outside

\* So are those that wait at joins inside, and those that are stuck there
LEMMA SeveredKept ==
    ASSUME NEW f, Heaped(f), NEW D, NEW g, g = Without(f, D), NEW N, NEW O,
           \A n \in DOMAIN f : n \in O <=> n \in N /\ n \notin D
    PROVE  Heaped(g) /\ AtKeys(g, N) = AtKeys(f, O)
  <1> DEFINE L == N \ D
  <1>1. \A x : x \in L <=> x \in N /\ x \notin D
    OBVIOUS
  <1>2. L \cap DOMAIN f = O \cap DOMAIN f
    OBVIOUS
  <1> HIDE DEF L
  <1>3. Heaped(g)
    BY <1>1, KeptCut
  <1>4. N \cap DOMAIN g = O \cap DOMAIN f /\ \A n \in N \cap DOMAIN g : g[n] = f[n]
    BY <1>1, <1>2 DEF Without
  <1>5. AtKeys(g, N) = AtKeys(f, O)
    BY <1>4, KeptSame
  <1>. QED BY <1>3, <1>5

\* Nothing of the case is left inside, and everything else is
LEMMA SeveredWorth ==
    ASSUME Here, NEW w, NEW sz, NEW y, NEW x, NEW u \in Subs, NEW b, Severs(w, sz, y, x, u, b),
           NEW X, Heaped(X), NEW Y, Y = Without(X, NodesIn(u))
    PROVE  Heaped(Y) /\ \A N : Worth(x, Y, N) = Worth(w, X, Outside(N, u))
  <1>0. /\ CaseIs(w.k, sz) /\ Severed(w, y, u, b) /\ x.k = y.k /\ Cancels(w.k, y.k, u, b)
    BY DEF Severs, Proper, Noted, Severed, Cut
  <1>1. ASSUME NEW N
        PROVE  /\ AtKeys(x.k.ands, N) = AtKeys(w.k.ands, Outside(N, u))
               /\ AtKeys(x.k.ors, N \X Nat) = AtKeys(w.k.ors, Outside(N, u) \X Nat)
               /\ Heaped(Y) /\ AtKeys(Y, N) = AtKeys(X, Outside(N, u))
    <2> DEFINE O == Outside(N, u)
               S == N \X Nat
               T == O \X Nat
               f == w.k.ands
               g == w.k.ors
               D == {n \in DOMAIN w.k.ands : u \in Round(n)}
               K == {key \in DOMAIN w.k.ors : u \in Round(key[1])}
    <2>1. /\ Heaped(f) /\ Heaped(g) /\ DOMAIN f \subseteq Nodes /\ DOMAIN g \subseteq Nodes \X (1 .. Len(sz))
          /\ x.k.ands = Without(f, D) /\ x.k.ors = Without(g, K)
      BY <1>0 DEF CaseIs, Cancels
    <2>2. \A n \in DOMAIN f : n \in O <=> n \in N /\ n \notin D
      BY <2>1 DEF NodesIn, Outside
    <2>3. \A n \in DOMAIN g : n \in T <=> n \in S /\ n \notin K
      <3>0. \A n : n \in O <=> n \in N /\ n \notin NodesIn(u)
        BY DEF Outside
      <3>1. ASSUME NEW key \in DOMAIN g PROVE key \in T <=> key \in S /\ key \notin K
        <4>1. key \in Nodes \X (1 .. Len(sz)) /\ key[1] \in Nodes /\ key = <<key[1], key[2]>>
          BY <2>1
        <4>2. key \in T <=> key[1] \in N /\ key[1] \notin NodesIn(u) /\ key[2] \in Nat
          BY <4>1, <3>0
        <4>3. key \in S <=> key[1] \in N /\ key[2] \in Nat
          BY <4>1
        <4>4. key \in K <=> key[1] \in NodesIn(u)
          BY <4>1 DEF NodesIn
        <4> HIDE DEF T, S, K
        <4>. QED BY <4>2, <4>3, <4>4
      <3>. QED BY <3>1
    <2>4. \A n \in DOMAIN X : n \in O <=> n \in N /\ n \notin NodesIn(u)
      BY DEF Outside
    <2> HIDE DEF O, S, T, f, g, D, K
    <2>5. AtKeys(x.k.ands, N) = AtKeys(f, O)
      BY <2>1, <2>2, SeveredKept
    <2>6. AtKeys(x.k.ors, S) = AtKeys(g, T)
      BY <2>1, <2>3, SeveredKept
    <2>7. Heaped(Y) /\ AtKeys(Y, N) = AtKeys(X, O)
      BY <2>4, SeveredKept
    <2>. QED BY <2>5, <2>6, <2>7 DEF O, S, T, f, g
  <1>2. ASSUME NEW N PROVE Worth(x, Y, N) = Worth(w, X, Outside(N, u))
    <2>1. EntersAt(All(x), x.k, Due.case, N) = EntersAt(All(w), w.k, Due.case, Outside(N, u))
      BY ONLY Here, u \in Subs, Severs(w, sz, y, x, u, b), SeveredEnters
    <2>2. /\ Placed(x.acts, Owners(x.acts), Due.case, N) = Placed(w.acts, Owners(w.acts), Due.case, Outside(N, u))
          /\ Placed(x.entries, DOMAIN x.entries, Due.case, N) = Placed(w.entries, DOMAIN w.entries, Due.case, Outside(N, u))
      BY ONLY Here, u \in Subs, Severs(w, sz, y, x, u, b), SeveredPlaced
    <2>. QED BY <1>1, <2>1, <2>2 DEF Worth, Total
  <1>3. Heaped(Y)
    BY <1>1
  <1>. QED BY <1>2, <1>3

\* Tokens are in u or they are not
LEMMA WorthOutside ==
    ASSUME Here, NEW w, NEW X, Stocked(w, X), NEW u, NEW N, NodesIn(u) \subseteq N
    PROVE  /\ Worth(w, X, N) = Worth(w, X, NodesIn(u)) + Worth(w, X, Outside(N, u))
           /\ Worth(w, X, NodesIn(u)) \in Nat /\ Worth(w, X, Outside(N, u)) \in Nat
  <1> DEFINE I == NodesIn(u)
             J == Outside(N, u)
  <1>1. (\A x : x \in N <=> x \in I \/ x \in J) /\ \A x \in I : x \notin J
    BY DEF Outside
  <1> HIDE DEF I, J
  <1>2. Stock(All(w), w.k, w.acts, w.entries, X)
    BY DEF Stocked
  <1>3. Total(All(w), w.k, w.acts, w.entries, Due.case, X, N)
          = Total(All(w), w.k, w.acts, w.entries, Due.case, X, I) + Total(All(w), w.k, w.acts, w.entries, Due.case, X, J)
    BY <1>1, <1>2, TotalParts
  <1>4. \A M : Total(All(w), w.k, w.acts, w.entries, Due.case, X, M) \in Nat
    BY <1>2, TotalIs
  <1>. QED BY <1>3, <1>4 DEF Worth, I, J

\* The tokens of a case, and of its sub-processes, m of which are at hand in u and around it
InHand(w, X, u, b, m, d) ==
    /\ Opens(w.k) /\ Weighed(w, X, m, d) /\ m \in Nat /\ d[u] = m /\ w.k.subs[u].tokens > 0
    /\ \A v \in Round(b) : d[v] = m
    /\ \A v \in Subs : v \notin Under(u) /\ v \notin Round(b) => d[v] = 0

\* What is left is what is outside, and the token that goes on from b
LEMMA InterruptedHeld ==
    ASSUME Here, NEW w, NEW sz, NEW y, NEW x, NEW u \in Subs, NEW b, Severs(w, sz, y, x, u, b),
           NEW X, NEW m, NEW d, InHand(w, X, u, b, m, d)
    PROVE  Held(x, b, 1)
  <1> DEFINE Y == Without(X, NodesIn(u))
             k == w.k
             l == x.k
             c == Due.case
             j == k.subs[u].tokens
  <1>0. /\ model \in Models /\ Good(w, {}) /\ Good(x, {}) /\ CaseIs(k, sz) /\ CaseIs(l, sz) /\ Cancels(k, l, u, b)
        /\ x.blocked = {g \in w.blocked : g[2] # Due.case \/ u \notin Round(g[1])}
    BY DEF Severs, Proper, Noted, Severed, Cut, Here
  <1>1. /\ Stocked(w, X) /\ Lost(X, w.blocked, c) /\ k.tokens = Worth(w, X, Nodes) + m
        /\ \A v \in Subs : k.subs[v].tokens = Worth(w, X, NodesIn(v)) + d[v]
    BY DEF InHand, Weighed, Balance, Stocked, Worth
  <1>2. Heaped(X)
    BY <1>1 DEF Stocked, Stock
  <1>3. Heaped(Y) /\ \A N : Worth(x, Y, N) = Worth(w, X, Outside(N, u))
    BY <1>2, SeveredWorth
  <1>4. DOMAIN Y = DOMAIN X \ NodesIn(u)
    BY DEF Without
  <1> HIDE DEF Y
  <1>5. Stocked(x, Y)
    BY <1>0, <1>3, Stocks
  <1>6. Lost(Y, x.blocked, c)
    <2>1. ASSUME NEW n \in DOMAIN Y PROVE n \in Nodes /\ (<<n, c>> \in x.blocked \/ n \in DeadEnds)
      <3>1. n \in Nodes /\ (<<n, c>> \in w.blocked \/ n \in DeadEnds) /\ u \notin Round(n)
        BY <1>1, <1>4 DEF Lost, NodesIn
      <3>. QED BY <3>1, <1>0
    <2>2. ASSUME NEW n \in Nodes, <<n, c>> \in x.blocked PROVE n \in DOMAIN Y
      <3>1. <<n, c>> \in w.blocked /\ u \notin Round(n)
        BY <2>2, <1>0
      <3>. QED BY <3>1, <1>1, <1>4 DEF Lost, NodesIn
    <2>. QED BY <2>1, <2>2 DEF Lost
  <1>7. PICK n \in NodesIn(u) : TRUE
    BY DEF Severs
  <1>8. /\ \A r \in Under(u) : NodesIn(r) \subseteq NodesIn(u) /\ r \notin Round(b)
        /\ \A r \in Round(b) : r \in Subs /\ NodesIn(u) \subseteq NodesIn(r)
        /\ \A r \in Subs : r \notin Under(u) /\ r \notin Round(b) => NodesIn(r) \cap NodesIn(u) = {}
        /\ Under(u) \subseteq Subs
    BY <1>0, <1>7, Tree DEF Severs
  <1>9. /\ m \in Nat /\ d[u] = m /\ j > 0 /\ j = Worth(w, X, NodesIn(u)) + m
        /\ \A v \in Round(b) : d[v] = m
        /\ \A v \in Subs : v \notin Under(u) /\ v \notin Round(b) => d[v] = 0
        /\ Opens(k)
    BY <1>1 DEF InHand
  <1>10. l.tokens = Worth(x, Y, Nodes) + 1
    <2>1. NodesIn(u) \subseteq Nodes
      BY DEF NodesIn
    <2>2. l.tokens = k.tokens + 1 - j
      BY <1>0 DEF Cancels
    <2> DEFINE p == Worth(w, X, NodesIn(u))
               q == Worth(w, X, Outside(Nodes, u))
    <2>3. Worth(w, X, Nodes) = p + q /\ p \in Nat /\ q \in Nat
      BY <1>1, <2>1, WorthOutside
    <2>4. Worth(x, Y, Nodes) = q /\ j = p + m
      BY <1>3, <1>9
    <2>5. k.tokens = Worth(w, X, Nodes) + m
      BY <1>1
    <2> HIDE DEF p, q, j, k, l
    <2>. QED BY <2>2, <2>3, <2>4, <2>5, <1>9
  <1>11. ASSUME NEW v \in Subs
         PROVE  l.subs[v].tokens = Worth(x, Y, NodesIn(v)) + Hold(b, 1)[v] /\ OpensAt(l.subs[v], v)
    <2>1. Hold(b, 1)[v] = IF v \in Round(b) THEN 1 ELSE 0
      BY DEF Hold
    <2>2. Worth(x, Y, NodesIn(v)) = Worth(w, X, Outside(NodesIn(v), u))
      BY <1>3
    <2>3. k.subs[v].tokens = Worth(w, X, NodesIn(v)) + d[v] /\ OpensAt(k.subs[v], v)
      BY <1>1, <1>9 DEF Opens
    <2>4. \A N : Worth(w, X, N) \in Nat
      BY <1>1, TotalIs DEF Stocked, Worth
    <2>5. CASE v \in Under(u)
      <3>1. Outside(NodesIn(v), u) = {}
        BY <2>5, <1>8 DEF Outside
      <3>2. Worth(w, X, Outside(NodesIn(v), u)) = 0
        BY <3>1, <1>1, TotalNodes DEF Stocked, Worth
      <3>3. l.subs[v].tokens = 0 /\ l.subs[v].instance = 0
        BY <2>5, <1>0 DEF Cancels
      <3>. QED BY <2>1, <2>2, <2>5, <3>2, <3>3, <1>8 DEF OpensAt
    <2>6. CASE v \in Round(b)
      <3>1. v \notin Under(u) /\ NodesIn(u) \subseteq NodesIn(v)
        BY <2>6, <1>8
      <3>2. l.subs[v].instance = k.subs[v].instance /\ l.subs[v].tokens = k.subs[v].tokens + (1 - j)
        BY <2>6, <3>1, <1>0 DEF Cancels
      <3> DEFINE p == Worth(w, X, NodesIn(u))
                 q == Worth(w, X, Outside(NodesIn(v), u))
                 a == l.subs[v]
                 e == k.subs[v]
      <3>3. Worth(w, X, NodesIn(v)) = p + q /\ p \in Nat /\ q \in Nat
        BY <1>1, <3>1, WorthOutside
      <3>4. j = p + m /\ d[v] = m
        BY <1>9, <2>6
      <3> HIDE DEF p, q, j, k, l, a, e
      <3>5. e.tokens = p + q + m /\ a.tokens = e.tokens + (1 - j) /\ a.instance = e.instance /\ OpensAt(e, v)
        BY <2>3, <3>2, <3>3, <3>4 DEF a, e
      <3>6. a.tokens = q + 1 /\ e.tokens > 0
        BY <3>3, <3>4, <3>5, <1>9
      <3>7. OpensAt(a, v)
        BY <3>3, <3>5, <3>6 DEF OpensAt
      <3>. QED BY <2>1, <2>2, <2>6, <3>6, <3>7 DEF a, q
    <2>7. CASE v \notin Under(u) /\ v \notin Round(b)
      <3>1. Outside(NodesIn(v), u) = NodesIn(v)
        BY <2>7, <1>8 DEF Outside
      <3> DEFINE a == l.subs[v]
                 e == k.subs[v]
      <3>2. a.instance = e.instance /\ a.tokens = e.tokens + 0 /\ d[v] = 0
        BY <2>7, <1>0, <1>9 DEF Cancels
      <3>3. e.tokens \in Int
        BY <1>0 DEF CaseIs, IsSub
      <3> HIDE DEF a, e
      <3>4. OpensAt(e, v) /\ e.tokens = Worth(w, X, NodesIn(v)) + d[v]
        BY <2>3 DEF e
      <3>5. Worth(x, Y, NodesIn(v)) = Worth(w, X, NodesIn(v))
        BY <2>2, <3>1
      <3>. QED BY <2>1, <2>4, <2>7, <3>2, <3>3, <3>4, <3>5 DEF OpensAt, a
    <2>. QED BY <2>5, <2>6, <2>7
  <1>12. Opens(l)
    BY <1>11 DEF Opens
  <1>13. Weighed(x, Y, 1, Hold(b, 1))
    BY <1>5, <1>6, <1>10, <1>11 DEF Weighed, Balance, Stocked, Worth
  <1>. QED BY <1>12, <1>13 DEF Held

\* An interrupted sub-process, from what is known of what it was interrupted in
LEMMA InterruptedAll ==
    ASSUME Here, NEW w, NEW sz, Proper(w, sz, {}), NEW u \in Subs, NodesIn(u) # {},
           NEW b \in Range(Borders[u]) \cup Errors(u), NEW X, NEW m, NEW d, InHand(w, X, u, b, m, d),
           NEW x \in InterruptSubprocess(w, u, b)
    PROVE  /\ Proper(x, sz, {}) /\ Held(x, b, 1) /\ b \in Nodes
           /\ \A v \in Subs : w.k.subs[v].epoch <= x.k.subs[v].epoch
           /\ \A v \in Under(u) : w.k.subs[v].epoch < x.k.subs[v].epoch
  <1>1. CaseIs(w.k, sz) /\ Good(w, {}) /\ model \in Models
    BY DEF Proper, Noted, Here
  <1>2. PICK y : Severed(w, y, u, b) /\ Good(y, {}) /\ Cut(y, x, ActsIn(w, u), {}, EntriesIn(w, u))
    BY <1>1, InterruptedCut
  <1>3. Proper(x, sz, {}) /\ x.k = y.k /\ Proper(y, sz, {})
    BY <1>2, InterruptedProper
  <1>4. Severs(w, sz, y, x, u, b)
    BY <1>2, <1>3 DEF Severs
  <1>5. Held(x, b, 1)
    BY ONLY Here, u \in Subs, <1>4, InHand(w, X, u, b, m, d), InterruptedHeld
  <1>6. PICK n \in NodesIn(u) : TRUE
    OBVIOUS
  <1>7. b \in Nodes
    BY <1>1, <1>6, Tree
  <1>8. Cancels(w.k, x.k, u, b)
    BY <1>2, <1>3 DEF Severed
  <1>9. \A v \in Subs : w.k.subs[v].epoch <= x.k.subs[v].epoch
    BY <1>1, <1>8, CancelledCase
  <1>10. ASSUME NEW v \in Under(u) PROVE w.k.subs[v].epoch < x.k.subs[v].epoch
    <2>1. v \in Subs /\ w.k.subs[v].epoch \in Nat
      BY <1>1 DEF Under, CaseIs, IsSub
    <2>2. x.k.subs[v].epoch = w.k.subs[v].epoch + 1
      BY <1>8 DEF Cancels
    <2>. QED BY <2>1, <2>2
  <1>. QED BY <1>3, <1>5, <1>7, <1>9, <1>10

-----------------------------------------------------------------------------
(* A token crosses sub-processes *)

\* One sub-process of w has a tokens more in x, and its deadlines are ahead
Recast(w, sz, x, u, a, ev) ==
    /\ Proper(w, sz, {}) /\ Good(x, {}) /\ Opens(w.k)
    /\ Grows(w, x, ev) /\ DOMAIN x.k = CaseFields
    /\ x.k.tokens = w.k.tokens /\ x.k.ands = w.k.ands /\ x.k.ors = w.k.ors
    /\ x.k.alive = w.k.alive /\ x.k.endId = w.k.endId
    /\ DOMAIN x.k.subs = Subs /\ \A v \in Subs \ {u} : x.k.subs[v] = w.k.subs[v]
    /\ x.k.subs[u].tokens = w.k.subs[u].tokens + a /\ x.k.subs[u].epoch = w.k.subs[u].epoch
    /\ OpensAt(x.k.subs[u], u) /\ IsSub(x.k.subs[u], Len(sz))
    /\ \A e \in Range(ev) : /\ e.kind = "deadline" /\ e.act \in 1 .. x.nextId - 1
                            /\ \E v \in Subs : e.node \in Range(Borders[v])
                            /\ \A i \in DOMAIN w.acts : ~Watched(e, i, w.acts[i])

\* What is known of the whole is known of it
LEMMA RecastProper ==
    ASSUME Here, NEW w, NEW sz, NEW x, NEW u \in Subs, NEW a, NEW ev, Recast(w, sz, x, u, a, ev)
    PROVE  Proper(x, sz, {}) /\ Opens(x.k) /\ SameEpochs(w.k, x.k)
  <1>1. /\ Good(w, {}) /\ Tied(w, {}) /\ Noted(w, sz) /\ CaseIs(w.k, sz) /\ Going(w.k) /\ Good(x, {})
    BY DEF Recast, Proper, Noted
  <1>2. SameEpochs(w.k, x.k)
    BY DEF Recast, SameEpochs
  <1>3. Opens(x.k)
    BY DEF Recast, Opens
  <1>4. CaseIs(x.k, sz)
    <2>1. \A v \in Subs : IsSub(x.k.subs[v], Len(sz))
      BY <1>1 DEF Recast, CaseIs
    <2>. QED BY <1>1, <2>1 DEF Recast, CaseIs
  <1>5. Going(x.k)
    BY <1>1 DEF Going, Recast
  <1>6. Tied(x, {})
    <2>1. Grows(w, x, ev)
      BY DEF Recast
    <2>2. \A e \in Range(ev) : /\ e.kind = "deadline" /\ e.act \in 1 .. x.nextId - 1
                               /\ \E v \in Subs : e.node \in Range(Borders[v])
                               /\ \A i \in DOMAIN w.acts : ~Watched(e, i, w.acts[i])
      BY DEF Recast
    <2>. QED BY <1>1, <2>1, <2>2, GrownTied
  <1>7. Noted(x, sz)
    <2>1. Grows(w, x, ev) /\ \A e \in Range(ev) : e.kind # "enter"
      BY DEF Recast
    <2>2. \A v \in Subs : w.k.subs[v].epoch <= x.k.subs[v].epoch
      BY <1>1, <1>2 DEF SameEpochs, CaseIs, IsSub
    <2>. QED BY <1>1, <1>4, <1>5, <2>1, <2>2, GrownNoted
  <1>. QED BY <1>1, <1>2, <1>3, <1>6, <1>7 DEF Proper

\* So are its tokens, with a more of them in u
LEMMA RecastWeighed ==
    ASSUME Here, NEW w, NEW sz, NEW x, NEW u \in Subs, NEW a \in Int, NEW ev, Recast(w, sz, x, u, a, ev),
           NEW X, NEW m, NEW d \in [Subs -> Int], Weighed(w, X, m, d),
           NEW e, \A v \in Subs : e[v] = IF v = u THEN d[v] + a ELSE d[v]
    PROVE  Weighed(x, X, m, e)
  <1>1. /\ Good(w, {}) /\ CaseIs(w.k, sz) /\ Good(x, {}) /\ Proper(x, sz, {}) /\ SameEpochs(w.k, x.k)
    <2>1. Good(w, {}) /\ CaseIs(w.k, sz) /\ Good(x, {})
      BY DEF Recast, Proper, Noted
    <2>2. Proper(x, sz, {}) /\ SameEpochs(w.k, x.k)
      BY ONLY Here, u \in Subs, Recast(w, sz, x, u, a, ev), RecastProper
    <2>. QED BY <2>1, <2>2
  <1>2. CaseIs(x.k, sz)
    BY <1>1 DEF Proper, Noted
  <1>3. Stocked(w, X) /\ Lost(X, w.blocked, Due.case) /\ w.k.tokens = Worth(w, X, Nodes) + m
        /\ \A v \in Subs : w.k.subs[v].tokens = Worth(w, X, NodesIn(v)) + d[v]
    BY DEF Weighed, Balance, Stocked, Worth
  <1>4. Heaped(X)
    BY <1>3 DEF Stocked, Stock
  <1>5. Stocked(x, X)
    BY <1>1, <1>2, <1>4, Stocks
  <1>6. \A N : Worth(x, X, N) = Worth(w, X, N) /\ Worth(w, X, N) \in Nat
    <2>1. Sequence(ev) /\ x.events = w.events \o ev /\ (\A f \in Range(ev) : f.kind # "enter")
          /\ x.acts = w.acts /\ x.entries = w.entries /\ x.k.ands = w.k.ands /\ x.k.ors = w.k.ors
      BY DEF Recast, Grows
    <2>2. \A N : EntersAt(All(x), x.k, Due.case, N) = EntersAt(All(w), w.k, Due.case, N)
      BY <1>1, <2>1, AheadQuiet
    <2>3. \A N : Worth(w, X, N) \in Nat
      BY <1>3, TotalIs DEF Stocked, Worth
    <2>. QED BY <2>1, <2>2, <2>3 DEF Worth, Total
  <1>7. x.k.tokens = w.k.tokens /\ x.blocked = w.blocked
    BY DEF Recast, Grows
  <1>8. ASSUME NEW v \in Subs PROVE x.k.subs[v].tokens = Worth(x, X, NodesIn(v)) + e[v]
    <2>1. x.k.subs[v].tokens = IF v = u THEN w.k.subs[v].tokens + a ELSE w.k.subs[v].tokens
      BY DEF Recast
    <2>. QED BY <2>1, <1>3, <1>6
  <1>9. x.k.tokens = Worth(x, X, Nodes) + m
    BY <1>3, <1>6, <1>7
  <1>. QED BY <1>3, <1>5, <1>7, <1>8, <1>9 DEF Weighed, Balance, Stocked, Worth

\* A token on its way is still counted in the sub-process r
In(s, r) == IF s.to = NoNode \/ r \in Range(s.path) THEN r \in Round(s.from) ELSE r \in Round(s.to)

\* What is known of it
OnItsWay(s, sz) ==
    /\ Token(s) /\ Proper(s.w, sz, {}) /\ IsMarks(s.marks, Len(sz))
    /\ s.to = NoNode => s.path = <<>> /\ s.from \in DeadEnds
    /\ s.to # NoNode => Way(s.path, s.from, s.to)

\* It is counted, and l more are counted at the node it comes from
Tally(s, l) == [u \in Subs |-> (IF u \in Round(s.from) THEN l ELSE 0) + (IF In(s, u) THEN 1 ELSE 0)]
Tallied(s, l) == Opens(s.w.k) /\ \E X : Weighed(s.w, X, l + 1, Tally(s, l))

\* It has crossed one sub-process more
Further(s, z, sz, l) ==
    /\ OnItsWay(z, sz) /\ Tallied(z, l) /\ SameEpochs(s.w.k, z.w.k)
    /\ z.from = s.from /\ z.to = s.to /\ z.path = Tail(s.path)

\* One token of it more or less in the sub-process it crosses
CrossesOne(s, sz, l, u, x, ev) ==
    /\ OnItsWay(s, sz) /\ l \in Nat /\ Tallied(s, l) /\ s.path # <<>> /\ u = Head(s.path)
    /\ Recast(s.w, sz, x, u, IF u \in Round(s.from) THEN -1 ELSE 1, ev)

\* The token is still counted as it was, and l at the node it comes from
LEMMA CrossedOne ==
    ASSUME Here, NEW s, NEW sz, NEW l, NEW u, NEW x, NEW ev, CrossesOne(s, sz, l, u, x, ev),
           NEW z, z = [s EXCEPT !.w = x, !.path = Tail(@)]
    PROVE  Further(s, z, sz, l)
  <1> DEFINE a == IF u \in Round(s.from) THEN -1 ELSE 1
             d == Tally(s, l)
             e == Tally(z, l)
             m == l + 1
  <1>1. /\ OnItsWay(s, sz) /\ l \in Nat /\ Tallied(s, l) /\ s.path # <<>> /\ u = Head(s.path)
        /\ Recast(s.w, sz, x, u, a, ev)
    BY DEF CrossesOne
  <1>2. /\ Token(s) /\ s.to # NoNode /\ Way(s.path, s.from, s.to)
    BY <1>1 DEF OnItsWay
  <1>3. /\ DOMAIN s = TokenFields /\ z.w = x /\ z.from = s.from /\ z.to = s.to /\ z.path = Tail(s.path)
        /\ z.marks = s.marks /\ z.times = s.times /\ DOMAIN z = TokenFields
    BY <1>2 DEF Token, TokenFields
  <1>4. /\ u \in Subs /\ u \in Range(s.path) /\ u \notin Range(Tail(s.path))
        /\ Range(s.path) = {u} \cup Range(Tail(s.path)) /\ Way(Tail(s.path), s.from, s.to)
    BY <1>1, <1>2, WayOn
  <1>5. Proper(x, sz, {}) /\ Opens(x.k) /\ SameEpochs(s.w.k, x.k)
    BY <1>1, <1>4, RecastProper
  <1>6. Token(z)
    <2>1. Good(x, {}) /\ Tail(s.path) \in Seq(Subs)
      BY <1>4, <1>5 DEF Proper, Way
    <2>. QED BY <1>2, <1>3, <2>1 DEF Token
  <1>7. OnItsWay(z, sz)
    BY <1>1, <1>2, <1>3, <1>4, <1>5, <1>6 DEF OnItsWay
  <1>8. PICK X : Weighed(s.w, X, m, d)
    BY <1>1 DEF Tallied
  <1>9. u \in Round(s.from) <=> u \notin Round(s.to)
    BY <1>2, <1>4 DEF Way
  <1>10. /\ d \in [Subs -> Int]
         /\ \A v \in Subs : e[v] = IF v = u THEN d[v] + a ELSE d[v]
    <2>1. d \in [Subs -> Int]
      BY <1>1 DEF Tally
    <2>2. ASSUME NEW v \in Subs, v # u PROVE e[v] = d[v]
      <3>1. In(z, v) <=> In(s, v)
        BY <1>3, <1>4, <2>2 DEF In
      <3>. QED BY <1>3, <3>1 DEF Tally
    <2>3. e[u] = d[u] + a
      <3>1. In(s, u) <=> u \in Round(s.from)
        BY <1>2, <1>4 DEF In
      <3>2. In(z, u) <=> u \in Round(s.to)
        BY <1>2, <1>3, <1>4 DEF In
      <3>3. /\ d[u] = (IF u \in Round(s.from) THEN l ELSE 0) + (IF u \in Round(s.from) THEN 1 ELSE 0)
            /\ e[u] = (IF u \in Round(s.from) THEN l ELSE 0) + (IF u \in Round(s.from) THEN 0 ELSE 1)
        BY <1>3, <1>4, <1>9, <3>1, <3>2 DEF Tally
      <3>. QED BY <3>3, <1>1
    <2>. QED BY <2>1, <2>2, <2>3
  <1>11. a \in Int
    OBVIOUS
  <1> HIDE DEF a, d, e, m
  <1>12. Weighed(x, X, m, e)
    BY ONLY Here, <1>1, <1>4, <1>8, <1>10, <1>11, RecastWeighed
  <1>. QED BY <1>3, <1>5, <1>7, <1>12 DEF Further, Tallied, e, m

\* A token that has a sub-process to cross
Before(s, sz, l, u) ==
    OnItsWay(s, sz) /\ l \in Nat /\ Tallied(s, l) /\ s.path # <<>> /\ u = Head(s.path)

\* It leaves it
LEMMA LeavesOne ==
    ASSUME Here, NEW s, NEW sz, NEW l, NEW u, Before(s, sz, l, u), u \in Round(s.from),
           NEW z, z = [s EXCEPT !.w.k.subs[u] = Moved(@, -1), !.path = Tail(@)]
    PROVE  Further(s, z, sz, l)
  <1> DEFINE w == s.w
             sub == w.k.subs[u]
             lower == Moved(sub, -1)
             subs == [w.k.subs EXCEPT ![u] = lower]
             k == [w.k EXCEPT !.subs = subs]
             x == [w EXCEPT !.k = k]
  <1>1. /\ OnItsWay(s, sz) /\ l \in Nat /\ Tallied(s, l) /\ s.path # <<>> /\ u = Head(s.path)
        /\ Token(s) /\ Proper(w, sz, {}) /\ s.to # NoNode /\ Way(s.path, s.from, s.to) /\ Opens(w.k)
    BY DEF OnItsWay, Before, Tallied
  <1>2. Good(w, {}) /\ CaseIs(w.k, sz) /\ DOMAIN w = WorkFields
    BY <1>1 DEF Proper, Noted, Good
  <1>3. u \in Subs
    BY <1>1, WayOn
  <1>4. IsSub(sub, Len(sz)) /\ OpensAt(sub, u)
    BY <1>1, <1>2, <1>3 DEF CaseIs, Opens
  <1>5. IsSub(lower, Len(sz)) /\ lower.tokens = sub.tokens + (-1) /\ lower.epoch = sub.epoch /\ OpensAt(lower, u)
    <2>1. DOMAIN sub = {"tokens", "instance", "marks", "epoch"} /\ sub.tokens \in Int /\ sub.instance \in Nat
      BY <1>4 DEF IsSub
    <2>2. lower = [sub EXCEPT !.tokens = @ + (-1), !.instance = IF sub.tokens + (-1) <= 0 THEN 0 ELSE @]
      BY DEF Moved
    <2> HIDE DEF sub, lower
    <2>3. /\ DOMAIN lower = DOMAIN sub /\ lower.tokens = sub.tokens + (-1) /\ lower.epoch = sub.epoch
          /\ lower.marks = sub.marks /\ lower.instance = IF sub.tokens + (-1) <= 0 THEN 0 ELSE sub.instance
      BY <2>1, <2>2
    <2>. QED BY <1>4, <2>1, <2>3 DEF IsSub, OpensAt
  <1>6. DOMAIN s = TokenFields
    BY <1>1 DEF Token
  <1>7. z = [s EXCEPT !.w = x, !.path = Tail(@)]
    BY <1>2, <1>6 DEF TokenFields, WorkFields
  <1>8. /\ DOMAIN subs = Subs /\ subs[u] = lower /\ \A v \in Subs \ {u} : subs[v] = w.k.subs[v]
    BY <1>2, <1>3 DEF CaseIs
  <1> HIDE DEF lower, sub, subs
  <1>9. /\ DOMAIN k = CaseFields /\ k.subs = subs /\ k.tokens = w.k.tokens /\ k.ands = w.k.ands /\ k.ors = w.k.ors
        /\ k.alive = w.k.alive /\ k.endId = w.k.endId /\ k.instant = w.k.instant
    BY <1>2 DEF CaseIs, CaseFields
  <1> HIDE DEF k
  <1>10. /\ DOMAIN x = WorkFields /\ x.k = k /\ x.acts = w.acts /\ x.loops = w.loops /\ x.entries = w.entries
         /\ x.nextAct = w.nextAct /\ x.nextId = w.nextId /\ x.events = w.events /\ x.pending = w.pending /\ x.blocked = w.blocked
    BY <1>2 DEF WorkFields
  <1> HIDE DEF x, w
  <1>11. Good(x, {})
    <2>1. Retold(w, x)
      BY <1>9, <1>10 DEF Retold, CaseFields
    <2>. QED BY <1>2, <2>1, Retelling
  <1>12. Grows(w, x, <<>>) /\ Range(<<>>) = {}
    <2>1. Sequence(<<>>) /\ Range(<<>>) = {} /\ w.events \o <<>> = w.events
      BY <1>2, Empty, WithNothing DEF Good
    <2>. QED BY <2>1, <1>10 DEF Grows
  <1>13. Recast(w, sz, x, u, -1, <<>>)
    BY <1>1, <1>5, <1>8, <1>9, <1>10, <1>11, <1>12 DEF Recast, sub
  <1>14. CrossesOne(s, sz, l, u, x, <<>>)
    BY <1>1, <1>13 DEF CrossesOne, w
  <1>. QED BY <1>7, <1>14, CrossedOne

\* The deadlines of a sub-process
LEMMA DeadlinesOf ==
    ASSUME Here, NEW u \in Subs, NEW i, NEW delay \in Delays(u)
    PROVE  LET ev == Armed("deadline", u, i, delay)
           IN /\ Sequence(ev)
              /\ \A e \in Range(ev) : /\ e.kind = "deadline" /\ e.act = i /\ e.node \in Range(Borders[u])
                                      /\ e.case = Due.case
  <1> DEFINE ev == Armed("deadline", u, i, delay)
  <1>1. IsMore(ev, 0)
    BY Arming
  <1>2. Sequence(ev)
    BY <1>1 DEF IsMore
  <1>3. \A j \in DOMAIN ev : ev[j].kind = "deadline" /\ ev[j].act = i /\ ev[j].case = Due.case /\ ev[j].node = Borders[u][j] /\ j \in DOMAIN Borders[u]
    BY DEF Armed, Event
  <1>4. ASSUME NEW e \in Range(ev) PROVE e.kind = "deadline" /\ e.act = i /\ e.node \in Range(Borders[u]) /\ e.case = Due.case
    <2>1. PICK j \in DOMAIN ev : ev[j] = e
      BY DEF Range
    <2>. QED BY <2>1, <1>3 DEF Range
  <1>. QED BY <1>2, <1>4

\* A boundary has one host
LEMMA OneHost ==
    ASSUME model \in Models, NEW u \in Subs, NEW b \in Range(Borders[u])
    PROVE  HostOf(b) = u
  <1>1. \A v \in Subs : b \in Range(Borders[v]) => v = u
    BY ScopesAssumption DEF Subs, Borders
  <1>2. \E v \in Subs : b \in Range(Borders[v])
    OBVIOUS
  <1>. QED BY <1>1, <1>2 DEF HostOf

\* A sub-process that is not begun has no activities of the case
LEMMA Vacant ==
    ASSUME Here, NEW s, NEW sz, NEW l, NEW u, Before(s, sz, l, u), u \notin Round(s.from),
           s.w.k.subs[u].instance = 0, u \notin Births
    PROVE  \A i \in DOMAIN s.w.acts : s.w.acts[i].case = Due.case => u \notin Round(s.w.acts[i].node)
  <1> DEFINE w == s.w
             sub == w.k.subs[u]
             N == NodesIn(u)
             m == l + 1
             d == Tally(s, l)
  <1>1. /\ OnItsWay(s, sz) /\ l \in Nat /\ Tallied(s, l) /\ s.path # <<>> /\ u = Head(s.path)
        /\ Proper(w, sz, {}) /\ s.to # NoNode /\ Way(s.path, s.from, s.to) /\ Opens(w.k)
    BY DEF OnItsWay, Before, Tallied
  <1>2. Good(w, {}) /\ CaseIs(w.k, sz)
    BY <1>1 DEF Proper, Noted
  <1>3. u \in Subs /\ u \in Range(s.path)
    BY <1>1, WayOn
  <1>4. ~(sub.tokens > 0) /\ sub.tokens \in Int
    BY <1>1, <1>2, <1>3 DEF CaseIs, Opens, IsSub, OpensAt
  <1>5. PICK X : Weighed(w, X, m, d)
    BY <1>1 DEF Tallied
  <1>6. sub.tokens = Worth(w, X, N) + d[u] /\ Stocked(w, X)
    BY <1>5, <1>3 DEF Weighed, Balance, Worth, Stocked
  <1>7. d[u] = 0
    BY <1>1, <1>3 DEF Tally, In
  <1> HIDE DEF d, N, sub, w, m
  <1>8. Worth(w, X, N) = 0
    <2>1. Worth(w, X, N) \in Nat
      BY <1>6, TotalIs DEF Worth, Stocked
    <2>. QED BY <2>1, <1>4, <1>6, <1>7
  <1>9. Placed(w.acts, Owners(w.acts), Due.case, N) = 0 /\ Placed(w.entries, DOMAIN w.entries, Due.case, N) = 0
    <2>1. /\ Placed(w.acts, Owners(w.acts), Due.case, N) \in Nat /\ Placed(w.entries, DOMAIN w.entries, Due.case, N) \in Nat
          /\ EntersAt(All(w), w.k, Due.case, N) \in Nat /\ AtKeys(w.k.ands, N) \in Nat
          /\ AtKeys(w.k.ors, N \X Nat) \in Nat /\ AtKeys(X, N) \in Nat
      BY <1>6, TotalIs DEF Stocked
    <2>. QED BY <2>1, <1>8 DEF Worth, Total
  <1>10. IsFiniteSet(Owners(w.acts)) /\ IsFiniteSet(DOMAIN w.entries)
    <2>1. IsFiniteSet(DOMAIN w.acts) /\ IsFiniteSet(DOMAIN w.entries)
      BY <1>6 DEF Stocked, Stock
    <2>. QED BY <2>1, FS_Subset DEF Owners
  <1>11. ASSUME NEW i \in DOMAIN w.acts, w.acts[i].case = Due.case, u \in Round(w.acts[i].node) PROVE FALSE
    <2>1. w.acts[i].node \in N
      <3>1. w.acts[i].node \in Nodes
        BY <1>2 DEF Good, Acts, IsAct
      <3>. QED BY <3>1, <1>11 DEF N, NodesIn
    <2>2. CASE w.acts[i].entry = 0
      <3>1. i \in Owners(w.acts)
        BY <2>2 DEF Owners
      <3>. QED BY <1>9, <1>10, <1>11, <2>1, <3>1, PlacedIs
    <2>3. CASE w.acts[i].entry # 0
      <3> DEFINE e == w.acts[i].entry
      <3>1. e \in DOMAIN w.entries /\ w.entries[e].node = w.acts[i].node /\ w.entries[e].case = w.acts[i].case
        BY <1>2, <2>3 DEF Good, Entered
      <3>. QED BY <1>9, <1>10, <1>11, <2>1, <3>1, PlacedIs
    <2>. QED BY <2>2, <2>3
  <1>. QED BY <1>11 DEF w

\* It enters it, and arms its deadlines if it is the first inside
LEMMA EntersOneMore ==
    ASSUME Here, NEW s, NEW sz, NEW l, NEW u, Before(s, sz, l, u), u \notin Round(s.from),
           NEW x, x \in EnterSubprocess(s.w, u, s.marks), NEW z, z = [s EXCEPT !.w = x, !.path = Tail(@)]
    PROVE  Further(s, z, sz, l)
  <1> DEFINE w == s.w
             sub == w.k.subs[u]
  <1>1. /\ OnItsWay(s, sz) /\ l \in Nat /\ Tallied(s, l) /\ s.path # <<>> /\ u = Head(s.path)
        /\ Token(s) /\ Proper(w, sz, {}) /\ s.to # NoNode /\ Way(s.path, s.from, s.to) /\ Opens(w.k)
        /\ IsMarks(s.marks, Len(sz))
    BY DEF OnItsWay, Before, Tallied
  <1>2. /\ Good(w, {}) /\ CaseIs(w.k, sz) /\ DOMAIN w = WorkFields /\ w.nextId \in Nat \ {0} /\ Sequence(w.events)
    BY <1>1 DEF Proper, Noted, Good, Entered
  <1>3. u \in Subs /\ u \in Range(s.path)
    BY <1>1, WayOn
  <1>4. IsSub(sub, Len(sz)) /\ OpensAt(sub, u)
    BY <1>1, <1>2, <1>3 DEF CaseIs, Opens
  <1>5. sub.tokens >= 0
    <2> DEFINE m == l + 1
               d == Tally(s, l)
    <2>1. PICK X : Weighed(w, X, m, d)
      BY <1>1 DEF Tallied
    <2>2. sub.tokens = Worth(w, X, NodesIn(u)) + d[u] /\ Stocked(w, X)
      BY <2>1, <1>3 DEF Weighed, Balance, Worth, Stocked
    <2>3. Worth(w, X, NodesIn(u)) \in Nat
      BY <2>2, TotalIs DEF Worth, Stocked
    <2>4. d[u] = 0
      BY <1>1, <1>3 DEF Tally, In
    <2> HIDE DEF d
    <2>. QED BY <2>2, <2>3, <2>4
  <1>6. PICK new, ni, ev :
           /\ x = [w EXCEPT !.k = [w.k EXCEPT !.subs = [w.k.subs EXCEPT ![u] = new]], !.nextId = ni, !.events = @ \o ev]
           /\ IsSub(new, Len(sz)) /\ new.tokens = sub.tokens + 1 /\ new.epoch = sub.epoch /\ new.instance # 0
           /\ ni \in {w.nextId, w.nextId + 1} /\ Sequence(ev)
           /\ \A e \in Range(ev) : /\ e.kind = "deadline" /\ e.act \in 1 .. ni - 1
                                   /\ \E v \in Subs : e.node \in Range(Borders[v])
                                   /\ \A i \in DOMAIN w.acts : ~Watched(e, i, w.acts[i])
    <2>1. CASE sub.instance # 0
      <3> DEFINE new == [sub EXCEPT !.tokens = sub.tokens + 1]
      <3>1. x = [w EXCEPT !.k = [w.k EXCEPT !.subs = [w.k.subs EXCEPT ![u] = new]]]
        BY <2>1, <1>2 DEF EnterSubprocess, WorkFields
      <3>2. IsSub(new, Len(sz)) /\ new.tokens = sub.tokens + 1 /\ new.epoch = sub.epoch /\ new.instance # 0
        BY <1>4, <2>1 DEF IsSub
      <3> HIDE DEF new, sub
      <3>3. Sequence(<<>>) /\ Range(<<>>) = {} /\ w.events \o <<>> = w.events
        BY <1>2, Empty, WithNothing
      <3> DEFINE y == [w EXCEPT !.k = [w.k EXCEPT !.subs = [w.k.subs EXCEPT ![u] = new]]]
      <3>4. DOMAIN y = WorkFields /\ y.nextId = w.nextId /\ y.events = w.events /\ y = x
        BY <3>1, <1>2 DEF WorkFields
      <3>5. x = [w EXCEPT !.k = [w.k EXCEPT !.subs = [w.k.subs EXCEPT ![u] = new]], !.nextId = w.nextId, !.events = w.events \o <<>>]
        BY <3>1, <3>3, <1>2 DEF WorkFields
      <3>. QED BY <3>2, <3>3, <3>5
    <2>2. CASE sub.instance = 0
      <3>1. PICK delay \in Delays(u) :
              x = [w EXCEPT !.k.subs[u] = [sub EXCEPT !.tokens = sub.tokens + 1, !.instance = w.nextId, !.marks = s.marks],
                            !.nextId = @ + 1, !.events = @ \o Armed("deadline", u, w.nextId, delay)]
        BY <2>2 DEF EnterSubprocess
      <3> DEFINE new == [sub EXCEPT !.tokens = sub.tokens + 1, !.instance = w.nextId, !.marks = s.marks]
                 ev == Armed("deadline", u, w.nextId, delay)
      <3>2. x = [w EXCEPT !.k = [w.k EXCEPT !.subs = [w.k.subs EXCEPT ![u] = new]], !.nextId = w.nextId + 1, !.events = w.events \o ev]
        BY <3>1, <1>2 DEF WorkFields
      <3>3. IsSub(new, Len(sz)) /\ new.tokens = sub.tokens + 1 /\ new.epoch = sub.epoch /\ new.instance # 0
        <4>1. DOMAIN sub = {"tokens", "instance", "marks", "epoch"} /\ sub.tokens \in Int /\ sub.epoch \in Nat
          BY <1>4 DEF IsSub
        <4> HIDE DEF sub
        <4>2. /\ DOMAIN new = DOMAIN sub /\ new.tokens = sub.tokens + 1 /\ new.epoch = sub.epoch
              /\ new.marks = s.marks /\ new.instance = w.nextId
          BY <4>1
        <4> HIDE DEF new
        <4>. QED BY <4>1, <4>2, <1>1, <1>2 DEF IsSub
      <3>4. /\ Sequence(ev)
            /\ \A e \in Range(ev) : /\ e.kind = "deadline" /\ e.act = w.nextId /\ e.node \in Range(Borders[u])
                                    /\ e.case = Due.case
        BY <1>3, DeadlinesOf
      <3> HIDE DEF new, sub, ev
      <3>5. \A e \in Range(ev) : e.kind = "deadline" /\ e.act \in 1 .. (w.nextId + 1) - 1 /\ \E v \in Subs : e.node \in Range(Borders[v])
        BY <3>4, <1>2, <1>3
      <3>6. ASSUME NEW e \in Range(ev), NEW i \in DOMAIN w.acts PROVE ~Watched(e, i, w.acts[i])
        <4>1. HostOf(e.node) = u
          BY <1>3, <3>4, OneHost DEF Here
        <4>2. u \in Births \/ (w.acts[i].case = Due.case => u \notin Round(w.acts[i].node))
          BY <2>2, Vacant DEF sub
        <4>. QED BY <3>4, <4>1, <4>2 DEF Watched, Round
      <3>. QED BY <3>2, <3>3, <3>4, <3>5, <3>6
    <2>. QED BY <2>1, <2>2
  <1> DEFINE subs == [w.k.subs EXCEPT ![u] = new]
             k == [w.k EXCEPT !.subs = subs]
  <1>7. /\ DOMAIN subs = Subs /\ subs[u] = new /\ \A v \in Subs \ {u} : subs[v] = w.k.subs[v]
    BY <1>2, <1>3 DEF CaseIs
  <1>8. x = [w EXCEPT !.k = k, !.nextId = ni, !.events = @ \o ev]
    BY <1>6
  <1>9. Good(x, {})
    BY <1>2, <1>3, Entering
  <1>10. OpensAt(new, u)
    BY <1>4, <1>5, <1>6 DEF OpensAt, IsSub
  <1> HIDE DEF sub, subs
  <1>11. /\ DOMAIN k = CaseFields /\ k.subs = subs /\ k.tokens = w.k.tokens /\ k.ands = w.k.ands /\ k.ors = w.k.ors
         /\ k.alive = w.k.alive /\ k.endId = w.k.endId
    BY <1>2 DEF CaseIs, CaseFields
  <1> HIDE DEF k
  <1>12. /\ x.k = k /\ x.acts = w.acts /\ x.loops = w.loops /\ x.entries = w.entries
         /\ x.nextAct = w.nextAct /\ x.nextId = ni /\ x.events = w.events \o ev /\ x.blocked = w.blocked
    BY <1>2, <1>8 DEF WorkFields
  <1> HIDE DEF w
  <1>13. Grows(w, x, ev)
    BY <1>6, <1>12 DEF Grows
  <1>14. Recast(w, sz, x, u, 1, ev)
    BY <1>1, <1>6, <1>7, <1>9, <1>10, <1>11, <1>12, <1>13 DEF Recast, sub
  <1>15. CrossesOne(s, sz, l, u, x, ev)
    BY <1>1, <1>14 DEF CrossesOne, w
  <1>. QED BY <1>15, CrossedOne

\* A boundary is a node that a token may be lost at
LEMMA Exits ==
    ASSUME model \in Models, NEW h \in Nodes \cup Subs, NEW b \in Range(Borders[h]) \cup Errors(h)
    PROVE  b \in Nodes /\ (Out[b] = <<>> => b \in DeadEnds)
  <1>1. Borders[h] \in Seq(Nodes) /\ model.errors[h] \in Seq(Nodes)
    BY Statics
  <1>2. b \in Nodes
    <2> DEFINE f == Borders[h]
               g == model.errors[h]
    <2>1. f \in Seq(Nodes) /\ g \in Seq(Nodes) /\ (b \in Range(f) \/ b \in Range(g))
      BY <1>1 DEF Errors
    <2> HIDE DEF f, g
    <2>. QED BY <2>1, SequenceOf
  <1>3. Type[b] \in {"boundary", "error"}
    BY ModelsAssumption DEF Type, Nodes, Subs, Borders, Errors
  <1>. QED BY <1>2, <1>3 DEF DeadEnds

\* It leaves n for m
CanLeave(w, sz, n, m, marks, times, l) ==
    /\ Proper(w, sz, {}) /\ n \in Nodes /\ m \in Nodes /\ times \subseteq Nat /\ IsMarks(marks, Len(sz))
    /\ l \in Nat /\ Held(w, n, l + 1)

\* It is counted in every sub-process around n when it sets off
LEMMA SetsOff ==
    ASSUME Here, NEW w, NEW sz, NEW n, NEW m, NEW marks, NEW times, NEW l, CanLeave(w, sz, n, m, marks, times, l),
           NEW s, s = Leaving(w, n, m, marks, times)
    PROVE  OnItsWay(s, sz) /\ Tallied(s, l) /\ s.w = w /\ s.from = n /\ s.marks = marks
           /\ \A v \in Subs : In(s, v) <=> v \in Round(n)
  <1>1. /\ Proper(w, sz, {}) /\ n \in Nodes /\ m \in Nodes /\ times \subseteq Nat /\ IsMarks(marks, Len(sz))
        /\ l \in Nat /\ Held(w, n, l + 1) /\ model \in Models
    BY DEF CanLeave, Here
  <1>2. s.w = w /\ s.from = n /\ s.to = m /\ s.path = Path(n, m) /\ s.marks = marks
    BY DEF Leaving
  <1>3. Token(s)
    BY <1>1, LeavingToken DEF Proper
  <1>4. Way(Path(n, m), n, m) /\ \A r \in Subs : r \notin Range(Path(n, m)) => (r \in Round(n) <=> r \in Round(m))
    BY <1>1, PathIsWay
  <1>5. s.to # NoNode
    BY <1>1, <1>2, Statics
  <1>6. OnItsWay(s, sz)
    BY <1>1, <1>2, <1>3, <1>4, <1>5 DEF OnItsWay
  <1>7. \A v \in Subs : In(s, v) <=> v \in Round(n)
    BY <1>2, <1>4, <1>5 DEF In
  <1>8. Tally(s, l) = Hold(n, l + 1)
    BY <1>1, <1>2, <1>7 DEF Tally, Hold
  <1>9. Tallied(s, l)
    BY <1>1, <1>2, <1>8 DEF Tallied, Held
  <1>. QED BY <1>2, <1>6, <1>7, <1>9

\* It has been sent away from a sub-process of its node, which has been cancelled
Away(s, z, sz) ==
    /\ OnItsWay(z, sz) /\ Tallied(z, 0)
    /\ Inside[s.from] # <<>> /\ EpochAt(s.w.k, s.from) < EpochAt(z.w.k, s.from)
    /\ \A v \in Subs : s.w.k.subs[v].epoch <= z.w.k.subs[v].epoch
    /\ \A v \in Subs : In(z, v) => In(s, v)
    /\ \E u \in Subs : In(s, u) /\ ~In(z, u) /\ u \in Range(s.path) /\ u \in Round(s.from)

\* What it has in hand when it is about to leave a sub-process
LEMMA AtHand ==
    ASSUME Here, NEW s, NEW sz, NEW l, NEW u, Before(s, sz, l, u), u \in Round(s.from), NEW b \in Errors(u)
    PROVE  /\ u \in Subs /\ s.from \in NodesIn(u) /\ \E X, m, d : InHand(s.w, X, u, b, m, d)
           /\ \A v \in Subs : v \in Round(b) => In(s, v)
           /\ In(s, u) /\ u \notin Round(b) /\ b \in Nodes
           /\ Inside[s.from] # <<>> /\ Head(Inside[s.from]) \in Under(u)
  <1> DEFINE f == s.from
             w == s.w
             m == l + 1
             d == Tally(s, l)
  <1>1. /\ OnItsWay(s, sz) /\ l \in Nat /\ Tallied(s, l) /\ s.path # <<>> /\ u = Head(s.path)
        /\ Token(s) /\ s.to # NoNode /\ Way(s.path, s.from, s.to) /\ Opens(w.k) /\ f \in Nodes
    BY DEF OnItsWay, Before, Tallied, Token
  <1>2. u \in Subs /\ u \in Range(s.path)
    BY <1>1, WayOn
  <1>3. f \in NodesIn(u)
    BY <1>1 DEF NodesIn
  <1>4. b \in Range(Borders[u]) \cup Errors(u) /\ model \in Models
    BY DEF Here
  <1>5. /\ \A r \in Under(u) : NodesIn(r) \subseteq NodesIn(u) /\ r \notin Round(b)
        /\ \A r \in Round(b) : r \in Subs /\ NodesIn(u) \subseteq NodesIn(r)
        /\ \A r \in Subs : r \notin Under(u) /\ r \notin Round(b) => NodesIn(r) \cap NodesIn(u) = {}
        /\ b \in Nodes /\ u \in Under(u) /\ Inside[f] # <<>> /\ Head(Inside[f]) \in Under(u)
    BY <1>2, <1>3, <1>4, Tree
  <1>6. u \in Range(s.path) \cap Round(f)
    BY <1>2
  <1>7. \A r \in Subs : /\ r \in Round(s.to) /\ r \notin Range(s.path) => r \in Round(f)
                        /\ r \in Round(f) /\ r \notin Range(s.path) /\ r \notin Round(s.to) => r \in model.nested[u]
    BY <1>1, <1>6 DEF Way
  <1>8. In(s, u)
    BY <1>1, <1>2 DEF In
  <1>9. ASSUME NEW v \in Subs, v \in Round(b) PROVE v \in Round(f) /\ In(s, v)
    <2>1. v \in Round(f)
      BY <1>3, <1>5, <1>9 DEF NodesIn
    <2>2. v \notin model.nested[u]
      BY <1>5, <1>9 DEF Under
    <2>. QED BY <1>1, <1>7, <2>1, <2>2 DEF In
  <1>10. ASSUME NEW v \in Subs, v \notin Under(u), v \notin Round(b) PROVE v \notin Round(f) /\ ~In(s, v)
    <2>1. v \notin Round(f)
      BY <1>3, <1>5, <1>10, <1>1 DEF NodesIn
    <2>. QED BY <1>1, <1>7, <2>1 DEF In
  <1>11. PICK X : Weighed(w, X, m, d)
    BY <1>1 DEF Tallied
  <1>12. d[u] = m
    BY <1>1, <1>2, <1>8 DEF Tally
  <1>13. w.k.subs[u].tokens > 0
    <2>1. w.k.subs[u].tokens = Worth(w, X, NodesIn(u)) + d[u] /\ Stocked(w, X)
      BY <1>2, <1>11 DEF Weighed, Balance, Worth, Stocked
    <2>2. Worth(w, X, NodesIn(u)) \in Nat
      BY <2>1, TotalIs DEF Worth, Stocked
    <2> HIDE DEF d
    <2>. QED BY <2>1, <2>2, <1>1, <1>12
  <1>14. \A v \in Round(b) : d[v] = m
    BY <1>5, <1>9, <1>1 DEF Tally
  <1>15. \A v \in Subs : v \notin Under(u) /\ v \notin Round(b) => d[v] = 0
    BY <1>10 DEF Tally
  <1>16. m \in Nat
    BY <1>1
  <1> HIDE DEF d, m
  <1>17. InHand(w, X, u, b, m, d)
    BY <1>1, <1>11, <1>12, <1>13, <1>14, <1>15, <1>16 DEF InHand
  <1>18. u \notin Round(b)
    BY <1>5
  <1>. QED BY <1>2, <1>3, <1>5, <1>8, <1>9, <1>17, <1>18

\* It is sent to an error boundary
LEMMA Diverts ==
    ASSUME Here, NEW s, NEW sz, NEW l, NEW u, Before(s, sz, l, u), u \in Round(s.from), NEW b \in Errors(u),
           NEW x, x \in InterruptSubprocess(s.w, u, b), NEW z, z = Diverted(x, b, s.marks)
    PROVE  Away(s, z, sz)
  <1>1. /\ u \in Subs /\ s.from \in NodesIn(u)
        /\ \A v \in Subs : v \in Round(b) => In(s, v)
        /\ In(s, u) /\ u \notin Round(b) /\ b \in Nodes
        /\ Inside[s.from] # <<>> /\ Head(Inside[s.from]) \in Under(u)
    BY AtHand
  <1>2. PICK X, m, d : InHand(s.w, X, u, b, m, d)
    BY AtHand
  <1>3. OnItsWay(s, sz) /\ Proper(s.w, sz, {}) /\ IsMarks(s.marks, Len(sz)) /\ model \in Models /\ u \in Range(s.path)
    <2>1. OnItsWay(s, sz) /\ s.path # <<>> /\ u = Head(s.path)
      BY DEF Before
    <2>2. s.to # NoNode /\ Way(s.path, s.from, s.to)
      BY <2>1 DEF OnItsWay
    <2>3. u \in Range(s.path)
      BY <2>1, <2>2, WayOn
    <2>. QED BY <2>1, <2>3 DEF OnItsWay, Here
  <1>4. NodesIn(u) # {} /\ b \in Range(Borders[u]) \cup Errors(u)
    BY <1>1
  <1>5. /\ Proper(x, sz, {}) /\ Held(x, b, 1) /\ b \in Nodes
        /\ \A v \in Subs : s.w.k.subs[v].epoch <= x.k.subs[v].epoch
        /\ \A v \in Under(u) : s.w.k.subs[v].epoch < x.k.subs[v].epoch
    BY <1>1, <1>2, <1>3, <1>4, InterruptedAll
  <1>6. EpochAt(s.w.k, s.from) < EpochAt(x.k, s.from)
    BY <1>1, <1>5 DEF EpochAt
  <1>7. CASE Out[b] = <<>>
    <2>1. z = [w |-> x, from |-> b, to |-> NoNode, path |-> <<>>, marks |-> s.marks, times |-> {}]
      BY <1>7 DEF Diverted
    <2>2. z.w = x /\ z.from = b /\ z.to = NoNode /\ z.path = <<>> /\ z.marks = s.marks /\ z.times = {} /\ DOMAIN z = TokenFields
      BY <2>1 DEF TokenFields
    <2>3. b \in DeadEnds
      BY <1>1, <1>3, <1>4, <1>7, Exits
    <2>4. Token(z)
      BY <2>2, <1>5, EmptySeq DEF Token, Proper
    <2>5. OnItsWay(z, sz)
      BY <2>2, <2>3, <2>4, <1>3, <1>5 DEF OnItsWay
    <2>6. \A v \in Subs : In(z, v) <=> v \in Round(b)
      BY <2>2 DEF In
    <2>7. Tally(z, 0) = Hold(b, 1)
      BY <2>2, <2>6 DEF Tally, Hold
    <2>8. Tallied(z, 0)
      BY <2>2, <2>7, <1>5 DEF Tallied, Held
    <2>. QED BY <2>2, <2>5, <2>6, <2>8, <1>1, <1>3, <1>5, <1>6 DEF Away, NodesIn
  <1>8. CASE Out[b] # <<>>
    <2> DEFINE t == Times[Head(Out[b])]
    <2>1. z = Leaving(x, b, Head(Out[b]), s.marks, t)
      BY <1>8 DEF Diverted
    <2>2. Head(Out[b]) \in Nodes /\ t \subseteq Nat
      BY <1>3, <1>5, <1>8, HeadOfOut
    <2> HIDE DEF t
    <2>3. CanLeave(x, sz, b, Head(Out[b]), s.marks, t, 0)
      BY <2>2, <1>3, <1>5 DEF CanLeave
    <2>4. OnItsWay(z, sz) /\ Tallied(z, 0) /\ z.w = x /\ \A v \in Subs : In(z, v) <=> v \in Round(b)
      BY <2>1, <2>3, SetsOff
    <2>. QED BY <2>4, <1>1, <1>3, <1>5, <1>6 DEF Away, NodesIn
  <1>. QED BY <1>7, <1>8

\* How many crossings it may still make: it may be sent away from the sub-processes it is counted
\* in, to leave others and enter others
Inner(s) == {r \in Subs : In(s, r)}
IsLeaving(s) == \E r \in Range(s.path) : r \in Round(s.from)
Steps(s) == IF IsLeaving(s) THEN Cardinality(Inner(s)) + Cardinality(Subs) ELSE Len(s.path)

\* They are at most twice as many as there are sub-processes
LEMMA StepsAre ==
    ASSUME Here, NEW s, NEW sz, OnItsWay(s, sz)
    PROVE  /\ Cardinality(Subs) \in Nat /\ Cardinality(Inner(s)) \in Nat /\ Len(s.path) \in Nat /\ IsFiniteSet(Inner(s))
           /\ Cardinality(Inner(s)) <= Cardinality(Subs) /\ Len(s.path) <= Cardinality(Subs)
           /\ Steps(s) \in Nat /\ Steps(s) <= 2 * Cardinality(Subs)
           /\ Steps(s) = 0 => s.path = <<>>
           /\ \A v \in Subs : In(s, v) => Cardinality(Inner(s)) > 0
  <1>1. IsFiniteSet(Subs) /\ model \in Models
    BY Statics DEF Here
  <1>2. Cardinality(Subs) \in Nat
    BY <1>1, FS_CardinalityType
  <1>3. Inner(s) \subseteq Subs
    BY DEF Inner
  <1>4. IsFiniteSet(Inner(s)) /\ Cardinality(Inner(s)) \in Nat /\ Cardinality(Inner(s)) <= Cardinality(Subs)
    BY <1>1, <1>3, FS_Subset, FS_CardinalityType
  <1>5. s.path \in Seq(Subs) /\ \A i, j \in DOMAIN s.path : s.path[i] = s.path[j] => i = j
    <2>1. CASE s.to = NoNode
      BY <2>1 DEF OnItsWay, Token
    <2>2. CASE s.to # NoNode
      BY <2>2 DEF OnItsWay, Way
    <2>. QED BY <2>1, <2>2
  <1> DEFINE p == s.path
  <1>6. Len(p) \in Nat /\ DOMAIN p = 1 .. Len(p) /\ Range(p) \subseteq Subs
    BY <1>5, SequenceOf
  <1>7. Len(p) <= Cardinality(Subs) /\ (p # <<>> => Len(p) # 0)
    <2> DEFINE I == {p[i] : i \in 1 .. Len(p)}
    <2>1. \A i, j \in 1 .. Len(p) : p[i] = p[j] => i = j
      BY <1>5, <1>6
    <2>2. IsFiniteSet(1 .. Len(p)) /\ Cardinality(1 .. Len(p)) = Len(p)
      BY <1>6, Interval
    <2>3. I \subseteq Subs
      BY <1>6 DEF Range
    <2> HIDE DEF p
    <2>4. Cardinality(I) = Len(p)
      BY <1>6, <2>1, <2>2, Image
    <2> HIDE DEF I
    <2>5. Cardinality(I) <= Cardinality(Subs)
      BY <1>1, <2>3, FS_Subset
    <2>6. p # <<>> => Len(p) # 0
      BY <1>5, EmptySeq DEF p
    <2>. QED BY <2>4, <2>5, <2>6
  <1>8. ASSUME NEW v \in Subs, In(s, v) PROVE Cardinality(Inner(s)) > 0
    <2>1. Inner(s) # {}
      BY <1>8 DEF Inner
    <2>. QED BY <2>1, <1>4, FS_EmptySet
  <1>9. IsLeaving(s) => Cardinality(Subs) > 0
    <2>1. IsLeaving(s) => Subs # {}
      BY <1>6 DEF IsLeaving
    <2>. QED BY <2>1, <1>1, <1>2, FS_EmptySet
  <1> HIDE DEF p
  <1>10. /\ Steps(s) \in Nat /\ Steps(s) <= 2 * Cardinality(Subs) /\ (Steps(s) = 0 => s.path = <<>>)
    BY <1>2, <1>4, <1>6, <1>7, <1>9 DEF Steps, p
  <1>. QED BY <1>2, <1>4, <1>6, <1>7, <1>8, <1>10 DEF p

\* Fewer are left after one
LEMMA FewerSteps ==
    ASSUME Here, NEW s, NEW sz, NEW l, NEW u, Before(s, sz, l, u), NEW z, Further(s, z, sz, l) \/ Away(s, z, sz)
    PROVE  Steps(z) + 1 <= Steps(s)
  <1>1. /\ OnItsWay(s, sz) /\ s.path # <<>> /\ u = Head(s.path) /\ s.to # NoNode /\ Way(s.path, s.from, s.to)
    BY DEF Before, OnItsWay
  <1>2. OnItsWay(z, sz)
    BY DEF Further, Away
  <1> DEFINE S == Cardinality(Subs)
             I == Cardinality(Inner(s))
             J == Cardinality(Inner(z))
  <1>3. /\ S \in Nat /\ I \in Nat /\ Len(s.path) \in Nat /\ I <= S /\ Len(s.path) <= S /\ IsFiniteSet(Inner(s))
        /\ \A v \in Subs : In(s, v) => I > 0
    BY <1>1, StepsAre
  <1>4. /\ J \in Nat /\ Len(z.path) \in Nat /\ J <= S /\ Len(z.path) <= S
    BY <1>2, StepsAre
  <1>5. /\ u \in Subs /\ u \in Range(s.path) /\ u \notin Range(Tail(s.path))
        /\ Range(s.path) = {u} \cup Range(Tail(s.path)) /\ Len(Tail(s.path)) = Len(s.path) - 1
        /\ u \notin Round(s.from) => \A r \in Range(s.path) : r \notin Round(s.from)
    BY <1>1, WayOn
  <1>6. ASSUME NEW v \in Subs, In(s, v), ~In(z, v), \A r \in Subs : In(z, r) => In(s, r) PROVE J + 1 <= I
    <2>1. Inner(z) \subseteq Inner(s) /\ v \in Inner(s) /\ v \notin Inner(z)
      BY <1>6 DEF Inner
    <2>2. Inner(z) \subseteq Inner(s) \ {v}
      BY <2>1
    <2>3. Cardinality(Inner(s) \ {v}) = I - 1 /\ IsFiniteSet(Inner(s) \ {v})
      BY <1>3, <2>1, FS_RemoveElement
    <2>4. J <= I - 1
      BY <2>2, <2>3, FS_Subset
    <2>. QED BY <2>4, <1>3, <1>4
  <1>7. CASE Further(s, z, sz, l)
    <2>1. z.from = s.from /\ z.to = s.to /\ z.path = Tail(s.path)
      BY <1>7 DEF Further
    <2>2. CASE u \in Round(s.from)
      <3>1. In(s, u) /\ ~In(z, u)
        BY <1>1, <1>5, <2>1, <2>2 DEF In, Way
      <3>2. \A r \in Subs : In(z, r) => In(s, r)
        BY <1>5, <2>1, <3>1 DEF In
      <3>3. J + 1 <= I
        BY <1>5, <1>6, <3>1, <3>2
      <3>4. Steps(s) = I + S
        BY <1>5, <2>2 DEF Steps, IsLeaving
      <3>5. Steps(z) = J + S \/ Steps(z) = Len(z.path)
        BY DEF Steps
      <3> HIDE DEF I, J, S
      <3>. QED BY <1>3, <1>4, <3>3, <3>4, <3>5
    <2>3. CASE u \notin Round(s.from)
      <3>1. Steps(s) = Len(s.path) /\ Steps(z) = Len(z.path)
        BY <1>5, <2>1, <2>3 DEF Steps, IsLeaving
      <3>. QED BY <3>1, <2>1, <1>3, <1>5
    <2>. QED BY <2>2, <2>3
  <1>8. CASE Away(s, z, sz)
    <2>1. PICK v \in Subs : In(s, v) /\ ~In(z, v) /\ v \in Range(s.path) /\ v \in Round(s.from)
      BY <1>8 DEF Away
    <2>2. \A r \in Subs : In(z, r) => In(s, r)
      BY <1>8 DEF Away
    <2>3. J + 1 <= I
      BY <1>6, <2>1, <2>2
    <2>4. Steps(s) = I + S
      BY <2>1 DEF Steps, IsLeaving
    <2>5. Steps(z) = J + S \/ Steps(z) = Len(z.path)
      BY DEF Steps
    <2> HIDE DEF I, J, S
    <2>. QED BY <1>3, <1>4, <2>3, <2>4, <2>5
  <1>. QED BY <1>7, <1>8

-----------------------------------------------------------------------------
(* Tokens that are lost or sent *)

\* A token at n is lost, or it is stuck there
Loses(w, x, n) ==
    /\ x.k = w.k /\ x.acts = w.acts /\ x.entries = w.entries /\ x.events = w.events
    /\ \/ n \in DeadEnds /\ x.blocked = w.blocked
       \/ \A m, c : <<m, c>> \in x.blocked <=> <<m, c>> \in w.blocked \/ (m = n /\ c = Due.case)

\* Then there is one fewer in hand: it is a dead end, or the token is noted as stuck
LEMMA LostHeld ==
    ASSUME Here, NEW w, NEW n \in Nodes, NEW l \in Int, Held(w, n, l), NEW x, Loses(w, x, n)
    PROVE  Held(x, n, l - 1)
  <1>1. PICK X : Weighed(w, X, l, Hold(n, l))
    BY DEF Held
  <1> DEFINE Y == With(X, n, WaitingAt(n, X) + 1)
             h == All(w)
             d == Hold(n, l)
             e == Hold(n, l - 1)
  <1>2. Balance(h, w.k, w.acts, w.entries, w.blocked, Due.case, X, l, d)
    BY <1>1 DEF Weighed
  <1>3. Stock(h, w.k, w.acts, w.entries, X) /\ Lost(X, w.blocked, Due.case) /\ Heaped(X)
    BY <1>2 DEF Balance, Stock
  <1>4. Gathers(X, n, Y)
    BY <1>3 DEF Gathers
  <1> HIDE DEF Y, h
  <1>5. \A N : Gathered(X, n, Y, N)
    BY <1>4, KeptMore
  <1>6. Heaped(Y) /\ DOMAIN Y = DOMAIN X \cup {n} /\ \A N : AtKeys(Y, N) = AtKeys(X, N) + Unit(n, N)
    BY <1>5 DEF Gathered
  <1>7. All(x) = h /\ x.k = w.k /\ x.acts = w.acts /\ x.entries = w.entries
    BY DEF Loses, All, h
  <1>8. Stock(h, w.k, w.acts, w.entries, Y)
    BY <1>3, <1>6 DEF Stock
  <1>9. Lost(Y, x.blocked, Due.case)
    BY <1>3, <1>6 DEF Lost, Loses
  <1>10. \A N : Total(h, w.k, w.acts, w.entries, Due.case, Y, N)
                = Total(h, w.k, w.acts, w.entries, Due.case, X, N) + (IF n \in N THEN 1 ELSE 0)
    <2>1. ASSUME NEW N PROVE Total(h, w.k, w.acts, w.entries, Due.case, Y, N)
                             = Total(h, w.k, w.acts, w.entries, Due.case, X, N) + (IF n \in N THEN 1 ELSE 0)
      <3>1. /\ EntersAt(h, w.k, Due.case, N) \in Nat /\ Placed(w.acts, Owners(w.acts), Due.case, N) \in Nat
            /\ Placed(w.entries, DOMAIN w.entries, Due.case, N) \in Nat /\ AtKeys(w.k.ands, N) \in Nat
            /\ AtKeys(w.k.ors, N \X Nat) \in Nat /\ AtKeys(X, N) \in Nat
        BY <1>3, TotalIs
      <3>. QED BY <3>1, <1>6 DEF Total, Unit
    <2>. QED BY <2>1
  <1>11. SameCounts(w.k, w.k)
    BY DEF SameCounts
  <1>12. d \in [Subs -> Int] /\ \A u \in Subs : e[u] = d[u] - (IF u \in Round(n) THEN 1 ELSE 0)
    BY DEF Hold
  <1>13. model \in Models /\ 1 \in Int
    BY DEF Here
  <1> HIDE DEF d, e
  <1>14. Balance(h, w.k, w.acts, w.entries, x.blocked, Due.case, Y, l - 1, e)
    BY <1>2, <1>8, <1>9, <1>10, <1>11, <1>12, <1>13, Rebalance
  <1>15. Weighed(x, Y, l - 1, Hold(n, l - 1))
    BY <1>7, <1>14 DEF Weighed, e
  <1>. QED BY <1>7, <1>15 DEF Held

\* A token e is sent to its node
Emits(w, x, e) ==
    /\ Sequence(w.events) /\ x.k = w.k /\ x.acts = w.acts /\ x.entries = w.entries /\ x.blocked = w.blocked
    /\ x.events = w.events \o <<e>>
    /\ e.kind = "enter" /\ e.case = Due.case /\ e.node \in Nodes /\ Fresh(w.k, e)

\* Then there is one fewer in hand, in each sub-process around the node
LEMMA EmitWeighed ==
    ASSUME Here, NEW w, NEW x, NEW e, Emits(w, x, e), NEW X, NEW m \in Int, NEW d \in [Subs -> Int], Weighed(w, X, m, d),
           NEW f, \A u \in Subs : f[u] = d[u] - (IF u \in Round(e.node) THEN 1 ELSE 0)
    PROVE  Weighed(x, X, m - 1, f)
  <1> DEFINE h == All(w)
             n == e.node
  <1>1. Balance(h, w.k, w.acts, w.entries, w.blocked, Due.case, X, m, d)
    BY DEF Weighed
  <1>2. Stock(h, w.k, w.acts, w.entries, X) /\ Lost(X, w.blocked, Due.case) /\ Sequence(h)
    BY <1>1 DEF Balance, Stock
  <1>3. /\ x.k = w.k /\ x.acts = w.acts /\ x.entries = w.entries /\ x.blocked = w.blocked
        /\ x.events = w.events \o <<e>> /\ Sequence(w.events) /\ e.kind = "enter" /\ e.case = Due.case /\ n \in Nodes /\ Fresh(w.k, e)
    BY DEF Emits
  <1>4. Sequence(All(x)) /\ All(x) = h \o <<e>>
    <2> DEFINE ev == <<e>>
    <2>1. Sequence(ev)
      BY Single
    <2>2. x.events = w.events \o ev /\ Sequence(w.events)
      BY <1>3
    <2> HIDE DEF ev
    <2>3. Sequence(All(x)) /\ All(x) = All(w) \o ev
      BY ONLY Here, <2>1, <2>2, AheadLonger
    <2>. QED BY <2>3 DEF ev
  <1> HIDE DEF h
  <1>5. \A N : EntersAt(h \o <<e>>, w.k, e.case, N) = EntersAt(h, w.k, e.case, N) + Unit(n, N)
    BY <1>2, <1>3, EntersOne
  <1>6. Stock(All(x), w.k, w.acts, w.entries, X)
    BY <1>2, <1>4 DEF Stock
  <1>7. \A N : Total(All(x), w.k, w.acts, w.entries, Due.case, X, N)
                = Total(h, w.k, w.acts, w.entries, Due.case, X, N) + (IF n \in N THEN 1 ELSE 0)
    <2>1. ASSUME NEW N PROVE Total(All(x), w.k, w.acts, w.entries, Due.case, X, N)
                             = Total(h, w.k, w.acts, w.entries, Due.case, X, N) + (IF n \in N THEN 1 ELSE 0)
      <3>1. /\ EntersAt(h, w.k, Due.case, N) \in Nat /\ Placed(w.acts, Owners(w.acts), Due.case, N) \in Nat
            /\ Placed(w.entries, DOMAIN w.entries, Due.case, N) \in Nat /\ AtKeys(w.k.ands, N) \in Nat
            /\ AtKeys(w.k.ors, N \X Nat) \in Nat /\ AtKeys(X, N) \in Nat
        BY <1>2, TotalIs
      <3>2. EntersAt(All(x), w.k, Due.case, N) = EntersAt(h, w.k, Due.case, N) + Unit(n, N)
        BY <1>3, <1>4, <1>5
      <3>. QED BY <3>1, <3>2 DEF Total, Unit
    <2>. QED BY <2>1
  <1>8. SameCounts(w.k, w.k)
    BY DEF SameCounts
  <1>9. model \in Models /\ 1 \in Int /\ n \in Nodes /\ \A u \in Subs : f[u] = d[u] - (IF u \in Round(n) THEN 1 ELSE 0)
    BY <1>3 DEF Here
  <1> HIDE DEF n
  <1>10. Balance(All(x), w.k, w.acts, w.entries, w.blocked, Due.case, X, m - 1, f)
    BY <1>1, <1>2, <1>6, <1>7, <1>8, <1>9, Rebalance
  <1>. QED BY <1>3, <1>10 DEF Weighed

\* It is one of those in hand
LEMMA EmitHeld ==
    ASSUME Here, NEW w, NEW x, NEW e, Emits(w, x, e), NEW n \in Nodes, e.node = n, NEW l \in Int, Held(w, n, l)
    PROVE  Held(x, n, l - 1)
  <1>1. PICK X : Weighed(w, X, l, Hold(n, l))
    BY DEF Held
  <1> DEFINE d == Hold(n, l)
             f == Hold(n, l - 1)
  <1>2. d \in [Subs -> Int] /\ \A u \in Subs : f[u] = d[u] - (IF u \in Round(e.node) THEN 1 ELSE 0)
    BY DEF Hold
  <1> HIDE DEF d, f
  <1>3. Weighed(w, X, l, d)
    BY <1>1 DEF d
  <1>4. Weighed(x, X, l - 1, f)
    BY <1>2, <1>3, EmitWeighed
  <1>. QED BY <1>4 DEF Held, f, Emits

\* A token that goes nowhere with a loop is sent in a case of which everything is known
LEMMA EmitProper ==
    ASSUME Here, NEW w, NEW sz, Proper(w, sz, {}), NEW x, NEW e, Emits(w, x, e), Good(x, {}),
           x.loops = w.loops, x.nextAct = w.nextAct, x.nextId = w.nextId,
           e.loop = 0, IsMarks(e.marks, Len(sz)), e.epoch = EpochAt(w.k, e.node)
    PROVE  Proper(x, sz, {})
  <1> DEFINE ev == <<e>>
  <1>1. Good(w, {}) /\ Tied(w, {}) /\ Noted(w, sz) /\ CaseIs(w.k, sz) /\ Going(w.k) /\ model \in Models
    BY DEF Proper, Noted, Here
  <1>2. Sequence(ev) /\ Range(ev) = {e}
    BY Single
  <1>3. Grows(w, x, ev)
    BY <1>2 DEF Emits, Grows
  <1>4. e.epoch \in Nat
    <2>1. e.node \in Nodes
      BY DEF Emits
    <2>2. Inside[e.node] # <<>> => Head(Inside[e.node]) \in Subs
      BY <1>1, <2>1, InsideIs, HeadTailProperties
    <2>. QED BY <1>1, <2>2 DEF EpochAt, CaseIs, IsSub
  <1>5. x.k = w.k /\ e.kind = "enter" /\ e.case = Due.case
    BY DEF Emits
  <1>6. \A u \in Subs : w.k.subs[u].epoch <= x.k.subs[u].epoch
    BY <1>1, <1>5 DEF CaseIs, IsSub
  <1>7. \A f \in Range(ev) : f.kind = "enter" =>
          /\ f.case = Due.case /\ IsMarks(f.marks, Len(sz)) /\ f.epoch \in Nat
          /\ Inside[f.node] # <<>> => f.epoch <= EpochAt(x.k, f.node)
    BY <1>2, <1>4, <1>5
  <1>8. \A f \in Range(ev) : \/ f.kind = "enter" /\ f.loop = 0
                             \/ /\ f.kind = "deadline" /\ f.act \in 1 .. x.nextId - 1
                                /\ \E u \in Subs : f.node \in Range(Borders[u])
                                /\ \A i \in DOMAIN w.acts : ~Watched(f, i, w.acts[i])
    BY <1>2, <1>5
  <1>a. CaseIs(x.k, sz) /\ Going(x.k)
    BY <1>1, <1>5
  <1> HIDE DEF ev
  <1>9. Tied(x, {})
    BY <1>1, <1>3, <1>8, GrownTied
  <1>10. Noted(x, sz)
    BY <1>1, <1>a, <1>3, <1>6, <1>7, GrownNoted
  <1>. QED BY <1>9, <1>10 DEF Proper

\* It comes to where it was going
LEMMA ArrivesHeld ==
    ASSUME Here, NEW s, NEW sz, OnItsWay(s, sz), s.path = <<>>, NEW l \in Nat, Tallied(s, l), NEW x, x = Arrived(s)
    PROVE  Proper(x, sz, {}) /\ Held(x, s.from, l) /\ x.k = s.w.k
  <1> DEFINE w == s.w
             n == s.from
             m == s.to
  <1>1. /\ Token(s) /\ Proper(w, sz, {}) /\ Good(w, {}) /\ CaseIs(w.k, sz) /\ Opens(w.k) /\ n \in Nodes
        /\ IsMarks(s.marks, Len(sz)) /\ m \in Nodes \cup {NoNode}
    BY DEF OnItsWay, Token, Proper, Noted, Tallied
  <1>2. CASE m = NoNode
    <2>1. x = w /\ n \in DeadEnds
      BY <1>2 DEF Arrived, OnItsWay
    <2>2. \A v \in Subs : In(s, v) <=> v \in Round(n)
      BY <1>2 DEF In
    <2>3. Tally(s, l) = Hold(n, l + 1)
      BY <2>2 DEF Tally, Hold
    <2>4. Held(w, n, l + 1)
      BY <1>1, <2>3 DEF Tallied, Held
    <2>5. Loses(w, w, n) /\ l + 1 \in Int /\ (l + 1) - 1 = l
      BY <2>1 DEF Loses
    <2>6. Held(w, n, (l + 1) - 1)
      BY <1>1, <2>4, <2>5, LostHeld
    <2>. QED BY <1>1, <2>1, <2>5, <2>6
  <1>3. CASE m # NoNode
    <2> DEFINE e == Enter(Due.t, Due.case, m, s.marks, s.times, EpochAt(w.k, m), 0)
    <2>1. x = [w EXCEPT !.events = Append(@, e)] /\ m \in Nodes
      BY <1>1, <1>3 DEF Arrived
    <2>2. /\ e.kind = "enter" /\ e.case = Due.case /\ e.node = m /\ e.marks = s.marks /\ e.loop = 0 /\ e.epoch = EpochAt(w.k, m)
      BY DEF Enter
    <2> HIDE DEF e
    <2>3. DOMAIN w = WorkFields /\ Sequence(w.events)
      BY <1>1 DEF Good
    <2>4. x.events = w.events \o <<e>>
      BY <2>1, <2>3, Appended DEF WorkFields
    <2>5. /\ x.k = w.k /\ x.acts = w.acts /\ x.entries = w.entries /\ x.blocked = w.blocked
          /\ x.loops = w.loops /\ x.nextAct = w.nextAct /\ x.nextId = w.nextId
      BY <2>1, <2>3 DEF WorkFields
    <2>6. Emits(w, x, e)
      <3>1. Fresh(w.k, e)
        BY <2>2 DEF Fresh
      <3>. QED BY <2>1, <2>2, <2>3, <2>4, <2>5, <3>1 DEF Emits
    <2>7. Good(x, {})
      BY <1>1, Arriving
    <2>8. Proper(x, sz, {})
      BY <1>1, <2>2, <2>5, <2>6, <2>7, EmitProper
    <2> DEFINE j == l + 1
               d == Tally(s, l)
               f == Hold(n, l)
    <2>9. PICK X : Weighed(w, X, j, d)
      BY DEF Tallied
    <2>10. \A u \in Subs : In(s, u) <=> u \in Round(m)
      BY <1>3 DEF In, Range
    <2>11. d \in [Subs -> Int] /\ \A u \in Subs : f[u] = d[u] - (IF u \in Round(e.node) THEN 1 ELSE 0)
      BY <2>2, <2>10 DEF Tally, Hold
    <2>12. j \in Int /\ j - 1 = l
      OBVIOUS
    <2> HIDE DEF d, f, j
    <2>13. Weighed(x, X, j - 1, f)
      BY <2>6, <2>9, <2>11, <2>12, EmitWeighed
    <2>. QED BY <1>1, <2>5, <2>8, <2>12, <2>13 DEF Held, f
  <1>. QED BY <1>2, <1>3

-----------------------------------------------------------------------------
(* Tokens that leave a node *)

\* What has become of a token after k crossings, with l more at the node it comes from: they are
\* still there, or they have been cancelled
Travelled(s0, s, k, sz, l) ==
    /\ OnItsWay(s, sz)
    /\ s.path = <<>> \/ k + Steps(s) <= 2 * Cardinality(Subs)
    /\ \A v \in Subs : s0.w.k.subs[v].epoch <= s.w.k.subs[v].epoch
    /\ \/ s.from = s0.from /\ Tallied(s, l) /\ SameEpochs(s0.w.k, s.w.k)
       \/ Inside[s0.from] # <<>> /\ EpochAt(s0.w.k, s0.from) < EpochAt(s.w.k, s0.from) /\ Tallied(s, 0)

\* One crossing more
LEMMA TravelsOn ==
    ASSUME Here, NEW s0, s0.from \in Nodes, NEW s, NEW k \in Nat, NEW sz, NEW l \in Nat,
           OnItsWay(s0, sz), Travelled(s0, s, k, sz, l), NEW z \in Crossing(s)
    PROVE  Travelled(s0, z, k + 1, sz, l)
  <1> DEFINE u == Head(s.path)
             S == 2 * Cardinality(Subs)
  <1>1. OnItsWay(s, sz) /\ model \in Models /\ CaseIs(s.w.k, sz) /\ CaseIs(s0.w.k, sz)
    BY DEF Travelled, Here, OnItsWay, Proper, Noted
  <1>2. CASE s.path = <<>>
    <2>1. z = s
      BY <1>2 DEF Crossing
    <2>. QED BY <1>2, <2>1 DEF Travelled
  <1>3. CASE s.path # <<>>
    <2>1. PICK j \in Nat : /\ Tallied(s, j)
                           /\ \/ j = l /\ s.from = s0.from /\ SameEpochs(s0.w.k, s.w.k)
                              \/ j = 0 /\ Inside[s0.from] # <<>> /\ EpochAt(s0.w.k, s0.from) < EpochAt(s.w.k, s0.from)
      BY DEF Travelled
    <2>2. Before(s, sz, j, u)
      BY <1>1, <1>3, <2>1 DEF Before
    <2> HIDE DEF u
    <2>3. Further(s, z, sz, j) \/ Away(s, z, sz)
      <3>1. CASE u \in Round(s.from) /\ z = [s EXCEPT !.w.k.subs[u] = Moved(@, -1), !.path = Tail(@)]
        BY <2>2, <3>1, LeavesOne
      <3>2. CASE u \in Round(s.from) /\ \E b \in Errors(u) : \E x \in InterruptSubprocess(s.w, u, b) : z = Diverted(x, b, s.marks)
        BY <2>2, <3>2, Diverts
      <3>3. CASE u \notin Round(s.from) /\ \E x \in EnterSubprocess(s.w, u, s.marks) : z = [s EXCEPT !.w = x, !.path = Tail(@)]
        BY <2>2, <3>3, EntersOneMore
      <3>. QED BY <1>3, <3>1, <3>2, <3>3 DEF Crossing, u, Round
    <2>4. Steps(z) + 1 <= Steps(s)
      BY <2>2, <2>3, FewerSteps
    <2>5. OnItsWay(z, sz) /\ CaseIs(z.w.k, sz)
      BY <2>3 DEF Further, Away, OnItsWay, Proper, Noted
    <2>6. Steps(z) \in Nat /\ Steps(s) \in Nat /\ Cardinality(Subs) \in Nat
      BY <1>1, <2>5, StepsAre
    <2>7. (k + 1) + Steps(z) <= S
      BY <1>3, <2>4, <2>6 DEF Travelled
    <2>8. \A v \in Subs : /\ s0.w.k.subs[v].epoch \in Nat /\ s.w.k.subs[v].epoch \in Nat /\ z.w.k.subs[v].epoch \in Nat
                          /\ s0.w.k.subs[v].epoch <= s.w.k.subs[v].epoch
      BY <1>1, <2>5 DEF CaseIs, IsSub, Travelled
    <2>9. \A v \in Subs : s.w.k.subs[v].epoch <= z.w.k.subs[v].epoch
      BY <2>3, <2>8 DEF Further, Away, SameEpochs
    <2>10. \A v \in Subs : s0.w.k.subs[v].epoch <= z.w.k.subs[v].epoch
      BY <2>8, <2>9
    <2>11. \A n \in Nodes : Inside[n] # <<>> => Head(Inside[n]) \in Subs
      BY <1>1, InsideIs, HeadTailProperties
    <2>12. CASE Further(s, z, sz, j)
      <3>1. z.from = s.from /\ Tallied(z, j) /\ SameEpochs(s.w.k, z.w.k)
        BY <2>12 DEF Further
      <3>2. CASE j = l /\ s.from = s0.from /\ SameEpochs(s0.w.k, s.w.k)
        BY <3>1, <3>2, <2>5, <2>7, <2>10 DEF Travelled, SameEpochs
      <3>3. CASE j = 0 /\ Inside[s0.from] # <<>> /\ EpochAt(s0.w.k, s0.from) < EpochAt(s.w.k, s0.from)
        <4>1. EpochAt(z.w.k, s0.from) = EpochAt(s.w.k, s0.from)
          BY <3>1, <2>11 DEF EpochAt, SameEpochs
        <4>. QED BY <3>1, <3>3, <4>1, <2>5, <2>7, <2>10 DEF Travelled
      <3>. QED BY <2>1, <3>2, <3>3
    <2>13. CASE Away(s, z, sz)
      <3>1. /\ Tallied(z, 0) /\ Inside[s.from] # <<>> /\ EpochAt(s.w.k, s.from) < EpochAt(z.w.k, s.from)
        BY <2>13 DEF Away
      <3>2. CASE j = l /\ s.from = s0.from /\ SameEpochs(s0.w.k, s.w.k)
        <4>1. EpochAt(s0.w.k, s0.from) = EpochAt(s.w.k, s0.from)
          BY <3>2, <2>11 DEF EpochAt, SameEpochs
        <4>. QED BY <3>1, <3>2, <4>1, <2>5, <2>7, <2>10 DEF Travelled
      <3>3. CASE j = 0 /\ Inside[s0.from] # <<>> /\ EpochAt(s0.w.k, s0.from) < EpochAt(s.w.k, s0.from)
        <4>1. EpochAt(s0.w.k, s0.from) < EpochAt(z.w.k, s0.from)
          <5> DEFINE v == Head(Inside[s0.from])
          <5>1. v \in Subs
            BY <3>3, <2>11
          <5>2. /\ EpochAt(s0.w.k, s0.from) = s0.w.k.subs[v].epoch /\ EpochAt(s.w.k, s0.from) = s.w.k.subs[v].epoch
                /\ EpochAt(z.w.k, s0.from) = z.w.k.subs[v].epoch
            BY <3>3 DEF EpochAt
          <5> HIDE DEF v
          <5>3. s0.w.k.subs[v].epoch < s.w.k.subs[v].epoch
            BY <3>3, <5>2
          <5>. QED BY <5>1, <5>2, <5>3, <2>8, <2>9
        <4>. QED BY <3>1, <3>3, <4>1, <2>5, <2>7, <2>10 DEF Travelled
      <3>. QED BY <2>1, <3>2, <3>3
    <2>. QED BY <2>3, <2>12, <2>13
  <1>. QED BY <1>2, <1>3

\* It is so after any number of crossings
Travels(s0, s, k) ==
    \A sz, l : OnItsWay(s0, sz) /\ l \in Nat /\ Tallied(s0, l) => Travelled(s0, s, k, sz, l)

\* So it is after all crossings: by induction over the path
LEMMA TravelsGoOn ==
    \A s : \A n \in Nat :
       /\ Travels(s, s, 0)
       /\ \A k \in Nat : \A x : Travels(s, x, k) => \A y \in Crossing(x) : Travels(s, y, k + 1)
       => \A y \in Rounds(s, n, Crossing) : Travels(s, y, n)
  <1> SUFFICES ASSUME NEW s, NEW n \in Nat, Travels(s, s, 0),
                      \A k \in Nat : \A x : Travels(s, x, k) => \A y \in Crossing(x) : Travels(s, y, k + 1)
               PROVE  \A y \in Rounds(s, n, Crossing) : Travels(s, y, n)
    OBVIOUS
  <1>1. PICK f : Chain(f, s, n, "cross") /\ Rounds(s, n, Crossing) = f[n]
    BY CrossRounds
  <1>2. f[0] = {s} /\ \A k \in 0 .. n - 1 : f[k + 1] = UNION {Crossing(x) : x \in f[k]}
    BY <1>1 DEF Chain, StepOf
  <1> DEFINE T == {k \in 0 .. n : \A y \in f[k] : Travels(s, y, k)}
  <1>3. 0 \in T
    BY <1>2
  <1>4. \A k \in 0 .. n - 1 : k \in T => k + 1 \in T
    BY <1>2
  <1>5. n \in T
    <2>. HIDE DEF T
    <2>. QED BY <1>3, <1>4, Upwards
  <1>. QED BY <1>1, <1>5

\* What crossSubprocesses makes of what is known: the token is counted where it comes to
Sure(w, sz, n, l) == Proper(w, sz, {}) /\ n \in Nodes /\ l \in Nat /\ Held(w, n, l + 1)
Gone(w, x, sz, n, l) ==
    /\ Proper(x, sz, {})
    /\ \A v \in Subs : w.k.subs[v].epoch <= x.k.subs[v].epoch
    /\ \/ SameEpochs(w.k, x.k) /\ Held(x, n, l)
       \/ Inside[n] # <<>> /\ EpochAt(w.k, n) < EpochAt(x.k, n) /\ \E m \in Nodes : Held(x, m, 0)

\* The walk of crossSubprocesses, whichever sub-processes it leaves, enters or cancels
LEMMA CrossedHeld ==
    ASSUME Here, NEW w, NEW sz, NEW n, NEW l, Sure(w, sz, n, l), NEW m \in Nodes, NEW marks, IsMarks(marks, Len(sz)),
           NEW times, times \subseteq Nat, NEW x \in Crossed(w, n, m, marks, times)
    PROVE  Gone(w, x, sz, n, l)
  <1> DEFINE s0 == Leaving(w, n, m, marks, times)
             c == 2 * Cardinality(Subs)
  <1>1. Proper(w, sz, {}) /\ n \in Nodes /\ l \in Nat /\ Held(w, n, l + 1) /\ CaseIs(w.k, sz)
    BY DEF Sure, Proper, Noted
  <1>2. CanLeave(w, sz, n, m, marks, times, l)
    BY <1>1 DEF CanLeave
  <1>3. OnItsWay(s0, sz) /\ Tallied(s0, l) /\ s0.w = w /\ s0.from = n
    BY <1>2, SetsOff
  <1>4. c \in Nat /\ Steps(s0) \in Nat /\ Steps(s0) <= c
    BY <1>3, StepsAre
  <1>5. PICK s \in Rounds(s0, c, Crossing) : x = Arrived(s)
    BY DEF Crossed
  <1> HIDE DEF s0, c
  <1>6. Travels(s0, s, c)
    <2>1. Travels(s0, s0, 0)
      <3>1. ASSUME NEW sy, NEW j, OnItsWay(s0, sy), j \in Nat, Tallied(s0, j) PROVE Travelled(s0, s0, 0, sy, j)
        <4>1. Steps(s0) \in Nat /\ Steps(s0) <= 2 * Cardinality(Subs)
          BY <3>1, StepsAre
        <4>2. SameEpochs(s0.w.k, s0.w.k)
          BY DEF SameEpochs
        <4>3. \A v \in Subs : s0.w.k.subs[v].epoch <= s0.w.k.subs[v].epoch
          BY <1>1, <1>3 DEF CaseIs, IsSub
        <4>. QED BY <3>1, <4>1, <4>2, <4>3 DEF Travelled
      <3>. QED BY <3>1 DEF Travels
    <2>2. ASSUME NEW k \in Nat, NEW y, Travels(s0, y, k), NEW z \in Crossing(y) PROVE Travels(s0, z, k + 1)
      <3>1. ASSUME NEW sy, NEW j, OnItsWay(s0, sy), j \in Nat, Tallied(s0, j) PROVE Travelled(s0, z, k + 1, sy, j)
        <4>1. Travelled(s0, y, k, sy, j)
          BY <2>2, <3>1 DEF Travels
        <4>2. s0.from \in Nodes
          BY <1>1, <1>3
        <4>. QED BY <3>1, <4>1, <4>2, TravelsOn
      <3>. QED BY <3>1 DEF Travels
    <2>3. \A y \in Rounds(s0, c, Crossing) : Travels(s0, y, c)
      BY <1>4, <2>1, <2>2, TravelsGoOn
    <2>. QED BY <2>3
  <1>7. Travelled(s0, s, c, sz, l)
    BY <1>1, <1>3, <1>6 DEF Travels
  <1>8. OnItsWay(s, sz) /\ s.path = <<>> /\ s.from \in Nodes
    <2>1. OnItsWay(s, sz)
      BY <1>7 DEF Travelled
    <2>2. Steps(s) \in Nat /\ (Steps(s) = 0 => s.path = <<>>)
      BY <2>1, StepsAre
    <2>3. s.path = <<>> \/ c + Steps(s) <= c
      BY <1>7 DEF Travelled, c
    <2>. QED BY <2>1, <2>2, <2>3, <1>4 DEF OnItsWay, Token
  <1>9. \A v \in Subs : w.k.subs[v].epoch <= s.w.k.subs[v].epoch
    BY <1>3, <1>7 DEF Travelled
  <1>10. CASE s.from = s0.from /\ Tallied(s, l) /\ SameEpochs(s0.w.k, s.w.k)
    <2>1. Proper(x, sz, {}) /\ Held(x, s.from, l) /\ x.k = s.w.k
      BY <1>1, <1>5, <1>8, <1>10, ArrivesHeld
    <2>. QED BY <1>3, <1>9, <1>10, <2>1 DEF Gone
  <1>11. CASE Inside[s0.from] # <<>> /\ EpochAt(s0.w.k, s0.from) < EpochAt(s.w.k, s0.from) /\ Tallied(s, 0)
    <2>1. Proper(x, sz, {}) /\ Held(x, s.from, 0) /\ x.k = s.w.k
      BY <1>5, <1>8, <1>11, ArrivesHeld
    <2>. QED BY <1>3, <1>8, <1>9, <1>11, <2>1 DEF Gone
  <1>. QED BY <1>7, <1>10, <1>11 DEF Travelled

\* Tokens that are to leave a node: what is left of them is in hand there, unless they have been
\* cancelled
Lining(s, sz) == Row(s) /\ Proper(s.w, sz, {}) /\ IsMarks(s.marks, Len(sz))
Lined(s0, s, k, sz) ==
    /\ Lining(s, sz) /\ s.from = s0.from /\ s.epoch = s0.epoch
    /\ \A v \in Subs : s0.w.k.subs[v].epoch <= s.w.k.subs[v].epoch
    /\ \/ /\ EpochAt(s.w.k, s.from) = s.epoch /\ Held(s.w, s.from, Len(s.left))
          /\ s.left = <<>> \/ Len(s.left) + k <= Len(s0.left)
       \/ EpochAt(s.w.k, s.from) > s.epoch /\ \E m \in Nodes : Held(s.w, m, 0)

\* One token more leaves
LEMMA LeavesHeld ==
    ASSUME Here, NEW s0, NEW s, NEW k \in Nat, NEW sz, Lining(s0, sz), s0.epoch \in Nat, Lined(s0, s, k, sz), NEW z \in Leave(s)
    PROVE  Lined(s0, z, k + 1, sz)
  <1>1. /\ Row(s) /\ Proper(s.w, sz, {}) /\ IsMarks(s.marks, Len(sz)) /\ CaseIs(s.w.k, sz) /\ s.from \in Nodes
        /\ DOMAIN s = RowFields /\ s.left \in Seq(Nodes) /\ s.drawn \subseteq Nat /\ model \in Models
        /\ s.from = s0.from /\ s.epoch = s0.epoch
    BY DEF Lined, Lining, Row, Proper, Noted, Here
  <1>2. CaseIs(s0.w.k, sz) /\ \A v \in Subs : s0.w.k.subs[v].epoch <= s.w.k.subs[v].epoch
    BY DEF Lined, Lining, Proper, Noted
  <1>3. CASE s.left = <<>> \/ EpochAt(s.w.k, s.from) # s.epoch
    <2>1. z = s
      BY <1>3 DEF Leave
    <2>2. EpochAt(s.w.k, s.from) > s.epoch => EpochAt(s.w.k, s.from) # s.epoch
      BY <1>1
    <2>. QED BY <1>3, <2>1, <2>2 DEF Lined
  <1>4. CASE s.left # <<>> /\ EpochAt(s.w.k, s.from) = s.epoch
    <2> DEFINE n == s.from
               m == Head(s.left)
               times == IF s.drawn = {} THEN Times[m] ELSE s.drawn
               l == Len(Tail(s.left))
    <2>1. Held(s.w, n, Len(s.left)) /\ Len(s.left) + k <= Len(s0.left)
      BY <1>1, <1>4 DEF Lined
    <2>2. m \in Nodes /\ Tail(s.left) \in Seq(Nodes) /\ l \in Nat /\ Len(s.left) = l + 1
      BY <1>1, <1>4, HeadTailProperties, LenProperties
    <2>3. times \subseteq Nat
      BY <1>1, <2>2, Statics
    <2> DEFINE rest == Tail(s.left)
    <2>4. \E x \in Crossed(s.w, n, m, s.marks, times) : z = [s EXCEPT !.w = x, !.left = rest]
      BY <1>4 DEF Leave
    <2> HIDE DEF m, times
    <2>5. PICK x \in Crossed(s.w, n, m, s.marks, times) : z = [s EXCEPT !.w = x, !.left = rest]
      BY <2>4
    <2>6. Sure(s.w, sz, n, l)
      BY <1>1, <2>1, <2>2 DEF Sure
    <2>7. Gone(s.w, x, sz, n, l)
      <3> HIDE DEF l
      <3>. QED BY ONLY Here, <1>1, <2>2, <2>3, <2>5, <2>6, CrossedHeld
    <2> HIDE DEF rest
    <2>8. /\ z.w = x /\ z.left = rest /\ z.from = n /\ z.epoch = s.epoch /\ z.marks = s.marks /\ z.drawn = s.drawn
          /\ DOMAIN z = RowFields
      BY <1>1, <2>5 DEF RowFields
    <2>9. Proper(x, sz, {}) /\ Good(x, {}) /\ CaseIs(x.k, sz)
      BY <2>7 DEF Gone, Proper, Noted
    <2>10. Lining(z, sz)
      BY <1>1, <2>2, <2>8, <2>9 DEF Lining, Row, rest
    <2>11. \A v \in Subs : s0.w.k.subs[v].epoch <= z.w.k.subs[v].epoch
      <3>1. \A v \in Subs : s.w.k.subs[v].epoch <= x.k.subs[v].epoch
        BY <2>7 DEF Gone
      <3>2. \A v \in Subs : s0.w.k.subs[v].epoch \in Nat /\ s.w.k.subs[v].epoch \in Nat /\ x.k.subs[v].epoch \in Nat
        BY <1>1, <1>2, <2>9 DEF CaseIs, IsSub
      <3>. QED BY ONLY <1>2, <2>8, <3>1, <3>2
    <2>12. \A v \in Subs : s0.w.k.subs[v].epoch \in Nat
      BY <1>2 DEF CaseIs, IsSub
    <2>13. CASE SameEpochs(s.w.k, x.k) /\ Held(x, n, l)
      <3>1. EpochAt(x.k, n) = EpochAt(s.w.k, n)
        <4>1. Inside[n] # <<>> => Head(Inside[n]) \in Subs
          BY <1>1, InsideIs, HeadTailProperties
        <4>. QED BY <2>13, <4>1 DEF SameEpochs, EpochAt
      <3>2. Len(rest) + (k + 1) <= Len(s0.left)
        <4>1. s0.left \in Seq(Nodes)
          BY DEF Lining, Row
        <4>2. Len(s0.left) \in Nat
          BY <4>1, LenProperties
        <4>3. Len(rest) = l
          BY DEF rest, l
        <4> HIDE DEF l
        <4>. QED BY <2>1, <2>2, <4>2, <4>3
      <3>. QED BY <1>1, <1>4, <2>8, <2>10, <2>11, <2>13, <3>1, <3>2 DEF Lined, rest
    <2>14. CASE Inside[n] # <<>> /\ EpochAt(s.w.k, n) < EpochAt(x.k, n) /\ \E j \in Nodes : Held(x, j, 0)
      <3>1. EpochAt(x.k, n) > s.epoch
        BY <1>4, <2>14
      <3>. QED BY <1>1, <2>8, <2>10, <2>11, <2>14, <3>1 DEF Lined
    <2>. QED BY <2>7, <2>13, <2>14 DEF Gone
  <1>. QED BY <1>3, <1>4

\* It is so after any number of them
Rowing(s0, s, k) ==
    \A sz : Lining(s0, sz) /\ s0.epoch = EpochAt(s0.w.k, s0.from) /\ Held(s0.w, s0.from, Len(s0.left)) => Lined(s0, s, k, sz)

\* So it is after all of them: by induction over the targets
LEMMA RowingGoesOn ==
    \A s : \A n \in Nat :
       /\ Rowing(s, s, 0)
       /\ \A k \in Nat : \A x : Rowing(s, x, k) => \A y \in Leave(x) : Rowing(s, y, k + 1)
       => \A y \in Rounds(s, n, Leave) : Rowing(s, y, n)
  <1> SUFFICES ASSUME NEW s, NEW n \in Nat, Rowing(s, s, 0),
                      \A k \in Nat : \A x : Rowing(s, x, k) => \A y \in Leave(x) : Rowing(s, y, k + 1)
               PROVE  \A y \in Rounds(s, n, Leave) : Rowing(s, y, n)
    OBVIOUS
  <1>1. PICK f : Chain(f, s, n, "leave") /\ Rounds(s, n, Leave) = f[n]
    BY LeaveRounds
  <1>2. f[0] = {s} /\ \A k \in 0 .. n - 1 : f[k + 1] = UNION {Leave(x) : x \in f[k]}
    BY <1>1 DEF Chain, StepOf
  <1> DEFINE T == {k \in 0 .. n : \A y \in f[k] : Rowing(s, y, k)}
  <1>3. 0 \in T
    BY <1>2
  <1>4. \A k \in 0 .. n - 1 : k \in T => k + 1 \in T
    BY <1>2
  <1>5. n \in T
    <2>. HIDE DEF T
    <2>. QED BY <1>3, <1>4, Upwards
  <1>. QED BY <1>1, <1>5

\* They have all left, and none is in hand any more
LEMMA SentHeld ==
    ASSUME Here, NEW w, NEW sz, Proper(w, sz, {}), NEW n \in Nodes, NEW targets \in Seq(Nodes), NEW marks, IsMarks(marks, Len(sz)),
           NEW drawn, drawn \subseteq Nat, Held(w, n, Len(targets)), NEW x \in Sent(w, n, targets, marks, drawn)
    PROVE  Proper(x, sz, {}) /\ \E m \in Nodes : Held(x, m, 0)
  <1> DEFINE s0 == [w |-> w, from |-> n, left |-> targets, marks |-> marks, drawn |-> drawn, epoch |-> EpochAt(w.k, n)]
             c == Len(targets)
  <1>1. c \in Nat
    BY LenProperties
  <1>2. s0.w = w /\ s0.from = n /\ s0.left = targets /\ s0.epoch = EpochAt(w.k, n)
    OBVIOUS
  <1>3. Lining(s0, sz)
    BY DEF Lining, Row, RowFields, Proper
  <1>4. PICK s \in Rounds(s0, c, Leave) : x = s.w
    BY DEF Sent
  <1> HIDE DEF s0, c
  <1>5. CaseIs(w.k, sz) /\ model \in Models
    BY DEF Proper, Noted, Here
  <1>6. s0.epoch \in Nat
    <2>1. Inside[n] # <<>> => Head(Inside[n]) \in Subs
      BY <1>5, InsideIs, HeadTailProperties
    <2>. QED BY <1>2, <1>5, <2>1 DEF EpochAt, CaseIs, IsSub
  <1>7. Rowing(s0, s, c)
    <2>1. Rowing(s0, s0, 0)
      <3>1. ASSUME NEW sy, Lining(s0, sy), s0.epoch = EpochAt(s0.w.k, s0.from), Held(s0.w, s0.from, Len(s0.left))
            PROVE  Lined(s0, s0, 0, sy)
        <4>1. Len(s0.left) + 0 <= Len(s0.left)
          BY <1>1, <1>2 DEF c
        <4>2. \A v \in Subs : s0.w.k.subs[v].epoch <= s0.w.k.subs[v].epoch
          BY <1>2, <1>5 DEF CaseIs, IsSub
        <4>. QED BY <3>1, <4>1, <4>2 DEF Lined
      <3>. QED BY <3>1 DEF Rowing
    <2>2. ASSUME NEW k \in Nat, NEW y, Rowing(s0, y, k), NEW z \in Leave(y) PROVE Rowing(s0, z, k + 1)
      <3>1. ASSUME NEW sy, Lining(s0, sy), s0.epoch = EpochAt(s0.w.k, s0.from), Held(s0.w, s0.from, Len(s0.left))
            PROVE  Lined(s0, z, k + 1, sy)
        <4>1. Lined(s0, y, k, sy)
          BY <2>2, <3>1 DEF Rowing
        <4>. QED BY <1>6, <3>1, <4>1, LeavesHeld
      <3>. QED BY <3>1 DEF Rowing
    <2>3. \A y \in Rounds(s0, c, Leave) : Rowing(s0, y, c)
      BY <1>1, <2>1, <2>2, RowingGoesOn
    <2>. QED BY <2>3
  <1>8. Lined(s0, s, c, sz)
    BY <1>2, <1>3, <1>7 DEF Rowing, c
  <1>9. Proper(x, sz, {}) /\ s.from \in Nodes /\ s.left \in Seq(Nodes)
    BY <1>4, <1>8 DEF Lined, Lining, Row
  <1>10. CASE EpochAt(s.w.k, s.from) = s.epoch /\ Held(s.w, s.from, Len(s.left)) /\ (s.left = <<>> \/ Len(s.left) + c <= Len(s0.left))
    <2>1. Len(s.left) \in Nat /\ Len(<<>>) = 0
      BY <1>9, LenProperties
    <2>2. Len(s.left) = 0
      BY <1>1, <1>2, <1>10, <2>1 DEF c
    <2>. QED BY <1>4, <1>9, <1>10, <2>2
  <1>11. CASE EpochAt(s.w.k, s.from) > s.epoch /\ \E m \in Nodes : Held(s.w, m, 0)
    BY <1>4, <1>9, <1>11
  <1>. QED BY <1>8, <1>10, <1>11 DEF Lined

\* A token goes on from a node that is no end
LEMMA ForwardHeld ==
    ASSUME Here, NEW w, NEW sz, Proper(w, sz, {}), NEW n \in Nodes, NEW marks, IsMarks(marks, Len(sz)),
           Held(w, n, 1), Type[n] \notin {"end", "terminate"}, NEW x \in Forward(w, n, marks)
    PROVE  Proper(x, sz, {}) /\ \E m \in Nodes : Held(x, m, 0)
  <1>1. CASE Out[n] = <<>>
    <2>1. x = w /\ n \in DeadEnds
      BY <1>1 DEF Forward, DeadEnds
    <2>2. Loses(w, w, n) /\ 1 \in Int /\ 1 - 1 = 0
      BY <2>1 DEF Loses
    <2>3. Held(w, n, 1 - 1)
      BY <2>2, LostHeld
    <2>. QED BY <2>1, <2>2, <2>3
  <1>2. CASE Out[n] # <<>>
    <2> DEFINE t == <<Head(Out[n])>>
    <2>1. x \in Sent(w, n, t, marks, {})
      BY <1>2 DEF Forward, Emit
    <2>2. Head(Out[n]) \in Nodes
      BY <1>2, HeadOfOut DEF Here
    <2>3. t \in Seq(Nodes) /\ Len(t) = 1
      BY <2>2
    <2> HIDE DEF t
    <2>. QED BY <2>1, <2>3, SentHeld
  <1>. QED BY <1>1, <1>2

-----------------------------------------------------------------------------
(* The state *)

\* The counts of the case k, which is the c-th, are its tokens
Counted(h, k, A, E, B, c) == Opens(k) /\ \E X : Balance(h, k, A, E, B, c, X, 0, [u \in Subs |-> 0])

\* A case that has been killed is over, and one that has ended has no tokens
CaseSound(h, k, A, E, B, c, sz) ==
    /\ CaseIs(k, sz) /\ k.alive \in BOOLEAN
    /\ k.alive => /\ Counted(h, k, A, E, B, c) /\ Epochs(k, c, Range(h))
                  /\ k.endId # NoNode => k.tokens = 0
    /\ ~k.alive => /\ k.endId # NoNode /\ k.ands = << >> /\ k.ors = << >>
                   /\ \A i \in DOMAIN A : A[i].case # c

\* All of it
SoundAt(h, S, A, L, E, na, ni, B, sz) ==
    /\ sz \in Seq(Nat \ {0}) /\ Ties(A, L, E, h, na, ni, {}) /\ Marked(A, E, Range(h), Len(sz))
    /\ \A c \in DOMAIN S : CaseSound(h, S[c], A, E, B, c, sz)
    /\ \A n, c : <<n, c>> \in B => c \in 1 .. Len(S)
Sound == SoundAt(heap, cases, acts, loops, entries, nextAct, nextId, blocked, sizes) /\ Early(heap, acts)

\* The same events in another order
Shuffles(h, g) ==
    Sequence(h) /\ Sequence(g) /\ Range(g) = Range(h) /\ \A S : NumberOf(g, S) = NumberOf(h, S)

\* It has the same tokens on their way
LEMMA ShuffledEnters ==
    ASSUME NEW h, NEW g, Shuffles(h, g), NEW k, NEW c, NEW N
    PROVE  EntersAt(g, k, c, N) = EntersAt(h, k, c, N)
  <1>1. Tokens(g, k, c, N) = Tokens(h, k, c, N)
    BY DEF Shuffles, Tokens
  <1>. QED BY <1>1 DEF Shuffles, EntersAt

\* The case and its tokens
LEMMA ShuffledCase ==
    ASSUME NEW h, NEW g, Shuffles(h, g), NEW k, NEW A, NEW E, NEW B, NEW c, NEW sz, CaseSound(h, k, A, E, B, c, sz)
    PROVE  CaseSound(g, k, A, E, B, c, sz)
  <1>1. CASE k.alive
    <2>1. PICK X : Balance(h, k, A, E, B, c, X, 0, [u \in Subs |-> 0])
      BY <1>1 DEF CaseSound, Counted
    <2>2. \A N : Total(g, k, A, E, c, X, N) = Total(h, k, A, E, c, X, N)
      BY ShuffledEnters DEF Total
    <2>3. Stock(g, k, A, E, X)
      BY <2>1 DEF Balance, Stock, Shuffles
    <2>4. Balance(g, k, A, E, B, c, X, 0, [u \in Subs |-> 0])
      BY <2>1, <2>2, <2>3 DEF Balance
    <2>5. Counted(g, k, A, E, B, c)
      BY <1>1, <2>4 DEF CaseSound, Counted
    <2>. QED BY <1>1, <2>5 DEF CaseSound, Shuffles
  <1>2. CASE ~k.alive
    BY <1>2 DEF CaseSound
  <1>. QED BY <1>1, <1>2

\* All of it
LEMMA ShuffledSound ==
    ASSUME NEW h, NEW g, Shuffles(h, g), NEW S, NEW A, NEW L, NEW E, NEW na, NEW ni, NEW B, NEW sz,
           SoundAt(h, S, A, L, E, na, ni, B, sz)
    PROVE  SoundAt(g, S, A, L, E, na, ni, B, sz)
  <1>1. \A l : Iterations(g, l) = Iterations(h, l)
    BY DEF Shuffles, Iterations
  <1>2. Lone(g)
    BY <1>1 DEF SoundAt, Ties, Lone, Shuffles
  <1>3. Ties(A, L, E, g, na, ni, {})
    BY <1>2 DEF SoundAt, Ties, Shuffles
  <1>4. \A c \in DOMAIN S : CaseSound(g, S[c], A, E, B, c, sz)
    BY ShuffledCase DEF SoundAt
  <1>. QED BY <1>3, <1>4 DEF SoundAt, Shuffles

\* A case that nothing concerns
Unconcerned(h, A, E, B, g, C, F, D, c, k) ==
    /\ Sequence(g) /\ IsFiniteSet(DOMAIN C) /\ IsFiniteSet(DOMAIN F)
    /\ \A N : EntersAt(g, k, c, N) = EntersAt(h, k, c, N)
    /\ \A e \in Range(g) : e.kind = "enter" /\ e.case = c => e \in Range(h)
    /\ \A i : (i \in DOMAIN C /\ C[i].case = c) <=> (i \in DOMAIN A /\ A[i].case = c)
    /\ \A i \in DOMAIN C : C[i].case = c => C[i].node = A[i].node /\ C[i].entry = A[i].entry
    /\ \A i : (i \in DOMAIN F /\ F[i].case = c) <=> (i \in DOMAIN E /\ E[i].case = c)
    /\ \A i \in DOMAIN F : F[i].case = c => F[i].node = E[i].node
    /\ \A n : <<n, c>> \in D <=> <<n, c>> \in B

\* Its counts, which were its tokens, still are
LEMMA StillCase ==
    ASSUME NEW h, NEW A, NEW E, NEW B, NEW g, NEW C, NEW F, NEW D, NEW c, NEW k, Unconcerned(h, A, E, B, g, C, F, D, c, k),
           NEW sz, CaseSound(h, k, A, E, B, c, sz)
    PROVE  CaseSound(g, k, C, F, D, c, sz)
  <1>1. CASE k.alive
    <2>1. PICK X : Balance(h, k, A, E, B, c, X, 0, [u \in Subs |-> 0])
      BY <1>1 DEF CaseSound, Counted
    <2>2. \A N : Placed(C, Owners(C), c, N) = Placed(A, Owners(A), c, N)
      <3>1. ASSUME NEW N
            PROVE  \A i : (i \in Owners(C) /\ C[i].case = c /\ C[i].node \in N) <=> (i \in Owners(A) /\ A[i].case = c /\ A[i].node \in N)
        BY DEF Unconcerned, Owners
      <3>. QED BY <3>1, PlacedSame
    <2>3. \A N : Placed(F, DOMAIN F, c, N) = Placed(E, DOMAIN E, c, N)
      <3>1. ASSUME NEW N
            PROVE  \A i : (i \in DOMAIN F /\ F[i].case = c /\ F[i].node \in N) <=> (i \in DOMAIN E /\ E[i].case = c /\ E[i].node \in N)
        BY DEF Unconcerned
      <3>. QED BY <3>1, PlacedSame
    <2>4. \A N : EntersAt(g, k, c, N) = EntersAt(h, k, c, N)
      BY DEF Unconcerned
    <2>5. \A N : Total(g, k, C, F, c, X, N) = Total(h, k, A, E, c, X, N)
      BY <2>2, <2>3, <2>4 DEF Total
    <2>6. Stock(g, k, C, F, X)
      BY <2>1 DEF Balance, Stock, Unconcerned
    <2>7. Lost(X, D, c)
      BY <2>1 DEF Balance, Lost, Unconcerned
    <2>8. Balance(g, k, C, F, D, c, X, 0, [u \in Subs |-> 0])
      BY <2>1, <2>5, <2>6, <2>7 DEF Balance
    <2>9. Counted(g, k, C, F, D, c)
      BY <1>1, <2>8 DEF CaseSound, Counted
    <2>10. Epochs(k, c, Range(g))
      BY <1>1 DEF CaseSound, Epochs, Unconcerned
    <2>. QED BY <1>1, <2>9, <2>10 DEF CaseSound
  <1>2. CASE ~k.alive
    BY <1>2 DEF CaseSound, Unconcerned
  <1>. QED BY <1>1, <1>2

\* The event that is due is one of a case that is alive
ForCase ==
    /\ IInv /\ Sound /\ Running /\ Here
    /\ Due.kind \in {"enter", "done", "boundary", "multiBoundary", "deadline"}
    /\ cases[Due.case].alive

\* What a handler works on is the state
LEMMA NowIs ==
    ASSUME ForCase
    PROVE  /\ DOMAIN Now = WorkFields /\ Now.acts = acts /\ Now.loops = loops /\ Now.entries = entries /\ Now.events = <<>>
           /\ Now.nextAct = nextAct /\ Now.nextId = nextId /\ Now.blocked = blocked
           /\ All(Now) = Tail(heap) /\ Coming(Now) = Range(Tail(heap)) /\ Sequence(heap)
           /\ Range(heap) = {Due} \cup Range(Tail(heap)) /\ heap = <<Due>> \o Tail(heap) /\ Sequence(<<Due>>)
           /\ LET k == cases[Due.case] IN
                /\ CaseSound(heap, k, acts, entries, blocked, Due.case, sizes)
                /\ CaseIs(Now.k, sizes) /\ Now.k.tokens = k.tokens /\ Now.k.subs = k.subs /\ Now.k.ands = k.ands
                /\ Now.k.ors = k.ors /\ Now.k.alive = TRUE /\ Now.k.endId = k.endId
  <1> DEFINE k == cases[Due.case]
             o == [k EXCEPT !.instant = Due.t, !.events = IF Due.t > k.instant THEN 1 ELSE @ + 1]
  <1>1. /\ DOMAIN Now = WorkFields /\ Now.acts = acts /\ Now.loops = loops /\ Now.entries = entries /\ Now.events = <<>>
        /\ Now.nextAct = nextAct /\ Now.nextId = nextId /\ Now.blocked = blocked /\ Now.k = Owner(Due)
    BY DEF Now, WorkFields
  <1>2. Sequence(heap) /\ heap # <<>>
    BY DEF ForCase, IInv, Ordered, Running
  <1>3. Range(heap) = {Due} \cup Range(Tail(heap)) /\ heap = <<Due>> \o Tail(heap) /\ Sequence(Tail(heap)) /\ Sequence(<<Due>>)
    BY <1>2, Headed, Single DEF Due
  <1>4. All(Now) = Tail(heap) /\ Coming(Now) = Range(Tail(heap))
    BY <1>1, <1>3, WithNothing, Empty DEF All, Coming
  <1>5. Due.case \in DOMAIN cases
    BY DEF ForCase, IInv, Here, Sequence
  <1>6. CaseSound(heap, k, acts, entries, blocked, Due.case, sizes)
    BY <1>5 DEF ForCase, Sound, SoundAt
  <1>7. CaseIs(k, sizes) /\ k.alive = TRUE
    BY <1>6 DEF CaseSound, ForCase
  <1>8. Owner(Due) = o
    BY DEF Owner
  <1>9. DOMAIN k = CaseFields
    BY <1>7 DEF CaseIs
  <1> HIDE DEF k
  <1>10. /\ DOMAIN o = CaseFields /\ o.tokens = k.tokens /\ o.subs = k.subs /\ o.ands = k.ands /\ o.ors = k.ors
         /\ o.alive = k.alive /\ o.endId = k.endId
    BY <1>9 DEF CaseFields
  <1> HIDE DEF o
  <1>11. CaseIs(o, sizes)
    BY <1>7, <1>10 DEF CaseIs
  <1>12. /\ CaseIs(Now.k, sizes) /\ Now.k.tokens = k.tokens /\ Now.k.subs = k.subs /\ Now.k.ands = k.ands
         /\ Now.k.ors = k.ors /\ Now.k.alive = TRUE /\ Now.k.endId = k.endId
    BY <1>1, <1>7, <1>8, <1>10, <1>11
  <1>. QED BY <1>1, <1>2, <1>3, <1>4, <1>6, <1>12 DEF k

\* Its tables are in order, and the counts are right but for the token it has taken
LEMMA NowTied ==
    ASSUME ForCase PROVE Tied(Now, {}) /\ Others(Now) /\ Marked(Now.acts, Now.entries, Coming(Now), Len(sizes))
  <1>1. Ties(acts, loops, entries, Tail(heap), nextAct, nextId, {})
    BY FirstTies DEF ForCase, Sound, SoundAt, Running
  <1>2. Tied(Now, {})
    <2>1. Early(Tail(heap), acts)
      BY NowIs, EarlyTail DEF ForCase, Sound, Running
    <2>2. InTime(acts, Tail(heap), <<>>)
      BY <2>1, InTimeNone
    <2>. QED BY <1>1, <2>2, NowIs DEF Tied
  <1>3. Range(<<>>) = {}
    BY Empty
  <1>4. Others(Now)
    <2>1. \A i : AlikeAt(acts, acts, i)
      BY DEF AlikeAt
    <2>. QED BY <1>3, <2>1, NowIs DEF Others
  <1>5. Marked(acts, entries, Range(Tail(heap)), Len(sizes))
    <2>1. Marked(acts, entries, Range(heap), Len(sizes))
      BY DEF ForCase, Sound, SoundAt
    <2>. QED BY <2>1, NowIs DEF Marked
  <1>. QED BY <1>2, <1>4, <1>5, NowIs

\* ... its tokens, n of them at hand
LEMMA NowHeld ==
    ASSUME ForCase
    PROVE  /\ Opens(Now.k) /\ Epochs(Now.k, Due.case, Coming(Now))
           /\ Due.kind # "enter" => \A n : Held(Now, n, 0)
           /\ Due.kind = "enter" /\ Fresh(cases[Due.case], Due) => Held(Now, Due.node, 1)
  <1> DEFINE k == cases[Due.case]
             c == Due.case
  <1>1. CaseSound(heap, k, acts, entries, blocked, c, sizes) /\ k.alive /\ model \in Models
    BY NowIs DEF ForCase, Here
  <1>2. PICK X : Balance(heap, k, acts, entries, blocked, c, X, 0, [u \in Subs |-> 0])
    BY <1>1 DEF CaseSound, Counted
  <1>3. Opens(k) /\ Epochs(k, c, Range(heap)) /\ CaseIs(k, sizes)
    BY <1>1 DEF CaseSound, Counted
  <1>4. Sequence(Tail(heap)) /\ Sequence(<<Due>>) /\ heap = <<Due>> \o Tail(heap) /\ Now.k.subs = k.subs /\ Now.k.tokens = k.tokens
    BY NowIs DEF ForCase, Here
  <1> HIDE DEF k
  <1>5. \A e : Fresh(Now.k, e) <=> Fresh(k, e)
    BY <1>4 DEF Fresh, EpochAt
  <1>6. \A N : EntersAt(Tail(heap), Now.k, c, N) = EntersAt(Tail(heap), k, c, N)
    <2>1. ASSUME NEW N PROVE Tokens(Tail(heap), Now.k, c, N) = Tokens(Tail(heap), k, c, N)
      BY <1>5 DEF Tokens
    <2>. QED BY <2>1 DEF EntersAt
  <1>7. \A N : EntersAt(heap, k, c, N) = EntersAt(<<Due>>, k, c, N) + EntersAt(Tail(heap), k, c, N)
    <2> DEFINE g == Tail(heap)
               f == <<Due>>
    <2>1. Sequence(f) /\ Sequence(g) /\ heap = f \o g
      BY <1>4
    <2> HIDE DEF f, g
    <2>2. \A N : EntersAt(f \o g, k, c, N) = EntersAt(f, k, c, N) + EntersAt(g, k, c, N)
      BY <2>1, EntersConcat
    <2>3. \A N : EntersAt(heap, k, c, N) = EntersAt(f, k, c, N) + EntersAt(g, k, c, N)
      BY <2>1, <2>2
    <2>. QED BY <2>3 DEF f, g
  <1>8. \A n : EntersAt(<<Due>>, k, c, n) \in Nat /\ EntersAt(Tail(heap), k, c, n) \in Nat
    BY <1>4, EntersConcat
  <1>9. Stocked(Now, X)
    <2>1. Heaped(Now.k.ands) /\ Heaped(Now.k.ors)
      BY NowIs DEF CaseIs
    <2>. QED BY <1>2, <1>4, <2>1, NowIs DEF Balance, Stock, Stocked
  <1>10. \A N : Worth(Now, X, N) = Total(Tail(heap), k, acts, entries, c, X, N)
    <2>1. Now.k.ands = k.ands /\ Now.k.ors = k.ors
      BY NowIs DEF k
    <2>. QED BY <1>6, <2>1, NowIs DEF Worth, Total
  <1>11. \A N : Worth(Now, X, N) = Total(heap, k, acts, entries, c, X, N) - EntersAt(<<Due>>, k, c, N)
    <2>1. Stock(heap, k, acts, entries, X)
      BY <1>2 DEF Balance
    <2>2. Stock(Tail(heap), k, acts, entries, X)
      BY <1>4, <2>1 DEF Stock
    <2>3. ASSUME NEW N
          PROVE Total(Tail(heap), k, acts, entries, c, X, N) = Total(heap, k, acts, entries, c, X, N) - EntersAt(<<Due>>, k, c, N)
      <3> DEFINE g == Tail(heap)
      <3>1. Total(heap, k, acts, entries, c, X, N) \in Nat /\ EntersAt(heap, k, c, N) \in Nat
            /\ Placed(acts, Owners(acts), c, N) \in Nat /\ Placed(entries, DOMAIN entries, c, N) \in Nat
            /\ AtKeys(k.ands, N) \in Nat /\ AtKeys(k.ors, N \X Nat) \in Nat /\ AtKeys(X, N) \in Nat
        BY <2>1, TotalIs
      <3>2. EntersAt(heap, k, c, N) = EntersAt(<<Due>>, k, c, N) + EntersAt(g, k, c, N)
            /\ EntersAt(<<Due>>, k, c, N) \in Nat /\ EntersAt(g, k, c, N) \in Nat
        BY <1>7, <1>8
      <3> HIDE DEF g
      <3>3. Total(g, k, acts, entries, c, X, N) = Total(heap, k, acts, entries, c, X, N) - EntersAt(<<Due>>, k, c, N)
        BY <3>1, <3>2 DEF Total
      <3>. QED BY <3>3 DEF g
    <2>. QED BY <1>10, <2>3
  <1>12. Lost(X, Now.blocked, c)
    BY <1>2, NowIs DEF Balance
  <1>13. Opens(Now.k) /\ Epochs(Now.k, c, Coming(Now))
    <2>1. \A e : e \in Coming(Now) => e \in Range(heap)
      BY NowIs
    <2>2. \A n : EpochAt(Now.k, n) = EpochAt(k, n)
      BY <1>4 DEF EpochAt
    <2>. QED BY <1>3, <1>4, <2>1, <2>2 DEF Opens, Epochs
  <1>14. \A N : Total(heap, k, acts, entries, c, X, N) \in Nat
    BY <1>2, TotalIs DEF Balance
  <1>15. CASE Due.kind # "enter"
    <2>1. ASSUME NEW N PROVE EntersAt(<<Due>>, k, c, N) = 0
      BY <1>15, EntersFew DEF Tokens
    <2>2. \A N : Worth(Now, X, N) = Total(heap, k, acts, entries, c, X, N)
      BY <1>11, <1>14, <2>1
    <2>3. ASSUME NEW n PROVE Held(Now, n, 0)
      <3>1. \A u \in Subs : Hold(n, 0)[u] = 0
        BY DEF Hold
      <3>2. Weighed(Now, X, 0, Hold(n, 0))
        BY <1>2, <1>4, <1>9, <1>12, <2>2, <3>1 DEF Weighed, Balance, Stocked, Worth
      <3>. QED BY <1>13, <3>2 DEF Held
    <2>. QED BY <1>13, <1>15, <2>3
  <1>16. CASE Due.kind = "enter" /\ Fresh(k, Due)
    <2> DEFINE n == Due.node
    <2>1. ASSUME NEW N PROVE EntersAt(<<Due>>, k, c, N) = Unit(n, N)
      <3>1. Range(<<Due>>) = {Due}
        BY Single
      <3>2. Due \in Tokens(<<Due>>, k, c, N) <=> n \in N
        BY <1>16, <3>1 DEF Tokens
      <3>. QED BY <3>2, EntersFew DEF Unit
    <2>2. \A N : Worth(Now, X, N) = Total(heap, k, acts, entries, c, X, N) - Unit(n, N)
      BY <1>11, <2>1
    <2>3. n \in Nodes
      BY <1>16, Popped DEF ForCase, Running, IsEvent
    <2>4. \A u \in Subs : Hold(n, 1)[u] = Unit(n, NodesIn(u))
      BY <2>3 DEF Hold, Unit, NodesIn
    <2>5. Unit(n, Nodes) = 1 /\ \A N : Unit(n, N) \in {0, 1}
      BY <2>3 DEF Unit
    <2> HIDE DEF n
    <2>6. Now.k.tokens = Worth(Now, X, Nodes) + 1
      BY <1>2, <1>4, <1>14, <2>2, <2>5 DEF Balance
    <2>7. ASSUME NEW u \in Subs PROVE Now.k.subs[u].tokens = Worth(Now, X, NodesIn(u)) + Hold(n, 1)[u]
      BY <1>2, <1>4, <1>14, <2>2, <2>4, <2>5 DEF Balance
    <2>8. Weighed(Now, X, 1, Hold(n, 1))
      BY <1>9, <1>12, <2>6, <2>7 DEF Weighed, Balance, Stocked, Worth
    <2>. QED BY <1>13, <1>16, <2>8 DEF Held, n
  <1>. QED BY <1>13, <1>15, <1>16 DEF k

\* Something of the case is left, so that it has not ended
Calls ==
    \/ Due.kind = "enter" /\ Fresh(cases[Due.case], Due)
    \/ \E i \in DOMAIN acts : acts[i].case = Due.case
    \/ \E e \in DOMAIN entries : entries[e].case = Due.case
    \/ \E u \in Subs : cases[Due.case].subs[u].tokens > 0

\* What is noted of the case that is due, as the handler finds it
LEMMA NowNoted ==
    ASSUME ForCase, Calls PROVE Noted(Now, sizes)
  <1> DEFINE k == cases[Due.case]
             c == Due.case
  <1>1. CaseSound(heap, k, acts, entries, blocked, c, sizes) /\ k.alive /\ model \in Models
    BY NowIs DEF ForCase, Here
  <1>2. PICK X : Balance(heap, k, acts, entries, blocked, c, X, 0, [u \in Subs |-> 0])
    BY <1>1 DEF CaseSound, Counted
  <1>3. k.endId # NoNode => k.tokens = 0
    BY <1>1 DEF CaseSound
  <1>4. Stock(heap, k, acts, entries, X)
    BY <1>2 DEF Balance
  <1> DEFINE T(N) == Total(heap, k, acts, entries, c, X, N)
  <1>5. /\ k.tokens = T(Nodes) /\ T(Nodes) \in Nat /\ \A u \in Subs : k.subs[u].tokens = T(NodesIn(u)) /\ T(NodesIn(u)) <= T(Nodes)
        /\ \A u \in Subs : T(NodesIn(u)) \in Nat
    <2>1. \A u \in Subs : NodesIn(u) \subseteq Nodes
      BY DEF NodesIn
    <2>2. \A N : T(N) \in Nat
      BY <1>4, TotalIs
    <2>3. \A u \in Subs : T(NodesIn(u)) <= T(Nodes)
      BY <1>4, <2>1, TotalMore
    <2>4. k.tokens = T(Nodes) + 0 /\ \A u \in Subs : k.subs[u].tokens = T(NodesIn(u)) + 0
      BY <1>2 DEF Balance
    <2> HIDE DEF T, k
    <2>. QED BY <2>2, <2>3, <2>4
  <1>6. /\ Placed(acts, Owners(acts), c, Nodes) \in Nat /\ Placed(entries, DOMAIN entries, c, Nodes) \in Nat
        /\ EntersAt(heap, k, c, Nodes) \in Nat
        /\ Placed(acts, Owners(acts), c, Nodes) + Placed(entries, DOMAIN entries, c, Nodes) + EntersAt(heap, k, c, Nodes) <= T(Nodes)
    <2>1. /\ T(Nodes) \in Nat /\ EntersAt(heap, k, c, Nodes) \in Nat
          /\ Placed(acts, Owners(acts), c, Nodes) \in Nat /\ Placed(entries, DOMAIN entries, c, Nodes) \in Nat
          /\ AtKeys(k.ands, Nodes) \in Nat /\ AtKeys(k.ors, Nodes \X Nat) \in Nat /\ AtKeys(X, Nodes) \in Nat
      BY <1>4, TotalIs
    <2> HIDE DEF k
    <2>. QED BY <2>1 DEF Total
  <1>7. /\ Entered(acts, entries, nextId, {}) /\ Acts(acts, nextAct, Len(cases)) /\ Sequence(heap) /\ heap # <<>>
        /\ IsFiniteSet(DOMAIN acts) /\ IsFiniteSet(DOMAIN entries) /\ IsEvent(Due, clock, nextAct, Len(cases))
    BY <1>4, Popped DEF ForCase, IInv, Ordered, Running, Stock
  <1>8. \A e \in DOMAIN entries : entries[e].case = c => Placed(entries, DOMAIN entries, c, Nodes) # 0
    <2>1. \A e \in DOMAIN entries : entries[e].node \in Nodes
      BY <1>7 DEF Entered
    <2>. QED BY <1>7, <2>1, PlacedIs
  <1>9. \A i \in DOMAIN acts : acts[i].case = c => T(Nodes) # 0
    <2>1. ASSUME NEW i \in DOMAIN acts, acts[i].case = c PROVE T(Nodes) # 0
      <3>1. acts[i].node \in Nodes
        BY <1>7 DEF Acts, IsAct
      <3>2. CASE acts[i].entry = 0
        <4>1. i \in Owners(acts) /\ IsFiniteSet(Owners(acts))
          BY <1>7, <3>2, FS_Subset DEF Owners
        <4>2. Placed(acts, Owners(acts), c, Nodes) # 0
          BY <2>1, <3>1, <4>1, PlacedIs
        <4> HIDE DEF T
        <4>. QED BY <1>5, <1>6, <4>2
      <3>3. CASE acts[i].entry # 0
        <4>1. acts[i].entry \in DOMAIN entries /\ entries[acts[i].entry].case = c
          BY <1>7, <2>1, <3>3 DEF Entered
        <4>2. Placed(entries, DOMAIN entries, c, Nodes) # 0
          BY <1>8, <4>1
        <4> HIDE DEF T
        <4>. QED BY <1>5, <1>6, <4>2
      <3>. QED BY <3>2, <3>3
    <2>. QED BY <2>1
  <1>10. T(Nodes) # 0
    <2>1. CASE Due.kind = "enter" /\ Fresh(k, Due)
      <3>1. Due \in Tokens(heap, k, c, Nodes)
        BY <1>7, <2>1, NowIs DEF Tokens, IsEvent
      <3>2. EntersAt(heap, k, c, Nodes) # 0
        BY <1>7, <3>1, NowIs, NumberNone DEF EntersAt
      <3> HIDE DEF T, k
      <3>. QED BY <1>5, <1>6, <3>2
    <2>2. CASE \E i \in DOMAIN acts : acts[i].case = Due.case
      BY <1>9, <2>2
    <2>3. CASE \E e \in DOMAIN entries : entries[e].case = Due.case
      <3>1. Placed(entries, DOMAIN entries, c, Nodes) # 0
        BY <1>8, <2>3
      <3> HIDE DEF T, k
      <3>. QED BY <1>5, <1>6, <3>1
    <2>4. CASE \E u \in Subs : k.subs[u].tokens > 0
      <3> HIDE DEF T, k
      <3>. QED BY <1>5, <2>4
    <2>. QED BY <2>1, <2>2, <2>3, <2>4 DEF Calls
  <1>11. k.tokens # 0
    <2> HIDE DEF T, k
    <2>. QED BY <1>5, <1>10
  <1>12. Going(Now.k)
    BY <1>3, <1>11, NowIs DEF Going
  <1>. QED BY <1>12, NowIs, NowTied, NowHeld DEF Noted

-----------------------------------------------------------------------------
(* From the event that is due to the next state *)

\* What is said of a state means the same in the next one: its tables
LEMMA SameTies ==
    ASSUME model' = model
    PROVE  \A A, L, N, h, na, ni, X : Ties(A, L, N, h, na, ni, X)' = Ties(A, L, N, h, na, ni, X)
  <1>1. \A e, x : Guards(e, x)' = Guards(e, x)
    BY DEF Guards, Borders, Range
  <1>2. \A A, N, E, na, ni : Bordered(A, N, E, na, ni)' = Bordered(A, N, E, na, ni)
    BY <1>1 DEF Bordered, Subs, Borders, Range, Returning
  <1>3. \A A, N, X : Populated(A, N, X)' = Populated(A, N, X)
    BY DEF Populated, Peopled
  <1>4. \A A : Kinds(A)' = Kinds(A)
    BY DEF Kinds, Type
  <1>5. \A A, L, E, na : Looped(A, L, E, na)' = Looped(A, L, E, na)
    BY DEF Looped, Returning
  <1>6. \A h : Lone(h)' = Lone(h) /\ Sequence(h)' = Sequence(h) /\ Range(h)' = Range(h)
    BY DEF Lone, NumberOf, Iterations, Returning, Sequence, Range
  <1>. QED BY <1>2, <1>3, <1>4, <1>5, <1>6 DEF Ties

\* ... the tokens of a case
LEMMA SameTotal ==
    ASSUME model' = model
    PROVE  /\ \A h, k, A, E, c, X, N : Total(h, k, A, E, c, X, N)' = Total(h, k, A, E, c, X, N)
           /\ \A u : NodesIn(u)' = NodesIn(u)
  <1>1. \A k, n : EpochAt(k, n)' = EpochAt(k, n)
    BY DEF EpochAt, Inside
  <1>2. \A k, e : Fresh(k, e)' = Fresh(k, e)
    BY <1>1 DEF Fresh, Inside
  <1>3. \A h, k, c, N : Tokens(h, k, c, N)' = Tokens(h, k, c, N)
    BY <1>2 DEF Tokens, Range
  <1>4. \A h, k, c, N : EntersAt(h, k, c, N)' = EntersAt(h, k, c, N)
    BY <1>3 DEF EntersAt, NumberOf
  <1>5. \A F, D, c, N : Placed(F, D, c, N)' = Placed(F, D, c, N)
    BY DEF Placed
  <1>6. \A A : Owners(A)' = Owners(A)
    BY DEF Owners
  <1>7. \A f, K : AtKeys(f, K)' = AtKeys(f, K)
    BY DEF AtKeys, Kept
  <1>8. \A h, k, A, E, c, X, N : Total(h, k, A, E, c, X, N)' = Total(h, k, A, E, c, X, N)
    BY <1>4, <1>5, <1>6, <1>7 DEF Total
  <1>9. \A u : NodesIn(u)' = NodesIn(u)
    BY DEF NodesIn, Round, Nodes, Inside, Range
  <1>. QED BY <1>8, <1>9

\* ... the cases
LEMMA SameCase ==
    ASSUME model' = model
    PROVE  \A h, k, A, E, B, c, sz : CaseSound(h, k, A, E, B, c, sz)' = CaseSound(h, k, A, E, B, c, sz)
  <1>1. \A f : Heaped(f)' = Heaped(f)
    BY DEF Heaped
  <1>2. \A k, sz : CaseIs(k, sz)' = CaseIs(k, sz)
    BY <1>1 DEF CaseIs, CaseFields, Subs, Nodes, Incoming, IsSub, IsMarks
  <1>3. Births' = Births /\ Subs' = Subs /\ Nodes' = Nodes /\ DeadEnds' = DeadEnds
    BY DEF Births, Subs, Nodes, DeadEnds, Inside, Starts, Range, Out, Type
  <1>4. \A k : Opens(k)' = Opens(k)
    BY <1>3 DEF Opens, OpensAt
  <1>5. \A X, B, c : Lost(X, B, c)' = Lost(X, B, c)
    BY <1>3 DEF Lost
  <1>6. \A h, k, A, E, X : Stock(h, k, A, E, X)' = Stock(h, k, A, E, X)
    BY <1>1 DEF Stock, Sequence, Range
  <1>7. \A h, k, A, E, B, c, X, m, d : Balance(h, k, A, E, B, c, X, m, d)' = Balance(h, k, A, E, B, c, X, m, d)
    BY <1>3, <1>5, <1>6, SameTotal DEF Balance
  <1>8. \A h, k, A, E, B, c : Counted(h, k, A, E, B, c)' = Counted(h, k, A, E, B, c)
    BY <1>3, <1>4, <1>7 DEF Counted
  <1>9. \A k, c, E : Epochs(k, c, E)' = Epochs(k, c, E)
    BY DEF Epochs, Inside, EpochAt
  <1>10. \A h : Range(h)' = Range(h)
    BY DEF Range
  <1>. QED BY <1>2, <1>8, <1>9, <1>10 DEF CaseSound

\* ... all of it
LEMMA SameSound ==
    ASSUME model' = model
    PROVE  \A h, S, A, L, E, na, ni, B, sz : SoundAt(h, S, A, L, E, na, ni, B, sz)' = SoundAt(h, S, A, L, E, na, ni, B, sz)
  <1>1. \A A, E, h, m : Marked(A, E, Range(h), m)' = Marked(A, E, Range(h), m)
    BY DEF Marked, IsMarks, Range
  <1>. QED BY <1>1, SameTies, SameCase DEF SoundAt

\* ... and the order of its events
LEMMA SameEarly ==
    ASSUME model' = model
    PROVE  \A h, A : Early(h, A)' = Early(h, A)
  <1>1. (\A b : HostOf(b)' = HostOf(b)) /\ Births' = Births
    BY DEF HostOf, Subs, Borders, Births, Starts, Inside, Range
  <1>2. \A e, i, x : Watched(e, i, x)' = Watched(e, i, x)
    BY <1>1 DEF Watched, Inside, Range
  <1>3. \A A, d, e : Misses(A, d, e)' = Misses(A, d, e)
    BY <1>2 DEF Misses
  <1>. QED BY <1>3 DEF Early

\* So the next state is sound if its values are
LEMMA NextSound ==
    ASSUME model' = model, NEW h, NEW S, NEW A, NEW L, NEW E, NEW na, NEW ni, NEW B, NEW sz,
           heap' = h, cases' = S, acts' = A, loops' = L, entries' = E, nextAct' = na, nextId' = ni, blocked' = B, sizes' = sz,
           SoundAt(h, S, A, L, E, na, ni, B, sz), Early(h, A)
    PROVE  Sound'
  BY SameSound, SameEarly DEF Sound

\* Longer sizes do for a case
LEMMA CaseLater ==
    ASSUME NEW sz, sz \in Seq(Nat \ {0}), NEW k, CaseIs(k, sz), NEW j \in Nat \ {0}
    PROVE  CaseIs(k, Append(sz, j))
  <1> DEFINE y == Append(sz, j)
  <1>1. Len(sz) \in Nat /\ Len(y) = Len(sz) + 1 /\ \A i \in 1 .. Len(sz) : y[i] = sz[i]
    BY AppendProperties, LenProperties
  <1> HIDE DEF y
  <1>2. 1 .. Len(sz) \subseteq 1 .. Len(y)
    BY <1>1
  <1>3. \A s : IsMarks(s, Len(sz)) => IsMarks(s, Len(y))
    <2>1. ASSUME NEW s, s \in Seq(1 .. Len(sz)) PROVE s \in Seq(1 .. Len(y))
      <3>1. Len(s) \in Nat /\ s = [i \in 1 .. Len(s) |-> s[i]] /\ \A i \in 1 .. Len(s) : s[i] \in 1 .. Len(sz)
        BY <2>1, LenProperties, ElementOfSeq
      <3>2. \A i \in 1 .. Len(s) : s[i] \in 1 .. Len(y)
        BY <1>2, <3>1
      <3>. QED BY <3>1, <3>2, IsASeq
    <2>. QED BY <2>1 DEF IsMarks
  <1>4. \A u \in Subs : IsSub(k.subs[u], Len(y))
    BY <1>3 DEF CaseIs, IsSub
  <1>5. DOMAIN k.ors \subseteq Nodes \X (1 .. Len(y)) /\ \A key \in DOMAIN k.ors : k.ors[key] < y[key[2]]
    <2>1. DOMAIN k.ors \subseteq Nodes \X (1 .. Len(sz)) /\ \A key \in DOMAIN k.ors : k.ors[key] < sz[key[2]]
      BY DEF CaseIs
    <2>2. \A key \in DOMAIN k.ors : key[2] \in 1 .. Len(sz)
      BY <2>1
    <2>. QED BY <1>1, <1>2, <2>1, <2>2
  <1>6. CaseIs(k, y)
    BY <1>4, <1>5 DEF CaseIs
  <1>. QED BY <1>6 DEF y

\* What a handler leaves behind
Leftover(w, sz) ==
    /\ Good(w, {}) /\ Tied(w, {}) /\ Others(w) /\ Marked(w.acts, w.entries, Coming(w), Len(sz))
    /\ CaseSound(All(w), w.k, w.acts, w.entries, w.blocked, Due.case, sz)
    /\ sz \in Seq(Nat \ {0}) /\ \A c \in DOMAIN cases : CaseIs(cases[c], sz)

\* Its events are the same in the heap
LEMMA HeapShuffles ==
    ASSUME IInv, Running, Here, NEW w, Good(w, {}), NEW g \in PushedAll(Tail(heap), w.events)
    PROVE  Shuffles(All(w), g) /\ (InTime(w.acts, Tail(heap), w.events) => Early(g, w.acts))
  <1> DEFINE h == Tail(heap)
  <1>1. heap # <<>>
    BY DEF Running
  <1>2. Sequence(h) /\ Sorted(h)
    BY <1>1, Popped
  <1>3. Sequence(w.events) /\ Once(h \o w.events) /\ Timed(Range(h) \cup Range(w.events))
    BY DEF Good, Coming, Timed, Events, IsEvent
  <1>4. g \in PushedAll(h, w.events)
    OBVIOUS
  <1> HIDE DEF h
  <1>5. /\ Sequence(g) /\ Range(g) = Range(h) \cup Range(w.events)
        /\ \A S : NumberOf(g, S) = NumberOf(h, S) + NumberOf(w.events, S)
        /\ \A A : InTime(A, h, w.events) => Early(g, A)
    BY ONLY <1>2, <1>3, <1>4, PushedAllOf
  <1>6. /\ Sequence(h \o w.events) /\ Range(h \o w.events) = Range(h) \cup Range(w.events)
        /\ \A S : NumberOf(h \o w.events, S) = NumberOf(h, S) + NumberOf(w.events, S)
    <2>1. Sequence(h \o w.events) /\ Range(h \o w.events) = Range(h) \cup Range(w.events)
      BY <1>2, <1>3, Concat
    <2>2. \A S : NumberOf(h \o w.events, S) = NumberOf(h, S) + NumberOf(w.events, S)
      BY ONLY <1>2, <1>3, NumberConcat
    <2>. QED BY <2>1, <2>2
  <1>7. All(w) = h \o w.events
    BY DEF All, h
  <1>. QED BY <1>5, <1>6, <1>7 DEF Shuffles, h

\* The cases it has nothing to do with
LEMMA OtherCases ==
    ASSUME ForCase, NEW w, Good(w, {}), Others(w), NEW c \in DOMAIN cases \ {Due.case}
    PROVE  CaseSound(All(w), cases[c], w.acts, w.entries, w.blocked, c, sizes)
  <1> DEFINE k == cases[c]
             g == Tail(heap)
             f == <<Due>>
             v == w.events
  <1>1. CaseSound(heap, k, acts, entries, blocked, c, sizes)
    BY DEF ForCase, Sound, SoundAt
  <1>2. Sequence(g) /\ Sequence(f) /\ heap = f \o g /\ Sequence(v) /\ All(w) = g \o v /\ Range(heap) = {Due} \cup Range(g)
    BY NowIs DEF ForCase, Here, Good, All
  <1>3. \A e \in Range(f) : ~(e.kind = "enter" /\ e.case = c)
    BY Single
  <1>4. \A e \in Range(v) : ~(e.kind = "enter" /\ e.case = c)
    BY DEF Others
  <1>5. IsFiniteSet(DOMAIN w.acts) /\ IsFiniteSet(DOMAIN w.entries)
    <2>1. w.nextAct \in Nat /\ DOMAIN w.acts \subseteq 1 .. w.nextAct - 1
      BY DEF Good, Acts
    <2>2. w.nextId \in Nat /\ DOMAIN w.entries \subseteq 1 .. w.nextId - 1
      BY DEF Good, Entered
    <2>3. IsFiniteSet(1 .. w.nextAct - 1) /\ IsFiniteSet(1 .. w.nextId - 1)
      BY <2>1, <2>2, FS_Interval
    <2>. QED BY <2>1, <2>2, <2>3, FS_Subset
  <1> HIDE DEF k, f, g, v
  <1>6. \A N : EntersAt(g \o v, k, c, N) = EntersAt(heap, k, c, N)
    <2>1. ASSUME NEW N PROVE EntersAt(g \o v, k, c, N) = EntersAt(heap, k, c, N)
      <3>1. EntersAt(g \o v, k, c, N) = EntersAt(g, k, c, N) + EntersAt(v, k, c, N) /\ EntersAt(g, k, c, N) \in Nat
        BY <1>2, EntersConcat
      <3>2. EntersAt(f \o g, k, c, N) = EntersAt(f, k, c, N) + EntersAt(g, k, c, N)
        BY ONLY <1>2, EntersConcat
      <3>3. EntersAt(v, k, c, N) = 0 /\ EntersAt(f, k, c, N) = 0
        BY <1>2, <1>3, <1>4, EntersFew
      <3>. QED BY <1>2, <3>1, <3>2, <3>3
    <2>. QED BY <2>1
  <1>7. Sequence(g \o v) /\ Range(g \o v) = Range(g) \cup Range(v)
    BY <1>2, Concat
  <1>8. Unconcerned(heap, acts, entries, blocked, All(w), w.acts, w.entries, w.blocked, c, k)
    <2>1. \A e \in Range(All(w)) : e.kind = "enter" /\ e.case = c => e \in Range(heap)
      BY <1>2, <1>4, <1>7
    <2>2. /\ \A i : (i \in DOMAIN w.acts /\ w.acts[i].case = c) <=> (i \in DOMAIN acts /\ acts[i].case = c)
          /\ \A i \in DOMAIN w.acts : w.acts[i].case = c => w.acts[i].node = acts[i].node /\ w.acts[i].entry = acts[i].entry
      BY DEF Others, AlikeAt
    <2>3. /\ \A i : (i \in DOMAIN w.entries /\ w.entries[i].case = c) <=> (i \in DOMAIN entries /\ entries[i].case = c)
          /\ \A i \in DOMAIN w.entries : w.entries[i].case = c => w.entries[i].node = entries[i].node
      BY DEF Others
    <2>4. \A n : <<n, c>> \in w.blocked <=> <<n, c>> \in blocked
      BY DEF Others
    <2>. QED BY <1>2, <1>5, <1>6, <1>7, <2>1, <2>2, <2>3, <2>4 DEF Unconcerned
  <1>9. CaseSound(All(w), k, w.acts, w.entries, w.blocked, c, sizes)
    BY <1>1, <1>8, StillCase
  <1>. QED BY <1>9 DEF k

\* The next state
LEMMA LeftSound ==
    ASSUME ForCase, NEW w, NEW sz, Leftover(w, sz), Becomes(w), sizes' = sz
    PROVE  Sound' /\ outcome' = "running"
  <1> DEFINE S == [cases EXCEPT ![Due.case] = w.k]
  <1>1. IInv /\ Running /\ Here /\ Sound /\ Good(w, {}) /\ Others(w) /\ Tied(w, {})
    BY DEF ForCase, Leftover
  <1>2. Sequence(cases) /\ DOMAIN cases = 1 .. Len(cases) /\ Due.case \in DOMAIN cases /\ Len(cases) \in Nat
    BY <1>1, SequenceOf DEF IInv, Here, Sequence
  <1>3. /\ DOMAIN S = DOMAIN cases /\ S[Due.case] = w.k /\ \A c \in DOMAIN cases \ {Due.case} : S[c] = cases[c]
    BY <1>2
  <1>4. Len(S) = Len(cases)
    BY <1>2
  <1>5. /\ heap' \in PushedAll(Tail(heap), w.events)
        /\ acts' = w.acts /\ loops' = w.loops /\ entries' = w.entries /\ nextAct' = w.nextAct /\ nextId' = w.nextId
        /\ blocked' = w.blocked /\ cases' = S /\ model' = model /\ outcome' = "running"
    BY <1>1 DEF Becomes, Running
  <1> HIDE DEF S
  <1>6. \A c \in DOMAIN S : CaseSound(All(w), S[c], w.acts, w.entries, w.blocked, c, sz)
    <2>1. CaseSound(All(w), S[Due.case], w.acts, w.entries, w.blocked, Due.case, sz)
      BY <1>3 DEF Leftover
    <2>2. ASSUME NEW c \in DOMAIN cases \ {Due.case} PROVE CaseSound(All(w), S[c], w.acts, w.entries, w.blocked, c, sz)
      <3>1. CaseSound(All(w), cases[c], w.acts, w.entries, w.blocked, c, sizes)
        BY <1>1, OtherCases
      <3>2. CaseIs(cases[c], sz)
        BY DEF Leftover
      <3>. QED BY <1>3, <3>1, <3>2 DEF CaseSound
    <2>. QED BY <1>3, <2>1, <2>2
  <1>7. \A n, c : <<n, c>> \in w.blocked => c \in 1 .. Len(S)
    <2>1. \A n, c : <<n, c>> \in blocked => c \in 1 .. Len(cases)
      BY <1>1 DEF Sound, SoundAt
    <2>. QED BY <1>1, <1>2, <1>4, <2>1 DEF Others
  <1>8. Shuffles(All(w), heap') /\ Early(heap', w.acts)
    <2>1. InTime(w.acts, Tail(heap), w.events)
      BY <1>1 DEF Tied
    <2>. QED BY <1>1, <1>5, <2>1, HeapShuffles
  <1>9. Range(All(w)) = Coming(w)
    <2>1. Sequence(Tail(heap)) /\ Sequence(w.events)
      BY <1>1 DEF Here, Good
    <2>. QED BY <2>1, Concat DEF All, Coming
  <1>10. SoundAt(All(w), S, w.acts, w.loops, w.entries, w.nextAct, w.nextId, w.blocked, sz)
    BY <1>1, <1>6, <1>7, <1>9 DEF SoundAt, Leftover, Tied
  <1>11. SoundAt(heap', S, w.acts, w.loops, w.entries, w.nextAct, w.nextId, w.blocked, sz)
    BY <1>8, <1>10, ShuffledSound
  <1>12. Sound'
    BY <1>5, <1>8, <1>11, NextSound
  <1>. QED BY <1>5, <1>12

\* A handler that has no token in hand any more leaves the case as it has to be
LEMMA HeldLeft ==
    ASSUME Here, NEW w, NEW sz, Proper(w, sz, {}), NEW n, Held(w, n, 0), sz \in Seq(Nat \ {0}),
           \A c \in DOMAIN cases : CaseIs(cases[c], sz)
    PROVE  Leftover(w, sz)
  <1>1. PICK X : Weighed(w, X, 0, Hold(n, 0))
    BY DEF Held
  <1>2. \A u \in Subs : Hold(n, 0)[u] = [v \in Subs |-> 0][u]
    BY DEF Hold
  <1>3. Balance(All(w), w.k, w.acts, w.entries, w.blocked, Due.case, X, 0, [u \in Subs |-> 0])
    BY <1>1, <1>2 DEF Weighed, Balance
  <1>4. Counted(All(w), w.k, w.acts, w.entries, w.blocked, Due.case)
    BY <1>3 DEF Counted, Held
  <1>5. Range(All(w)) = Coming(w)
    <2>1. Sequence(Tail(heap)) /\ Sequence(w.events)
      BY DEF Here, Proper, Good
    <2>. QED BY <2>1, Concat DEF All, Coming
  <1>6. CaseSound(All(w), w.k, w.acts, w.entries, w.blocked, Due.case, sz)
    BY <1>4, <1>5 DEF CaseSound, Proper, Noted, Going
  <1>. QED BY <1>6 DEF Leftover, Proper, Noted

-----------------------------------------------------------------------------
(* Pass, Choose, Stuck, End, Race, And and Or: the token goes on, waits or ends *)

\* The event of a case that is served, and what its handler begins with
LEMMA OnDuty ==
    ASSUME IInv, Sound, NEW kind, Serve(kind), Within(Due), kind \in {"enter", "done", "boundary", "multiBoundary", "deadline"}
    PROVE  /\ ForCase /\ Here /\ Due.kind = kind /\ Due.node \in Nodes /\ Tied(Now, {}) /\ Noted(Now, sizes) /\ Due \in Range(heap)
           /\ kind # "done" => Proper(Now, sizes, {}) /\ Good(Now, {})
           /\ kind = "enter" => /\ Held(Now, Due.node, 1) /\ IsMarks(Due.marks, Len(sizes)) /\ Due.times \subseteq Nat
           /\ kind # "enter" => \A n : Held(Now, n, 0)
           /\ \A w : Good(w, {}) /\ Becomes(w) => IInv'
  <1>1. Running /\ Due.kind = kind /\ heap # <<>> /\ outcome = "running" /\ Live(Due) /\ clock' = Due.t
    BY DEF Serve, Running
  <1>2. IsEvent(Due, clock, nextAct, Len(cases)) /\ Due \in Range(heap)
    BY <1>1, Popped
  <1>3. Here /\ (kind # "done" => Good(Now, {}))
    <2>1. CASE kind = "done"
      BY <1>1, <2>1, Starting
    <2>2. CASE kind # "done"
      BY <1>1, <2>2, Starting
    <2>. QED BY <2>1, <2>2
  <1>4. cases[Due.case].alive
    BY DEF Within
  <1>5. ForCase
    BY <1>1, <1>3, <1>4 DEF ForCase
  <1>6. /\ Ties(acts, loops, entries, heap, nextAct, nextId, {}) /\ Marked(acts, entries, Range(heap), Len(sizes))
        /\ Looped(acts, loops, Range(heap), nextAct) /\ Bordered(acts, entries, Range(heap), nextAct, nextId)
    BY DEF Sound, SoundAt, Ties
  <1>7. Calls
    <2>1. CASE kind = "enter"
      BY <1>1, <1>4, <2>1 DEF Live, Calls, Fresh
    <2>2. CASE kind = "done"
      <3>1. Due.act \in DOMAIN acts
        BY <1>1, <2>2 DEF Live
      <3>2. acts[Due.act].case = Due.case
        BY <1>1, <1>2, <2>2, <3>1 DEF IInv, Ordered, OneEnd
      <3>. QED BY <3>1, <3>2 DEF Calls
    <2>3. CASE kind = "boundary"
      <3> DEFINE i == Target(Due.act)
      <3>1. i \in DOMAIN acts
        BY <1>1, <2>3 DEF Live
      <3>2. i = Due.act \/ acts[i].loop = Due.act
        BY <1>6, <3>1 DEF Target, Looped
      <3>3. acts[i].case = Due.case
        BY <1>1, <1>2, <1>6, <2>3, <3>1, <3>2 DEF Bordered, Guards
      <3>. QED BY <3>1, <3>3 DEF Calls
    <2>4. CASE kind = "multiBoundary"
      <3>1. Due.act \in DOMAIN entries
        BY <1>1, <2>4 DEF Live
      <3>2. entries[Due.act].case = Due.case
        BY <1>1, <1>2, <1>6, <2>4, <3>1 DEF Bordered, Guards
      <3>. QED BY <3>1, <3>2 DEF Calls
    <2>5. CASE kind = "deadline"
      <3> DEFINE u == HostOf(Due.node)
      <3>1. cases[Due.case].subs[u].instance = Due.act
        BY <1>1, <2>5 DEF Live
      <3>2. Due.act \in 1 .. nextId - 1 /\ \E v \in Subs : Due.node \in Range(Borders[v])
        BY <1>1, <1>2, <1>6, <2>5 DEF Bordered
      <3>3. u \in Subs /\ Due.act # 0
        BY <3>2 DEF HostOf
      <3>4. Opens(cases[Due.case])
        BY <1>5, <1>4, NowIs DEF CaseSound, Counted
      <3>. QED BY <3>1, <3>3, <3>4 DEF Opens, OpensAt, Calls
    <2>. QED BY <2>1, <2>2, <2>3, <2>4, <2>5
  <1>8. Tied(Now, {}) /\ Noted(Now, sizes)
    BY <1>5, <1>7, NowTied, NowNoted
  <1>9. kind # "done" => Proper(Now, sizes, {})
    BY <1>3, <1>8 DEF Proper
  <1>10. kind = "enter" => Held(Now, Due.node, 1) /\ IsMarks(Due.marks, Len(sizes)) /\ Due.times \subseteq Nat
    <2>1. CASE kind = "enter"
      <3>1. Fresh(cases[Due.case], Due)
        BY <1>1, <1>4, <2>1 DEF Live, Fresh
      <3>. QED BY <1>1, <1>2, <1>5, <1>6, <2>1, <3>1, NowHeld DEF Marked, IsEvent
    <2>. QED BY <2>1
  <1>11. kind # "enter" => \A n : Held(Now, n, 0)
    BY <1>1, <1>5, NowHeld
  <1>12. \A w : Good(w, {}) /\ Becomes(w) => IInv'
    BY <1>1, <1>3, Becoming
  <1>. QED BY <1>1, <1>2, <1>3, <1>5, <1>8, <1>9, <1>10, <1>11, <1>12 DEF IsEvent

\* The next state, if nothing is in hand any more
LEMMA HeldSound ==
    ASSUME ForCase, NEW w, Proper(w, sizes, {}), \E n \in Nodes : Held(w, n, 0), Becomes(w), UNCHANGED sizes
    PROVE  Sound' /\ outcome' = "running"
  <1>1. /\ sizes \in Seq(Nat \ {0}) /\ Here
        /\ \A c \in DOMAIN cases : CaseIs(cases[c], sizes)
    BY DEF ForCase, Sound, SoundAt, CaseSound
  <1>2. Leftover(w, sizes)
    BY <1>1, HeldLeft
  <1>. QED BY <1>2, LeftSound

\* ... and other activations
LEMMA HeldSoundNext ==
    ASSUME ForCase, NEW w, NEW j \in Nat \ {0}, Proper(w, Append(sizes, j), {}), \E n \in Nodes : Held(w, n, 0), Becomes(w),
           sizes' = Append(sizes, j)
    PROVE  Sound' /\ outcome' = "running"
  <1>1. /\ sizes \in Seq(Nat \ {0}) /\ Here
        /\ \A c \in DOMAIN cases : CaseIs(cases[c], sizes)
    BY DEF ForCase, Sound, SoundAt, CaseSound
  <1>2. Append(sizes, j) \in Seq(Nat \ {0})
    BY <1>1, AppendProperties
  <1>3. \A c \in DOMAIN cases : CaseIs(cases[c], Append(sizes, j))
    BY <1>1, CaseLater
  <1>4. Leftover(w, Append(sizes, j))
    BY <1>1, <1>2, <1>3, HeldLeft
  <1>. QED BY <1>4, LeftSound

\* A token passes a node that keeps none
LEMMA PassSound == IInv /\ Sound /\ Pass => Sound' /\ outcome' = "running"
  <1> SUFFICES ASSUME IInv, Sound, Pass PROVE Sound' /\ outcome' = "running"
    OBVIOUS
  <1>1. /\ Serve("enter") /\ Within(Due) /\ Type[Due.node] \in {"start", "throw", "xor"} /\ UNCHANGED sizes
    BY DEF Pass, ServeNode
  <1>2. PICK w \in Forward(Now, Due.node, Due.marks) : Becomes(w)
    BY DEF Pass
  <1>3. /\ ForCase /\ Here /\ Proper(Now, sizes, {}) /\ Held(Now, Due.node, 1) /\ IsMarks(Due.marks, Len(sizes)) /\ Due.node \in Nodes
    BY <1>1, OnDuty
  <1>4. Type[Due.node] \notin {"end", "terminate"}
    BY <1>1
  <1>5. Proper(w, sizes, {}) /\ \E n \in Nodes : Held(w, n, 0)
    BY <1>2, <1>3, <1>4, ForwardHeld
  <1>. QED BY <1>1, <1>2, <1>3, <1>5, HeldSound

\* A token leaves through one of several flows
LEMMA ChooseSound == IInv /\ Sound /\ Choose => Sound' /\ outcome' = "running"
  <1> SUFFICES ASSUME IInv, Sound, Choose PROVE Sound' /\ outcome' = "running"
    OBVIOUS
  <1>1. /\ Serve("enter") /\ Within(Due) /\ UNCHANGED sizes
    BY DEF Choose, ServeNode
  <1>2. PICK target \in Range(Out[Due.node]) :
           \E w \in Emit(Now, Due.node, <<target>>, Due.marks) : Becomes(w)
    BY DEF Choose
  <1>3. PICK w \in Emit(Now, Due.node, <<target>>, Due.marks) : Becomes(w)
    BY <1>2
  <1>4. /\ ForCase /\ Here /\ Proper(Now, sizes, {}) /\ Held(Now, Due.node, 1) /\ IsMarks(Due.marks, Len(sizes)) /\ Due.node \in Nodes
    BY <1>1, OnDuty
  <1>5. target \in Nodes
    <2>1. Out[Due.node] \in Seq(Nodes)
      BY <1>4, Statics DEF Here
    <2>. QED BY <2>1, <1>2, SequenceOf
  <1> DEFINE targets == <<target>>
             none == {}
  <1>6. targets \in Seq(Nodes) /\ none \subseteq Nat /\ Len(targets) = 1
    BY <1>5
  <1>7. w \in Sent(Now, Due.node, targets, Due.marks, none)
    BY <1>3 DEF Emit
  <1> HIDE DEF targets, none
  <1>8. Held(Now, Due.node, Len(targets))
    BY <1>4, <1>6
  <1>9. Proper(w, sizes, {}) /\ \E n \in Nodes : Held(w, n, 0)
    BY <1>4, <1>6, <1>7, <1>8, SentHeld
  <1>. QED BY <1>1, <1>3, <1>4, <1>9, HeldSound

\* Tokens are counted as they come or go, in a case of which everything is known
Gains(w, sz, n, l, j) ==
    /\ Proper(w, sz, {}) /\ n \in Nodes /\ l \in Int /\ j \in Int /\ Held(w, n, l)
    /\ j > 0 => l > 0 \/ \A u \in Round(n) : w.k.subs[u].tokens > 0

\* Those tokens are in hand then, and everything else of the work is as it was
LEMMA GainProper ==
    ASSUME Here, NEW w, NEW sz, NEW n, NEW l, NEW j, Gains(w, sz, n, l, j), NEW x, x = Gain(w, n, j)
    PROVE  /\ Proper(x, sz, {}) /\ Held(x, n, l + j) /\ x.k.tokens = w.k.tokens + j
           /\ DOMAIN x = WorkFields /\ x.acts = w.acts /\ x.loops = w.loops /\ x.entries = w.entries /\ x.blocked = w.blocked
           /\ x.events = w.events /\ x.nextAct = w.nextAct /\ x.nextId = w.nextId /\ x.pending = w.pending
  <1>1. /\ Good(w, {}) /\ Noted(w, sz) /\ CaseIs(w.k, sz) /\ Going(w.k) /\ DOMAIN w = WorkFields /\ w.k.instant = Due.t
        /\ n \in Nodes /\ l \in Int /\ j \in Int /\ Held(w, n, l)
    BY DEF Gains, Proper, Noted, Good
  <1>2. DOMAIN w.k = CaseFields
    BY <1>1 DEF CaseIs
  <1>3. /\ Held(x, n, l + j) /\ CaseIs(x.k, sz) /\ x.k.tokens = w.k.tokens + j
        /\ \A u \in Subs : x.k.subs[u].epoch = w.k.subs[u].epoch
    <2>1. j > 0 => l > 0 \/ \A u \in Round(n) : w.k.subs[u].tokens > 0
      BY DEF Gains
    <2>. QED BY <1>1, <2>1, GainHeld
  <1> DEFINE p == [[w.k EXCEPT !.tokens = @ + j] EXCEPT
                     !.subs = [u \in Subs |-> IF u \in Range(Inside[n]) THEN Moved(@[u], j) ELSE @[u]]]
  <1>4. x = [w EXCEPT !.k = p]
    BY <1>1, <1>2 DEF Gain, WorkFields
  <1>5. p.alive = w.k.alive /\ p.endId = w.k.endId /\ p.instant = w.k.instant /\ DOMAIN p = CaseFields
    BY <1>2 DEF CaseFields
  <1> HIDE DEF p
  <1>6. /\ DOMAIN x = WorkFields /\ x.acts = w.acts /\ x.loops = w.loops /\ x.entries = w.entries /\ x.blocked = w.blocked
        /\ x.events = w.events /\ x.nextAct = w.nextAct /\ x.nextId = w.nextId /\ x.pending = w.pending /\ x.k = p
    BY <1>1, <1>4 DEF WorkFields
  <1>7. Retold(w, x)
    BY <1>5, <1>6 DEF Retold, CaseFields
  <1>8. Recounts(w, x, sz)
    <2>1. Going(x.k)
      BY <1>1, <1>5, <1>6 DEF Going
    <2>2. \A u \in Subs : w.k.subs[u].epoch <= x.k.subs[u].epoch
      BY <1>1, <1>3 DEF CaseIs, IsSub
    <2>. QED BY <2>1, <2>2, <1>3, <1>6 DEF Recounts
  <1>9. Proper(x, sz, {})
    <2>1. Proper(w, sz, {})
      BY DEF Gains
    <2>. QED BY <2>1, <1>6, <1>7, <1>8, RecountedProper
  <1>. QED BY <1>3, <1>6, <1>9

\* A token comes to a node it cannot leave
LEMMA StuckSound == IInv /\ Sound /\ Stuck => Sound' /\ outcome' = "running"
  <1> SUFFICES ASSUME IInv, Sound, Stuck PROVE Sound' /\ outcome' = "running"
    OBVIOUS
  <1> DEFINE x == [Now EXCEPT !.blocked = @ \cup {<<Due.node, Due.case>>}]
             n == Due.node
  <1>1. Serve("enter") /\ Within(Due) /\ Becomes(x) /\ UNCHANGED sizes
    BY DEF Stuck, ServeNode
  <1>2. /\ ForCase /\ Here /\ Proper(Now, sizes, {}) /\ Held(Now, n, 1) /\ n \in Nodes /\ Good(Now, {})
    BY <1>1, OnDuty
  <1>3. DOMAIN Now = WorkFields
    BY <1>2 DEF Good
  <1>4. /\ DOMAIN x = WorkFields /\ x.k = Now.k /\ x.acts = Now.acts /\ x.loops = Now.loops /\ x.entries = Now.entries
        /\ x.events = Now.events /\ x.nextAct = Now.nextAct /\ x.nextId = Now.nextId /\ x.pending = Now.pending
        /\ x.blocked = Now.blocked \cup {<<n, Due.case>>}
    BY <1>3 DEF WorkFields
  <1> HIDE DEF x, n
  <1>5. Retold(Now, x)
    BY <1>2, <1>4 DEF Retold, Good
  <1>6. Good(x, {})
    BY <1>2, <1>5, Retelling
  <1>7. \A m, c : <<m, c>> \in x.blocked <=> <<m, c>> \in Now.blocked \/ (m = n /\ c = Due.case)
    BY <1>4
  <1>8. Proper(x, sizes, {})
    <2>1. Tied(x, {})
      BY <1>2, <1>4 DEF Proper, Tied, All
    <2>2. Others(x)
      <3>1. Others(Now)
        BY <1>2 DEF Proper, Noted
      <3>. QED BY <3>1, <1>4, <1>7 DEF Others
    <2>3. Noted(x, sizes)
      BY <2>2, <1>2, <1>4 DEF Proper, Noted, Coming
    <2>. QED BY <1>6, <2>1, <2>3 DEF Proper
  <1>9. Held(x, n, 0)
    <2>1. Loses(Now, x, n)
      BY <1>4, <1>7 DEF Loses
    <2>2. Held(x, n, 1 - 1)
      BY <1>2, <2>1, LostHeld
    <2>. QED BY <2>2
  <1>. QED BY <1>1, <1>2, <1>8, <1>9, HeldSound DEF x

\* A token comes to an end
LEMMA EndSound == IInv /\ Sound /\ End => Sound' /\ outcome' = "running"
  <1> SUFFICES ASSUME IInv, Sound, End PROVE Sound' /\ outcome' = "running"
    OBVIOUS
  <1> DEFINE w == Gain(Now, Due.node, -1)
             x == [w EXCEPT !.k.endId = IF w.k.tokens <= 0 THEN Due.node ELSE @]
             n == Due.node
  <1>1. Serve("enter") /\ Within(Due) /\ Becomes(x) /\ UNCHANGED sizes
    BY DEF End, ServeNode
  <1>2. /\ ForCase /\ Here /\ Proper(Now, sizes, {}) /\ Held(Now, n, 1) /\ n \in Nodes
    BY <1>1, OnDuty
  <1> HIDE DEF w, n
  <1>3. Proper(w, sizes, {}) /\ Held(w, n, 0)
    <2> DEFINE j == -1
    <2>1. j \in Int /\ ~(j > 0) /\ 1 + j = 0
      OBVIOUS
    <2>2. w = Gain(Now, n, j)
      BY DEF w, n
    <2> HIDE DEF j
    <2>3. Gains(Now, sizes, n, 1, j)
      BY <1>2, <2>1 DEF Gains
    <2>4. Proper(w, sizes, {}) /\ Held(w, n, 1 + j)
      BY <1>2, <2>2, <2>3, GainProper
    <2>. QED BY <2>1, <2>4
  <1>4. /\ Good(w, {}) /\ DOMAIN w = WorkFields /\ CaseIs(w.k, sizes) /\ Going(w.k) /\ w.k.instant = Due.t
    BY <1>3 DEF Proper, Good, Noted
  <1>5. DOMAIN w.k = CaseFields
    BY <1>4 DEF CaseIs
  <1> DEFINE p == [w.k EXCEPT !.endId = IF w.k.tokens <= 0 THEN Due.node ELSE @]
  <1>6. x = [w EXCEPT !.k = p]
    BY <1>4, <1>5 DEF WorkFields
  <1>7. /\ p.endId # NoNode => w.k.tokens <= 0
        /\ p.alive = TRUE /\ p.tokens = w.k.tokens /\ p.subs = w.k.subs /\ p.ands = w.k.ands /\ p.ors = w.k.ors
        /\ p.instant = Due.t /\ DOMAIN p = CaseFields
    BY <1>4, <1>5 DEF CaseFields, Going, n
  <1> HIDE DEF p
  <1>8. /\ DOMAIN x = WorkFields /\ x.k = p /\ x.acts = w.acts /\ x.loops = w.loops /\ x.entries = w.entries
        /\ x.events = w.events /\ x.nextAct = w.nextAct /\ x.nextId = w.nextId /\ x.pending = w.pending
        /\ x.blocked = w.blocked
    BY <1>4, <1>6 DEF WorkFields
  <1> HIDE DEF x
  <1>9. Retold(w, x) /\ Good(x, {})
    <2>1. Retold(w, x)
      BY <1>4, <1>7, <1>8 DEF Retold, CaseFields
    <2>. QED BY <1>4, <2>1, Retelling
  <1>10. CaseIs(p, sizes)
    BY <1>4, <1>7 DEF CaseIs
  <1>11. All(x) = All(w) /\ Coming(x) = Coming(w)
    BY <1>8 DEF All, Coming
  <1>12. Leftover(w, sizes)
    <2>1. /\ sizes \in Seq(Nat \ {0}) /\ \A c \in DOMAIN cases : CaseIs(cases[c], sizes)
      BY <1>2 DEF ForCase, Sound, SoundAt, CaseSound
    <2>. QED BY <1>2, <1>3, <2>1, HeldLeft
  <1>13. CaseSound(All(x), x.k, x.acts, x.entries, x.blocked, Due.case, sizes)
    <2>1. CaseSound(All(w), w.k, w.acts, w.entries, w.blocked, Due.case, sizes) /\ w.k.alive
      BY <1>4, <1>12 DEF Leftover, Going
    <2>2. PICK X : Balance(All(w), w.k, w.acts, w.entries, w.blocked, Due.case, X, 0, [u \in Subs |-> 0])
      BY <2>1 DEF CaseSound, Counted
    <2>3. w.k.tokens = Worth(w, X, Nodes) + 0 /\ Worth(w, X, Nodes) \in Nat
      BY <2>2, TotalIs DEF Balance, Worth
    <2>4. p.endId # NoNode => p.tokens = 0
      BY <1>7, <2>3
    <2>5. \A N : Total(All(w), p, w.acts, w.entries, Due.case, X, N) = Total(All(w), w.k, w.acts, w.entries, Due.case, X, N)
      <3>1. \A e : Fresh(p, e) <=> Fresh(w.k, e)
        BY <1>7 DEF Fresh, EpochAt
      <3>2. \A N : Tokens(All(w), p, Due.case, N) = Tokens(All(w), w.k, Due.case, N)
        BY <3>1 DEF Tokens
      <3>. QED BY <1>7, <3>2 DEF Total, EntersAt
    <2>6. Balance(All(w), p, w.acts, w.entries, w.blocked, Due.case, X, 0, [u \in Subs |-> 0])
      BY <1>7, <2>2, <2>5 DEF Balance, Stock
    <2>7. Counted(All(w), p, w.acts, w.entries, w.blocked, Due.case)
      <3>1. Opens(w.k)
        BY <2>1 DEF CaseSound, Counted
      <3>. QED BY <1>7, <2>6, <3>1 DEF Counted, Opens
    <2>8. Epochs(p, Due.case, Range(All(w)))
      <3>1. Epochs(w.k, Due.case, Range(All(w)))
        BY <2>1 DEF CaseSound
      <3>. QED BY <1>7, <3>1 DEF Epochs, EpochAt
    <2>9. CaseSound(All(w), p, w.acts, w.entries, w.blocked, Due.case, sizes)
      BY <1>7, <1>10, <2>4, <2>7, <2>8 DEF CaseSound
    <2>. QED BY <1>8, <1>11, <2>9
  <1>14. Leftover(x, sizes)
    <2>1. Tied(x, {}) /\ Others(x)
      BY <1>8, <1>11, <1>12 DEF Leftover, Tied, Others
    <2>. QED BY <1>8, <1>9, <1>11, <1>12, <1>13, <2>1 DEF Leftover
  <1>. QED BY <1>1, <1>2, <1>14, LeftSound DEF x

\* A token comes to an event-based gateway
LEMMA RaceSound == IInv /\ Sound /\ Race => Sound' /\ outcome' = "running"
  <1> SUFFICES ASSUME IInv, Sound, Race PROVE Sound' /\ outcome' = "running"
    OBVIOUS
  <1> DEFINE n == Due.node
             flows == Out[n]
  <1>1. Serve("enter") /\ Within(Due) /\ UNCHANGED sizes
    BY DEF Race, ServeNode
  <1>2. PICK delay \in [Racers(n) -> UNION {Times[flows[j]] : j \in Racers(n)}], won \in Racers(n) :
          /\ delay[won] \in Times[flows[won]]
          /\ \E w \in Sent(Now, n, <<flows[won]>>, Due.marks, {delay[won]}) : Becomes(w)
    BY DEF Race
  <1>3. PICK w \in Sent(Now, n, <<flows[won]>>, Due.marks, {delay[won]}) : Becomes(w)
    BY <1>2
  <1>4. /\ ForCase /\ Here /\ Proper(Now, sizes, {}) /\ Held(Now, n, 1) /\ IsMarks(Due.marks, Len(sizes)) /\ n \in Nodes
    BY <1>1, OnDuty
  <1>5. flows \in Seq(Nodes) /\ won \in DOMAIN flows
    BY <1>2, <1>4, Statics DEF Here, Racers
  <1> HIDE DEF flows
  <1>6. flows[won] \in Nodes
    BY <1>5, SequenceOf DEF Range
  <1>7. delay[won] \in Nat
    BY <1>2, <1>4, <1>6, Statics DEF Here
  <1> DEFINE targets == <<flows[won]>>
             drawn == {delay[won]}
  <1>8. targets \in Seq(Nodes) /\ drawn \subseteq Nat /\ Len(targets) = 1 /\ w \in Sent(Now, n, targets, Due.marks, drawn)
    BY <1>3, <1>6, <1>7
  <1> HIDE DEF targets, drawn, n
  <1>9. Held(Now, n, Len(targets))
    BY <1>4, <1>8
  <1>10. Proper(w, sizes, {}) /\ \E m \in Nodes : Held(w, m, 0)
    BY <1>4, <1>8, <1>9, SentHeld
  <1>. QED BY <1>1, <1>3, <1>4, <1>10, HeldSound

\* The a tokens that wait at an AND join go with one at hand
AndGoes(w, sz, n, x, a) ==
    /\ Proper(w, sz, {}) /\ n \in Nodes /\ Held(w, n, 1)
    /\ x = [w EXCEPT !.k.ands = Without(@, {n})] /\ a = WaitingAt(n, w.k.ands)

\* They are in hand then, fewer than there are incoming flows
LEMMA AndGone ==
    ASSUME Here, NEW w, NEW sz, NEW n, NEW x, NEW a, AndGoes(w, sz, n, x, a)
    PROVE  Proper(x, sz, {}) /\ Held(x, n, 1 + a) /\ a \in Nat /\ (a < Incoming[n] \/ a = 0)
  <1>1. /\ Proper(w, sz, {}) /\ n \in Nodes /\ Held(w, n, 1) /\ 1 \in Int
        /\ x = [w EXCEPT !.k.ands = Without(@, {n})] /\ a = WaitingAt(n, w.k.ands)
    BY DEF AndGoes
  <1>2. Proper(x, sz, {}) /\ Held(x, n, 1 + WaitingAt(n, w.k.ands)) /\ WaitingAt(n, w.k.ands) \in Nat
        /\ (WaitingAt(n, w.k.ands) < Incoming[n] \/ WaitingAt(n, w.k.ands) = 0)
    BY <1>1, AndFires
  <1>. QED BY ONLY <1>1, <1>2

\* A token comes to a parallel gateway
LEMMA AndSound == IInv /\ Sound /\ And => Sound' /\ outcome' = "running"
  <1> SUFFICES ASSUME IInv, Sound, And PROVE Sound' /\ outcome' = "running"
    OBVIOUS
  <1> DEFINE n == Due.node
             waiting == WaitingAt(n, Now.k.ands)
             came == waiting + 1
             x == [Now EXCEPT !.k.ands = With(@, n, came)]
             y == [Now EXCEPT !.k.ands = Without(@, {n})]
             z == Gain(y, n, Joined(n))
  <1>1. /\ Serve("enter") /\ Within(Due) /\ UNCHANGED sizes
        /\ IF Incoming[n] > 1 /\ came < Incoming[n] THEN Becomes(x) ELSE \E w \in Emit(z, n, Out[n], Due.marks) : Becomes(w)
    BY DEF And, ServeNode
  <1>2. /\ ForCase /\ Here /\ Proper(Now, sizes, {}) /\ Held(Now, n, 1) /\ IsMarks(Due.marks, Len(sizes)) /\ n \in Nodes
    BY <1>1, OnDuty
  <1>3. Incoming[n] \in Nat
    <2>1. model \in Models
      BY <1>2 DEF Here
    <2>. QED BY <1>2, <2>1, ModelsAssumption DEF Incoming, Nodes
  <1>4. waiting = WaitingAt(n, Now.k.ands) /\ came = waiting + 1
    OBVIOUS
  <1>5. x = [Now EXCEPT !.k.ands = With(@, n, came)] /\ y = [Now EXCEPT !.k.ands = Without(@, {n})] /\ z = Gain(y, n, Joined(n))
    OBVIOUS
  <1> HIDE DEF n, came, waiting, x, y, z
  <1>6. CASE Incoming[n] > 1 /\ came < Incoming[n]
    <2>1. Proper(x, sizes, {}) /\ Held(x, n, 1 - 1)
      BY <1>2, <1>4, <1>5, <1>6, AndWaits
    <2>2. Held(x, n, 0)
      BY <2>1
    <2>. QED BY <1>1, <1>2, <1>6, <2>1, <2>2, HeldSound
  <1>7. CASE ~(Incoming[n] > 1 /\ came < Incoming[n])
    <2> DEFINE out == Out[n]
    <2>1. /\ Proper(y, sizes, {}) /\ Held(y, n, 1 + waiting) /\ waiting \in Nat
          /\ waiting < Incoming[n] \/ waiting = 0
      <3>1. AndGoes(Now, sizes, n, y, waiting)
        BY <1>2, <1>4, <1>5 DEF AndGoes
      <3>. QED BY <1>2, <3>1, AndGone
    <2>2. out \in Seq(Nodes) /\ {} \subseteq Nat
      BY <1>2, Statics DEF Here
    <2>3. Len(out) \in Nat
      BY <2>2, LenProperties
    <2>4. Joined(n) = IF Incoming[n] > 1 THEN Len(out) - Incoming[n] ELSE Len(out) - 1
      BY DEF Joined
    <2>5. PICK w \in Emit(z, n, out, Due.marks) : Becomes(w)
      BY <1>1, <1>7
    <2> HIDE DEF out
    <2> DEFINE l == 1 + waiting
               j == Joined(n)
    <2>6. l \in Int /\ j \in Int /\ l > 0 /\ l + j = Len(out)
      BY <1>3, <1>4, <1>7, <2>1, <2>3, <2>4
    <2>7. z = Gain(y, n, j) /\ Held(y, n, l)
      BY <1>5, <2>1
    <2> HIDE DEF l, j
    <2>8. Gains(y, sizes, n, l, j)
      BY <1>2, <2>1, <2>6, <2>7 DEF Gains
    <2>9. Proper(z, sizes, {}) /\ Held(z, n, Len(out))
      <3>1. Proper(z, sizes, {}) /\ Held(z, n, l + j)
        BY <1>2, <2>7, <2>8, GainProper
      <3>. QED BY <2>6, <3>1
    <2> DEFINE none == {}
    <2>10. w \in Sent(z, n, out, Due.marks, none) /\ none \subseteq Nat
      BY <2>5 DEF Emit
    <2> HIDE DEF none
    <2>11. Proper(w, sizes, {}) /\ \E m \in Nodes : Held(w, m, 0)
      BY <1>2, <2>2, <2>9, <2>10, SentHeld
    <2>. QED BY <1>1, <1>2, <2>5, <2>11, HeldSound
  <1>. QED BY <1>6, <1>7

\* The marks of activations
LEMMA MarksOf ==
    ASSUME NEW m \in Nat, NEW s, IsMarks(s, m)
    PROVE  /\ s # <<>> => s[Len(s)] \in 1 .. m /\ IsMarks(SubSeq(s, 1, Len(s) - 1), m)
           /\ IsMarks(Append(s, m + 1), m + 1)
  <1>1. s \in Seq(1 .. m) /\ Len(s) \in Nat
    BY LenProperties DEF IsMarks
  <1>2. s # <<>> => s[Len(s)] \in 1 .. m /\ SubSeq(s, 1, Len(s) - 1) \in Seq(1 .. m)
    <2>1. ASSUME s # <<>> PROVE s[Len(s)] \in 1 .. m /\ SubSeq(s, 1, Len(s) - 1) \in Seq(1 .. m)
      <3>1. Len(s) # 0
        BY <1>1, <2>1, EmptySeq
      <3>2. Len(s) \in 1 .. Len(s)
        BY <1>1, <3>1
      <3>3. s[Len(s)] \in 1 .. m
        BY <1>1, <3>2, ElementOfSeq
      <3>4. Len(s) - 1 \in 0 .. Len(s) /\ 1 \in 1 .. Len(s) + 1
        BY <1>1, <3>1
      <3>5. SubSeq(s, 1, Len(s) - 1) \in Seq(1 .. m)
        BY <1>1, <3>4, SubSeqProperties
      <3>. QED BY <3>3, <3>5
    <2>. QED BY <2>1
  <1>3. s \in Seq(1 .. m + 1)
    <2>1. s = [i \in 1 .. Len(s) |-> s[i]] /\ \A i \in 1 .. Len(s) : s[i] \in 1 .. m
      BY <1>1, LenProperties, ElementOfSeq
    <2>2. \A i \in 1 .. Len(s) : s[i] \in 1 .. m + 1
      BY <2>1
    <2>. QED BY <1>1, <2>1, <2>2, IsASeq
  <1>4. m + 1 \in 1 .. m + 1
    OBVIOUS
  <1>5. Append(s, m + 1) \in Seq(1 .. m + 1)
    BY <1>3, <1>4, AppendProperties
  <1>. QED BY <1>2, <1>5 DEF IsMarks

\* The a tokens that wait at an OR join for its activation j go with one at hand
OrGoes(w, sz, n, j, x, a) ==
    /\ Proper(w, sz, {}) /\ n \in Nodes /\ Held(w, n, 1) /\ j \in Nat
    /\ x = [w EXCEPT !.k.ors = Without(@, {<<n, j>>})] /\ a = WaitingAt(<<n, j>>, w.k.ors)

\* They are in hand then, fewer than the activation has
LEMMA OrGone ==
    ASSUME Here, NEW w, NEW sz, NEW n, NEW j, NEW x, NEW a, OrGoes(w, sz, n, j, x, a)
    PROVE  Proper(x, sz, {}) /\ Held(x, n, 1 + a) /\ a \in Nat /\ (a < sz[j] \/ a = 0)
  <1>1. /\ Proper(w, sz, {}) /\ n \in Nodes /\ Held(w, n, 1) /\ 1 \in Int /\ j \in Nat
        /\ x = [w EXCEPT !.k.ors = Without(@, {<<n, j>>})] /\ a = WaitingAt(<<n, j>>, w.k.ors)
    BY DEF OrGoes
  <1>2. Proper(x, sz, {}) /\ Held(x, n, 1 + WaitingAt(<<n, j>>, w.k.ors)) /\ WaitingAt(<<n, j>>, w.k.ors) \in Nat
        /\ (WaitingAt(<<n, j>>, w.k.ors) < sz[j] \/ WaitingAt(<<n, j>>, w.k.ors) = 0)
    BY <1>1, OrFires
  <1>. QED BY ONLY <1>1, <1>2

\* A token comes to an inclusive gateway
LEMMA OrSound == IInv /\ Sound /\ Or => Sound' /\ outcome' = "running"
  <1> SUFFICES ASSUME IInv, Sound, Or PROVE Sound' /\ outcome' = "running"
    OBVIOUS
  <1> DEFINE n == Due.node
             joins == Incoming[n] > 1 /\ Due.marks # <<>>
             latest == Due.marks[Len(Due.marks)]
             key == <<n, latest>>
             expected == sizes[latest]
             came == WaitingAt(key, Now.k.ors) + 1
             y == [Now EXCEPT !.k.ors = Without(@, {key})]
             w == IF joins THEN Gain(y, n, 1 - expected) ELSE Now
             marks == IF joins THEN SubSeq(Due.marks, 1, Len(Due.marks) - 1) ELSE Due.marks
             x == [Now EXCEPT !.k.ors = With(@, key, came)]
             out == Out[n]
             rest == Len(sizes)
  <1>1. /\ Serve("enter") /\ Within(Due) /\ Type[n] \in {"or"}
        /\ IF joins /\ came < expected
           THEN Becomes(x) /\ UNCHANGED sizes
           ELSE IF Len(out) <= 1
           THEN (\E z \in Forward(w, n, marks) : Becomes(z)) /\ UNCHANGED sizes
           ELSE \E active \in Choices(out) :
                 /\ sizes' = Append(sizes, Len(active))
                 /\ \E z \in Emit(Gain(w, n, Len(active) - 1), n, active, Append(marks, rest + 1)) : Becomes(z)
    BY DEF Or, ServeNode
  <1>2. /\ ForCase /\ Here /\ Proper(Now, sizes, {}) /\ Held(Now, n, 1) /\ IsMarks(Due.marks, rest) /\ n \in Nodes
    BY <1>1, OnDuty
  <1>3. sizes \in Seq(Nat \ {0}) /\ rest \in Nat
    BY <1>2, LenProperties DEF ForCase, Sound, SoundAt
  <1>4. /\ came = WaitingAt(key, Now.k.ors) + 1 /\ x = [Now EXCEPT !.k.ors = With(@, key, came)]
        /\ y = [Now EXCEPT !.k.ors = Without(@, {key})] /\ w = (IF joins THEN Gain(y, n, 1 - expected) ELSE Now)
    OBVIOUS
  <1>5. joins => latest \in 1 .. rest /\ expected \in Nat \ {0}
    <2>1. joins => latest \in 1 .. rest
      <3> HIDE DEF rest
      <3>. QED BY <1>2, <1>3, MarksOf
    <2>. QED BY <1>3, <2>1, ElementOfSeq
  <1>6. IsMarks(marks, rest)
    <2> HIDE DEF rest
    <2>. QED BY <1>2, <1>3, MarksOf
  <1>7. Type[n] \notin {"end", "terminate"} /\ out \in Seq(Nodes)
    BY <1>1, <1>2, Statics DEF Here
  <1> HIDE DEF x, y, w, marks, came, joins, expected
  <1>8. CASE joins /\ came < expected
    <2>1. Proper(x, sizes, {}) /\ Held(x, n, 1 - 1)
      <3> HIDE DEF latest, n
      <3>1. came < sizes[latest]
        BY <1>8 DEF expected
      <3>2. latest \in 1 .. Len(sizes) /\ Len(sizes) \in Nat
        BY <1>3, <1>5, <1>8
      <3>. QED BY <1>2, <1>4, <3>1, <3>2, OrWaits
    <2>2. Held(x, n, 0)
      BY <2>1
    <2>. QED BY <1>1, <1>2, <1>8, <2>1, <2>2, HeldSound
  <1>9. ASSUME ~(joins /\ came < expected) PROVE Proper(w, sizes, {}) /\ Held(w, n, 1)
    <2>1. CASE ~joins
      BY <1>2, <1>4, <2>1
    <2>2. CASE joins
      <3> DEFINE waiting == WaitingAt(key, Now.k.ors)
                 l == 1 + waiting
                 j == 1 - expected
      <3>1. /\ Proper(y, sizes, {}) /\ Held(y, n, 1 + waiting) /\ waiting \in Nat
            /\ waiting < expected \/ waiting = 0
        <4>1. waiting = WaitingAt(<<n, latest>>, Now.k.ors)
          OBVIOUS
        <4> HIDE DEF latest, n, waiting
        <4>2. latest \in Nat
          BY <1>3, <1>5, <2>2
        <4>3. OrGoes(Now, sizes, n, latest, y, waiting)
          BY <1>2, <1>4, <4>1, <4>2 DEF OrGoes
        <4>. QED BY <1>2, <4>3, OrGone DEF expected
      <3>2. came = waiting + 1
        BY <1>4
      <3> HIDE DEF waiting
      <3>3. l \in Int /\ j \in Int /\ l + j = 1 /\ ~(j > 0)
        BY <1>5, <1>9, <2>2, <3>1, <3>2
      <3>4. Held(y, n, l) /\ w = Gain(y, n, j)
        BY <1>4, <2>2, <3>1
      <3> HIDE DEF l, j, n
      <3>5. Gains(y, sizes, n, l, j)
        BY <1>2, <3>1, <3>3, <3>4 DEF Gains
      <3>6. Proper(w, sizes, {}) /\ Held(w, n, l + j)
        BY <1>2, <3>4, <3>5, GainProper
      <3>. QED BY <3>3, <3>6
    <2>. QED BY <2>1, <2>2
  <1>10. CASE ~(joins /\ came < expected) /\ Len(out) <= 1
    <2>1. PICK z \in Forward(w, n, marks) : Becomes(z)
      BY <1>1, <1>10
    <2>2. UNCHANGED sizes
      BY <1>1, <1>10
    <2>3. Proper(z, sizes, {}) /\ \E m \in Nodes : Held(z, m, 0)
      <3> HIDE DEF n, out
      <3>. QED BY <1>2, <1>6, <1>7, <1>9, <1>10, <2>1, ForwardHeld
    <2>. QED BY <1>2, <2>1, <2>2, <2>3, HeldSound
  <1>11. CASE ~(joins /\ came < expected) /\ ~(Len(out) <= 1)
    <2>1. PICK active \in Choices(out) :
                 /\ sizes' = Append(sizes, Len(active))
                 /\ \E z \in Emit(Gain(w, n, Len(active) - 1), n, active, Append(marks, rest + 1)) : Becomes(z)
      BY <1>1, <1>11
    <2> DEFINE m == Len(active)
               sz == Append(sizes, m)
               j == m - 1
               g == Gain(w, n, j)
               more == Append(marks, rest + 1)
               none == {}
    <2>2. PICK z \in Emit(g, n, active, more) : Becomes(z)
      BY <2>1
    <2> HIDE DEF n, out
    <2>3. active \in Seq(Nodes) /\ m \in Nat \ {0}
      BY <1>7, <2>1, ChoicesOf
    <2>4. sz \in Seq(Nat \ {0}) /\ Noted(w, sz) /\ Len(sz) = rest + 1
      <3> HIDE DEF m
      <3>1. Noted(w, sizes)
        BY <1>9, <1>11 DEF Proper
      <3>. QED BY <1>3, <2>3, <3>1, NotedLater
    <2>5. Proper(w, sz, {}) /\ Held(w, n, 1)
      BY <1>9, <1>11, <2>4 DEF Proper
    <2>6. j \in Int /\ 1 + j = m /\ 1 > 0
      BY <2>3
    <2>7. IsMarks(more, Len(sz))
      BY <1>3, <1>6, <2>4, MarksOf
    <2>8. g = Gain(w, n, j) /\ z \in Sent(g, n, active, more, none) /\ none \subseteq Nat
      BY <2>2 DEF Emit
    <2>9. sizes' = Append(sizes, m)
      BY <2>1
    <2> HIDE DEF g, j, more, none, m
    <2>10. Gains(w, sz, n, 1, j)
      BY <1>2, <2>5, <2>6 DEF Gains
    <2>11. Proper(g, sz, {}) /\ Held(g, n, m)
      <3> HIDE DEF sz
      <3>1. Proper(g, sz, {}) /\ Held(g, n, 1 + j)
        BY <1>2, <2>8, <2>10, GainProper
      <3>. QED BY <2>6, <3>1
    <2>12. Held(g, n, Len(active))
      BY <2>11 DEF m
    <2>13. Proper(z, sz, {}) /\ \E o \in Nodes : Held(z, o, 0)
      <3> HIDE DEF sz
      <3>. QED BY <1>2, <2>3, <2>7, <2>8, <2>11, <2>12, SentHeld
    <2>. QED BY <1>2, <2>2, <2>3, <2>9, <2>13, HeldSoundNext
  <1>. QED BY <1>8, <1>10, <1>11

-----------------------------------------------------------------------------
(* Boundaries that only notify *)

\* What a boundary of the host h is
Bounds(b, h) ==
    /\ b \in Nodes /\ Type[b] \notin {"end", "terminate"} /\ b \in Range(Borders[h])
    /\ h \in Nodes => Inside[b] = Inside[h]

\* The boundaries of a host are in the sub-processes it is in, and are no ends
LEMMA Boundaries ==
    ASSUME model \in Models, NEW h \in Nodes \cup Subs, NEW b \in Range(Borders[h])
    PROVE  Bounds(b, h)
  <1>1. b \in Nodes
    BY Exits
  <1>2. Type[b] = "boundary"
    BY ModelsAssumption DEF Type, Nodes, Subs, Borders
  <1>3. h \in Nodes => Inside[b] = Inside[h]
    BY Scopes
  <1>. QED BY <1>1, <1>2, <1>3 DEF Bounds

\* Everything around a node with a token of the case has tokens
LEMMA Crowded ==
    ASSUME Here, NEW w, NEW X, Stocked(w, X), NEW n \in Nodes, Worth(w, X, {n}) > 0, NEW u \in Round(n)
    PROVE  u \in Subs /\ Worth(w, X, NodesIn(u)) > 0
  <1>1. u \in Subs
    BY InsideIs DEF Here
  <1>2. {n} \subseteq NodesIn(u)
    BY DEF NodesIn
  <1>3. Worth(w, X, {n}) <= Worth(w, X, NodesIn(u))
    BY <1>2, TotalMore DEF Worth, Stocked
  <1>4. Worth(w, X, {n}) \in Nat /\ Worth(w, X, NodesIn(u)) \in Nat
    BY TotalIs DEF Worth, Stocked
  <1>. QED BY <1>1, <1>3, <1>4

\* An activity or an entry is at a node
Hosted(w, n) ==
    \/ \E i \in DOMAIN w.acts : w.acts[i].case = Due.case /\ w.acts[i].node = n /\ w.acts[i].entry = 0
    \/ \E e \in DOMAIN w.entries : w.entries[e].case = Due.case /\ w.entries[e].node = n

\* So every sub-process around the node has tokens
LEMMA HostedCounts ==
    ASSUME Here, NEW w, NEW n \in Nodes, Hosted(w, n), Held(w, n, 0)
    PROVE  \A u \in Round(n) : w.k.subs[u].tokens > 0
  <1>1. PICK X : Weighed(w, X, 0, Hold(n, 0))
    BY DEF Held
  <1>2. Stocked(w, X) /\ \A u \in Subs : w.k.subs[u].tokens = Worth(w, X, NodesIn(u)) + Hold(n, 0)[u]
    BY <1>1 DEF Weighed, Balance, Stocked, Worth
  <1>3. \A u \in Subs : Hold(n, 0)[u] = 0
    BY DEF Hold
  <1> DEFINE N == {n}
  <1>4. /\ Placed(w.acts, Owners(w.acts), Due.case, N) \in Nat /\ Placed(w.entries, DOMAIN w.entries, Due.case, N) \in Nat
        /\ EntersAt(All(w), w.k, Due.case, N) \in Nat /\ AtKeys(w.k.ands, N) \in Nat
        /\ AtKeys(w.k.ors, N \X Nat) \in Nat /\ AtKeys(X, N) \in Nat /\ Worth(w, X, N) \in Nat
    BY <1>2, TotalIs DEF Stocked, Worth
  <1>5. Placed(w.acts, Owners(w.acts), Due.case, N) # 0 \/ Placed(w.entries, DOMAIN w.entries, Due.case, N) # 0
    <2>1. IsFiniteSet(DOMAIN w.acts) /\ IsFiniteSet(DOMAIN w.entries)
      BY <1>2 DEF Stocked, Stock
    <2>2. IsFiniteSet(Owners(w.acts))
      BY <2>1, FS_Subset DEF Owners
    <2>3. CASE \E i \in DOMAIN w.acts : w.acts[i].case = Due.case /\ w.acts[i].node = n /\ w.acts[i].entry = 0
      <3>1. \E i \in Owners(w.acts) : w.acts[i].case = Due.case /\ w.acts[i].node \in N
        BY <2>3 DEF Owners
      <3>. QED BY <2>2, <3>1, PlacedIs
    <2>4. CASE \E e \in DOMAIN w.entries : w.entries[e].case = Due.case /\ w.entries[e].node = n
      <3>1. \E e \in DOMAIN w.entries : w.entries[e].case = Due.case /\ w.entries[e].node \in N
        BY <2>4
      <3>. QED BY <2>1, <3>1, PlacedIs
    <2>. QED BY <2>3, <2>4 DEF Hosted
  <1>6. Worth(w, X, N) > 0
    <2> HIDE DEF N
    <2>. QED BY <1>4, <1>5 DEF Worth, Total
  <1>7. \A u \in Round(n) : u \in Subs /\ Worth(w, X, NodesIn(u)) > 0
    BY <1>2, <1>6, Crowded
  <1>8. \A u \in Subs : Worth(w, X, NodesIn(u)) \in Nat
    BY <1>2, TotalIs DEF Stocked, Worth
  <1>9. \A u \in Round(n) : w.k.subs[u].tokens = Worth(w, X, NodesIn(u)) + 0
    BY <1>2, <1>3, <1>7
  <1>. QED BY <1>7, <1>8, <1>9

\* The activity a boundary is of
LEMMA BoundaryOf ==
    ASSUME ForCase, Live(Due), Due.kind = "boundary", NEW i, i = Target(Due.act)
    PROVE  /\ i \in DOMAIN acts /\ acts[i].case = Due.case /\ acts[i].entry = 0 /\ acts[i].node \in Nodes
           /\ Bounds(Due.node, acts[i].node)
           /\ acts[i].loop # 0 => acts[i].loop \in DOMAIN loops
  <1>1. IsEvent(Due, clock, nextAct, Len(cases)) /\ Due \in Range(heap)
    BY Popped DEF ForCase, Running
  <1>2. /\ Looped(acts, loops, Range(heap), nextAct) /\ Bordered(acts, entries, Range(heap), nextAct, nextId)
    BY DEF ForCase, Sound, SoundAt, Ties
  <1>3. i \in DOMAIN acts
    BY DEF Live
  <1>4. i = Due.act \/ acts[i].loop = Due.act
    BY <1>2, <1>3 DEF Target, Looped
  <1>5. Guards(Due, acts[i]) /\ acts[i].entry = 0
    BY <1>1, <1>2, <1>3, <1>4 DEF Bordered
  <1>6. acts[i].node \in Nodes
    BY <1>3 DEF ForCase, IInv, Ordered, Acts, IsAct
  <1>7. Bounds(Due.node, acts[i].node)
    BY <1>5, <1>6, Boundaries DEF Guards, ForCase, Here
  <1>. QED BY <1>2, <1>3, <1>5, <1>6, <1>7 DEF Guards, Looped

\* The entry a boundary is of
LEMMA MultiBoundaryOf ==
    ASSUME ForCase, Live(Due), Due.kind = "multiBoundary", NEW e, e = Due.act
    PROVE  /\ e \in DOMAIN entries /\ entries[e].case = Due.case /\ entries[e].node \in Nodes
           /\ Bounds(Due.node, entries[e].node)
  <1>1. IsEvent(Due, clock, nextAct, Len(cases)) /\ Due \in Range(heap)
    BY Popped DEF ForCase, Running
  <1>2. Bordered(acts, entries, Range(heap), nextAct, nextId)
    BY DEF ForCase, Sound, SoundAt, Ties
  <1>3. e \in DOMAIN entries
    BY DEF Live
  <1>4. Guards(Due, entries[e])
    BY <1>1, <1>2, <1>3 DEF Bordered
  <1>5. entries[e].node \in Nodes
    BY <1>3 DEF ForCase, IInv, Ordered, Entered
  <1>6. Bounds(Due.node, entries[e].node)
    BY <1>4, <1>5, Boundaries DEF Guards, ForCase, Here
  <1>. QED BY <1>3, <1>4, <1>5, <1>6 DEF Guards

\* The sub-process a deadline is of
LEMMA DeadlineOf ==
    ASSUME ForCase, Live(Due), Due.kind = "deadline", NEW u, u = HostOf(Due.node)
    PROVE  /\ u \in Subs /\ Bounds(Due.node, u) /\ Now.k.subs[u].tokens > 0 /\ NodesIn(u) # {}
           /\ \A v \in Round(Due.node) : Now.k.subs[v].tokens > 0
           /\ IsMarks(Now.k.subs[u].marks, Len(sizes))
  <1>1. Due \in Range(heap) /\ model \in Models
    BY Popped DEF ForCase, Running, Here
  <1>2. Bordered(acts, entries, Range(heap), nextAct, nextId) /\ IInv
    BY DEF ForCase, Sound, SoundAt, Ties
  <1>3. Due.act \in 1 .. nextId - 1 /\ \E v \in Subs : Due.node \in Range(Borders[v])
    BY <1>1, <1>2 DEF Bordered
  <1>4. u \in Subs /\ Due.node \in Range(Borders[u]) /\ Due.act # 0
    BY <1>3 DEF HostOf
  <1>5. Bounds(Due.node, u)
    BY <1>1, <1>4, Boundaries
  <1>6. Now.k.subs[u].instance = Due.act /\ Opens(Now.k) /\ Held(Now, Due.node, 0) /\ CaseIs(Now.k, sizes)
    BY NowIs, NowHeld DEF Live
  <1>7. Now.k.subs[u].tokens > 0
    BY <1>4, <1>6 DEF Opens, OpensAt
  <1>8. PICK X : Weighed(Now, X, 0, Hold(Due.node, 0))
    BY <1>6 DEF Held
  <1>9. Stocked(Now, X) /\ \A v \in Subs : Now.k.subs[v].tokens = Worth(Now, X, NodesIn(v)) + 0
    <2>1. \A v \in Subs : Hold(Due.node, 0)[v] = 0
      BY DEF Hold
    <2>. QED BY <1>8, <2>1 DEF Weighed, Balance, Stocked, Worth
  <1>10. \A N : Worth(Now, X, N) \in Nat
    BY <1>9, TotalIs DEF Stocked, Worth
  <1>11. Worth(Now, X, NodesIn(u)) > 0
    BY <1>4, <1>7, <1>9, <1>10
  <1>12. NodesIn(u) # {}
    <2>1. Worth(Now, X, NodesIn(u)) # 0
      BY <1>11
    <2>. QED BY <1>9, <2>1, TotalNodes DEF Stocked, Worth
  <1>13. ASSUME NEW v \in Round(Due.node) PROVE Now.k.subs[v].tokens > 0
    <2>1. PICK n \in NodesIn(u) : TRUE
      BY <1>12
    <2>2. v \in Subs /\ NodesIn(u) \subseteq NodesIn(v)
      BY <1>1, <1>4, <2>1, Tree
    <2>3. Worth(Now, X, NodesIn(u)) <= Worth(Now, X, NodesIn(v))
      BY <1>9, <2>2, TotalMore DEF Stocked, Worth
    <2>. QED BY <1>9, <1>10, <1>11, <2>2, <2>3
  <1>14. IsMarks(Now.k.subs[u].marks, Len(sizes))
    BY <1>4, <1>6 DEF CaseIs, IsSub
  <1>. QED BY <1>4, <1>5, <1>7, <1>12, <1>13, <1>14

\* A boundary that does not interrupt fires
LEMMA NotifySound == IInv /\ Sound /\ Notify => Sound' /\ outcome' = "running"
  <1> SUFFICES ASSUME IInv, Sound, Notify PROVE Sound' /\ outcome' = "running"
    OBVIOUS
  <1> DEFINE n == Due.node
  <1>1. PICK kind \in {"boundary", "multiBoundary", "deadline"} : Serve(kind)
    BY DEF Notify, Notices
  <1>2. Within(Due) /\ Live(Due) /\ Due.kind = kind /\ UNCHANGED sizes
    BY <1>1 DEF Notify, Serve
  <1>3. ForCase /\ Here /\ n \in Nodes /\ Proper(Now, sizes, {}) /\ Held(Now, n, 0)
    BY <1>1, <1>2, OnDuty
  <1>4. CASE Out[n] = <<>>
    <2>1. Becomes(Now)
      BY <1>4 DEF Notify
    <2>. QED BY <1>2, <1>3, <2>1, HeldSound
  <1>5. CASE Out[n] # <<>>
    <2> DEFINE g == Gain(Now, n, 1)
               none == <<>>
    <2>1. PICK w \in Forward(g, n, none) : Becomes(w)
      BY <1>5 DEF Notify
    <2>2. Type[n] \notin {"end", "terminate"} /\ \A u \in Round(n) : Now.k.subs[u].tokens > 0
      <3>1. CASE kind = "deadline"
        BY <1>2, <1>3, <3>1, DeadlineOf DEF Bounds
      <3>2. ASSUME NEW h \in Nodes, Bounds(n, h), Hosted(Now, h)
            PROVE  Type[n] \notin {"end", "terminate"} /\ \A u \in Round(n) : Now.k.subs[u].tokens > 0
        <4>1. Held(Now, h, 0) /\ Round(n) = Round(h)
          BY <1>3, <3>2, HeldSame DEF Bounds, Round
        <4>. QED BY <1>3, <3>2, <4>1, HostedCounts DEF Bounds
      <3>3. CASE kind = "boundary"
        <4> DEFINE i == Target(Due.act)
        <4>1. i \in DOMAIN acts /\ acts[i].case = Due.case /\ acts[i].entry = 0 /\ acts[i].node \in Nodes /\ Bounds(n, acts[i].node)
          BY <1>2, <1>3, <3>3, BoundaryOf
        <4>2. Hosted(Now, acts[i].node)
          BY <1>3, <4>1, NowIs DEF Hosted
        <4>. QED BY <3>2, <4>1, <4>2
      <3>4. CASE kind = "multiBoundary"
        <4>1. Due.act \in DOMAIN entries /\ entries[Due.act].case = Due.case /\ entries[Due.act].node \in Nodes
              /\ Bounds(n, entries[Due.act].node)
          BY <1>2, <1>3, <3>4, MultiBoundaryOf
        <4>2. Hosted(Now, entries[Due.act].node)
          BY <1>3, <4>1, NowIs DEF Hosted
        <4>. QED BY <3>2, <4>1, <4>2
      <3>. QED BY <3>1, <3>3, <3>4
    <2> HIDE DEF n
    <2>3. Gains(Now, sizes, n, 0, 1)
      BY <1>3, <2>2 DEF Gains
    <2>4. g = Gain(Now, n, 1) /\ IsMarks(none, Len(sizes))
      BY DEF IsMarks
    <2> HIDE DEF g, none
    <2>5. Proper(g, sizes, {}) /\ Held(g, n, 1)
      <3>1. Proper(g, sizes, {}) /\ Held(g, n, 0 + 1)
        BY <1>3, <2>3, <2>4, GainProper
      <3>2. 0 + 1 = 1
        OBVIOUS
      <3>. QED BY <3>1, <3>2
    <2>6. Proper(w, sizes, {}) /\ \E m \in Nodes : Held(w, m, 0)
      BY <1>3, <2>1, <2>2, <2>4, <2>5, ForwardHeld
    <2>. QED BY <1>2, <1>3, <2>1, <2>6, HeldSound
  <1>. QED BY <1>4, <1>5

-----------------------------------------------------------------------------
(* Activities and entries that are interrupted *)

\* The activity i of w, which has a token, goes, with its loop or not; v is w once the records of
\* that are kept
Ending(w, v, sz, i, ls) ==
    /\ Tied(w, {}) /\ Noted(w, sz) /\ Good(w, {i}) /\ Retold(w, v) /\ v.k = w.k /\ v.blocked = w.blocked
    /\ i \in DOMAIN w.acts /\ w.acts[i].case = Due.case /\ w.acts[i].entry = 0 /\ ls \subseteq {w.acts[i].loop}
    /\ Fewer(w.loops, v.loops, ls) /\ w.acts[i].node \in Nodes /\ Held(w, w.acts[i].node, 0)

\* Its token is in hand then
LEMMA OwnerEnds ==
    ASSUME Here, NEW w, NEW v, NEW sz, NEW i, NEW ls, Ending(w, v, sz, i, ls), NEW x \in Released(v, {i})
    PROVE  /\ Proper(x, sz, {}) /\ Held(x, w.acts[i].node, 1) /\ Cut(w, x, {i}, ls, {})
           /\ IsMarks(w.acts[i].marks, Len(sz))
  <1> DEFINE n == w.acts[i].node
             ids == {i}
             es == {}
  <1>1. /\ Tied(w, {}) /\ Noted(w, sz) /\ Good(w, ids) /\ Retold(w, v) /\ v.k = w.k /\ v.blocked = w.blocked
        /\ i \in DOMAIN w.acts /\ w.acts[i].case = Due.case /\ w.acts[i].entry = 0 /\ ls \subseteq {w.acts[i].loop}
        /\ Fewer(w.loops, v.loops, ls) /\ n \in Nodes /\ Held(w, n, 0) /\ CaseIs(w.k, sz)
    BY DEF Ending, Noted
  <1>2. Good(v, ids)
    BY <1>1, Retelling
  <1>3. Fewer(w.entries, v.entries, es)
    BY <1>1 DEF Fewer, Retold
  <1>4. (\A j \in ids : w.acts[j].case = Due.case /\ w.acts[j].entry = 0) /\ ids \subseteq DOMAIN w.acts
        /\ \A l \in ls : \E j \in ids : w.acts[j].loop = l
    BY <1>1
  <1> HIDE DEF ids
  <1>5. \A e \in es \cap DOMAIN w.entries : w.entries[e].case = Due.case
    OBVIOUS
  <1>6. Closing(w, v, ids, ls, es)
    BY <1>1, <1>2, <1>3, <1>4, <1>5 DEF Closing, Retold
  <1>7. Cut(w, x, ids, ls, es)
    BY <1>6, FreedCut DEF ids
  <1>8. Tied(x, {})
    <2> DEFINE X == {}
    <2>1. Tied(w, X) /\ X \subseteq es \cup X /\ \A j \in ids : w.acts[j].entry # 0 => w.acts[j].entry \in es \cup X
      BY <1>1, <1>4
    <2> HIDE DEF X, es
    <2>2. Tied(x, X)
      BY <1>1, <1>4, <1>7, <2>1, CutTied
    <2>. QED BY <2>2 DEF X
  <1>9. Noted(x, sz)
    BY <1>1, <1>7, CutNoted
  <1>10. Held(x, n, 0 + 1)
    <2>1. Cut(w, x, {i}, ls, {})
      BY <1>7 DEF ids
    <2>. QED BY <1>1, <2>1, CutOwner
  <1>11. Held(x, n, 1)
    BY <1>10
  <1>12. IsMarks(w.acts[i].marks, Len(sz))
    BY <1>1 DEF Noted, Marked
  <1>. QED BY <1>7, <1>8, <1>9, <1>11, <1>12 DEF Proper, Cut, ids

\* An entry is closed, which all its instances are about to leave
Closes(w, e, completed, X, y) ==
    /\ Good(w, completed) /\ X = ({i \in DOMAIN w.acts : w.acts[i].entry = e} \ completed) \cup completed
    /\ \E log : y = [w EXCEPT !.rows = log, !.entries = Without(@, {e})]
Shut(w, e, X, y) ==
    /\ Good(y, X) /\ y.k = w.k /\ y.acts = w.acts /\ y.nextAct = w.nextAct /\ y.events = w.events
    /\ y.loops = w.loops /\ y.entries = Without(w.entries, {e}) /\ y.nextId = w.nextId /\ y.blocked = w.blocked

\* The work without the entry has the rest of it as it was
LEMMA EntryClosed ==
    ASSUME NEW w, NEW e, NEW completed, NEW X, NEW y, Closes(w, e, completed, X, y)
    PROVE  Shut(w, e, X, y)
  <1>0. PICK log : y = [w EXCEPT !.rows = log, !.entries = Without(@, {e})]
    BY DEF Closes
  <1>1. /\ DOMAIN w = WorkFields /\ "instant" \in DOMAIN w.k /\ Entered(w.acts, w.entries, w.nextId, completed)
        /\ Good(w, completed) /\ X = ({i \in DOMAIN w.acts : w.acts[i].entry = e} \ completed) \cup completed
    BY DEF Good, Closes
  <1>2. (\A i \in DOMAIN w.acts \ X : i \in DOMAIN w.acts \ completed /\ w.acts[i].entry # e) /\ completed \subseteq X
    BY <1>1
  <1>3. /\ DOMAIN y = WorkFields /\ y.k = w.k /\ y.acts = w.acts /\ y.nextAct = w.nextAct /\ y.events = w.events
        /\ y.pending = w.pending /\ y.entries = Without(w.entries, {e}) /\ y.nextId = w.nextId
        /\ y.loops = w.loops /\ y.blocked = w.blocked
    BY <1>0, <1>1 DEF WorkFields
  <1>4. Entered(y.acts, y.entries, y.nextId, X)
    <2> DEFINE M == Without(w.entries, {e})
    <2>1. DOMAIN M = DOMAIN w.entries \ {e} /\ \A f \in DOMAIN M : M[f] = w.entries[f]
      BY DEF Without
    <2>. HIDE DEF M
    <2>2. Entered(w.acts, M, w.nextId, X)
      BY <1>1, <1>2, <2>1 DEF Entered
    <2>. QED BY <2>2, <1>3 DEF M
  <1>5. Good(y, X)
    BY ONLY <1>1, <1>2, <1>3, <1>4, Likewise
  <1>. QED BY <1>3, <1>5 DEF Shut

\* An entry goes with all its instances, completed or not
EndingAll(w, sz, e, completed) ==
    /\ Tied(w, {}) /\ Noted(w, sz) /\ Good(w, completed)
    /\ e \in DOMAIN w.entries /\ w.entries[e].case = Due.case /\ w.entries[e].node \in Nodes
    /\ \A i \in completed : i \in DOMAIN w.acts /\ w.acts[i].entry = e /\ w.acts[i].case = Due.case
    /\ Held(w, w.entries[e].node, 0)

\* Its token is in hand then
LEMMA EntryEnds ==
    ASSUME Here, NEW w, NEW sz, NEW e, NEW completed, EndingAll(w, sz, e, completed), NEW x \in InterruptEntry(w, e, completed)
    PROVE  /\ Proper(x, sz, {}) /\ Held(x, w.entries[e].node, 1) /\ IsMarks(w.entries[e].marks, Len(sz))
  <1> DEFINE n == w.entries[e].node
             open == {i \in DOMAIN w.acts : w.acts[i].entry = e} \ completed
             ids == open \cup completed
             es == {e}
             ls == {}
             y == [w EXCEPT !.rows = Logged(@, open, "interrupted"), !.entries = Without(@, es)]
  <1>1. /\ Tied(w, {}) /\ Noted(w, sz) /\ Good(w, completed) /\ e \in DOMAIN w.entries /\ w.entries[e].case = Due.case
        /\ n \in Nodes /\ Held(w, n, 0) /\ CaseIs(w.k, sz)
        /\ \A i \in completed : i \in DOMAIN w.acts /\ w.acts[i].entry = e /\ w.acts[i].case = Due.case
    BY DEF EndingAll, Noted
  <1>2. e # 0 /\ Entered(w.acts, w.entries, w.nextId, completed)
    BY <1>1 DEF Good, Entered
  <1>3. /\ ids \subseteq DOMAIN w.acts /\ \A i \in ids : w.acts[i].entry = e /\ w.acts[i].case = Due.case /\ i \notin Owners(w.acts)
    BY <1>1, <1>2 DEF Entered, Owners
  <1>4. x \in Released(y, ids)
    BY DEF InterruptEntry
  <1>5. /\ Good(y, ids) /\ y.k = w.k /\ y.acts = w.acts /\ y.nextAct = w.nextAct /\ y.events = w.events
        /\ y.loops = w.loops /\ y.entries = Without(w.entries, es) /\ y.nextId = w.nextId /\ y.blocked = w.blocked
    <2> DEFINE r == Logged(w.rows, open, "interrupted")
    <2>1. y = [w EXCEPT !.rows = r, !.entries = Without(@, {e})]
      OBVIOUS
    <2>2. ids = ({i \in DOMAIN w.acts : w.acts[i].entry = e} \ completed) \cup completed
      OBVIOUS
    <2> HIDE DEF r, ids, y
    <2>3. /\ Good(y, ids) /\ y.k = w.k /\ y.acts = w.acts /\ y.nextAct = w.nextAct /\ y.events = w.events
          /\ y.loops = w.loops /\ y.entries = Without(w.entries, {e}) /\ y.nextId = w.nextId /\ y.blocked = w.blocked
        <3>1. Closes(w, e, completed, ids, y)
          BY <1>1, <2>1, <2>2 DEF Closes
        <3> HIDE DEF es, n, open
        <3>2. Shut(w, e, ids, y)
          BY ONLY <3>1, EntryClosed
        <3>. QED BY <3>2 DEF Shut
    <2>. QED BY <2>3
  <1>6. Fewer(w.entries, y.entries, es) /\ Fewer(w.loops, y.loops, ls)
    BY <1>5 DEF Fewer, Without
  <1>7. \A f \in es \cap DOMAIN w.entries : w.entries[f].case = Due.case
    BY <1>1
  <1> HIDE DEF ids, y
  <1>8. Closing(w, y, ids, ls, es)
    BY <1>3, <1>5, <1>6, <1>7 DEF Closing
  <1>9. Cut(w, x, ids, ls, es)
    BY <1>4, <1>8, FreedCut
  <1>10. Tied(x, {})
    <2> DEFINE X == {}
    <2>1. Tied(w, X) /\ X \subseteq es \cup X /\ \A j \in ids : w.acts[j].entry # 0 => w.acts[j].entry \in es \cup X
      BY <1>1, <1>3
    <2>2. \A l \in ls : \E j \in ids : w.acts[j].loop = l
      OBVIOUS
    <2> HIDE DEF X, es, ls
    <2>3. Tied(x, X)
      BY <1>1, <1>3, <1>9, <2>1, <2>2, CutTied
    <2>. QED BY <2>3 DEF X
  <1>11. Noted(x, sz)
    BY <1>1, <1>9, CutNoted
  <1>12. Held(x, n, 0 + 1)
    <2>1. Cut(w, x, ids, ls, {e})
      BY <1>9
    <2> HIDE DEF ls
    <2>. QED BY <1>1, <1>3, <2>1, CutEntry
  <1>13. Held(x, n, 1)
    BY <1>12
  <1>14. IsMarks(w.entries[e].marks, Len(sz))
    BY <1>1 DEF Noted, Marked
  <1>. QED BY <1>9, <1>10, <1>11, <1>13, <1>14 DEF Proper, Cut

\* A token in hand goes on from a node that is no end
LEMMA GoesOn ==
    ASSUME ForCase, UNCHANGED sizes, NEW w, Proper(w, sizes, {}), NEW n \in Nodes, Held(w, n, 1),
           Type[n] \notin {"end", "terminate"}, NEW marks, IsMarks(marks, Len(sizes)), NEW x \in Forward(w, n, marks), Becomes(x)
    PROVE  Sound' /\ outcome' = "running"
  <1>1. Here
    BY DEF ForCase
  <1>2. Proper(x, sizes, {}) /\ \E m \in Nodes : Held(x, m, 0)
    BY <1>1, ForwardHeld
  <1>. QED BY ONLY ForCase, UNCHANGED sizes, Becomes(x), <1>2, HeldSound

\* A boundary interrupts an activity
LEMMA InterruptSound == IInv /\ Sound /\ Interrupt => Sound' /\ outcome' = "running"
  <1> SUFFICES ASSUME IInv, Sound, Interrupt PROVE Sound' /\ outcome' = "running"
    OBVIOUS
  <1> DEFINE n == Due.node
             i == Target(Due.act)
             ls == {Host.loop}
             y == [Now EXCEPT !.rows = Logged(@, {i}, "interrupted"), !.loops = Without(@, ls)]
  <1>1. Serve("boundary") /\ Within(Due) /\ Live(Due) /\ UNCHANGED sizes
    BY DEF Interrupt, Interrupts, Serve
  <1>2. PICK w \in Released(y, {i}) : \E x \in Forward(w, n, HostMarks) : Becomes(x)
    BY DEF Interrupt
  <1>3. ForCase /\ Here /\ n \in Nodes /\ Proper(Now, sizes, {}) /\ \A m : Held(Now, m, 0)
    BY <1>1, OnDuty
  <1>4. Due.kind = "boundary" /\ Host = acts[i]
    BY <1>1 DEF Serve, Host
  <1>5. /\ i \in DOMAIN acts /\ acts[i].case = Due.case /\ acts[i].entry = 0 /\ acts[i].node \in Nodes
        /\ Bounds(n, acts[i].node)
    BY <1>1, <1>3, <1>4, BoundaryOf
  <1>6. /\ DOMAIN Now = WorkFields /\ Now.acts = acts /\ Tied(Now, {}) /\ Noted(Now, sizes) /\ Good(Now, {})
        /\ "instant" \in DOMAIN Now.k
    BY <1>3, NowIs DEF Proper, Good
  <1>7. Retold(Now, y) /\ y.k = Now.k /\ y.blocked = Now.blocked /\ Fewer(Now.loops, y.loops, ls)
    <2>1. y.loops = Without(Now.loops, ls)
      BY <1>6 DEF WorkFields
    <2>2. Fewer(Now.loops, y.loops, ls)
      BY <2>1 DEF Fewer, Without
    <2>. QED BY <1>6, <2>2 DEF Retold, WorkFields
  <1>8. ls \subseteq {Now.acts[i].loop}
    BY <1>4, <1>6
  <1>9. Good(Now, {i})
    BY <1>6, Weaker
  <1> HIDE DEF y, i, ls, n
  <1>10. Ending(Now, y, sizes, i, ls)
    BY <1>3, <1>5, <1>6, <1>7, <1>8, <1>9 DEF Ending
  <1>11. Proper(w, sizes, {}) /\ Held(w, Now.acts[i].node, 1) /\ IsMarks(Now.acts[i].marks, Len(sizes))
    BY ONLY <1>2, <1>3, <1>10, OwnerEnds
  <1>12. Held(w, n, 1) /\ Type[n] \notin {"end", "terminate"}
    BY <1>5, <1>6, <1>11, HeldSame DEF Bounds
  <1>13. IsMarks(HostMarks, Len(sizes))
    BY <1>4, <1>6, <1>11 DEF HostMarks
  <1>. QED BY <1>1, <1>2, <1>3, <1>11, <1>12, <1>13, GoesOn

\* A boundary interrupts a multi-instance activity
LEMMA InterruptMultiSound == IInv /\ Sound /\ InterruptMulti => Sound' /\ outcome' = "running"
  <1> SUFFICES ASSUME IInv, Sound, InterruptMulti PROVE Sound' /\ outcome' = "running"
    OBVIOUS
  <1> DEFINE n == Due.node
             e == Due.act
  <1>1. Serve("multiBoundary") /\ Within(Due) /\ Live(Due) /\ UNCHANGED sizes
    BY DEF InterruptMulti, Interrupts, Serve
  <1>2. PICK w \in InterruptEntry(Now, e, {}) : \E x \in Forward(w, n, entries[e].marks) : Becomes(x)
    BY DEF InterruptMulti
  <1>3. ForCase /\ Here /\ n \in Nodes /\ Proper(Now, sizes, {}) /\ \A m : Held(Now, m, 0)
    BY <1>1, OnDuty
  <1>4. Due.kind = "multiBoundary"
    BY <1>1 DEF Serve
  <1>5. /\ e \in DOMAIN entries /\ entries[e].case = Due.case /\ entries[e].node \in Nodes /\ Bounds(n, entries[e].node)
    BY <1>1, <1>3, <1>4, MultiBoundaryOf
  <1>6. Now.entries = entries /\ Tied(Now, {}) /\ Noted(Now, sizes) /\ Good(Now, {})
    BY <1>3, NowIs DEF Proper
  <1>7. EndingAll(Now, sizes, e, {})
    BY <1>3, <1>5, <1>6 DEF EndingAll
  <1> HIDE DEF e, n
  <1>8. Proper(w, sizes, {}) /\ Held(w, Now.entries[e].node, 1) /\ IsMarks(Now.entries[e].marks, Len(sizes))
    BY ONLY <1>2, <1>3, <1>7, EntryEnds
  <1>9. Held(w, n, 1) /\ Type[n] \notin {"end", "terminate"}
    BY <1>5, <1>6, <1>8, HeldSame DEF Bounds
  <1>. QED BY <1>1, <1>2, <1>3, <1>6, <1>8, <1>9, GoesOn

\* A boundary interrupts a sub-process
LEMMA InterruptAtDeadlineSound == IInv /\ Sound /\ InterruptAtDeadline => Sound' /\ outcome' = "running"
  <1> SUFFICES ASSUME IInv, Sound, InterruptAtDeadline PROVE Sound' /\ outcome' = "running"
    OBVIOUS
  <1> DEFINE n == Due.node
             u == HostOf(n)
             m == 0
             d == Hold(n, 0)
  <1>1. Serve("deadline") /\ Within(Due) /\ Live(Due) /\ UNCHANGED sizes
    BY DEF InterruptAtDeadline, Interrupts, Serve
  <1>2. PICK w \in InterruptSubprocess(Now, u, n) : \E x \in Forward(w, n, Now.k.subs[u].marks) : Becomes(x)
    BY DEF InterruptAtDeadline
  <1>3. ForCase /\ Here /\ n \in Nodes /\ Proper(Now, sizes, {}) /\ Held(Now, n, 0) /\ Due.kind = "deadline"
    BY <1>1, OnDuty
  <1>4. /\ u \in Subs /\ Bounds(n, u) /\ Now.k.subs[u].tokens > 0 /\ NodesIn(u) # {}
        /\ IsMarks(Now.k.subs[u].marks, Len(sizes))
    BY <1>1, <1>3, DeadlineOf
  <1>5. PICK X : Opens(Now.k) /\ Weighed(Now, X, m, d)
    BY <1>3 DEF Held
  <1>6. \A v \in Subs : d[v] = 0
    BY DEF Hold
  <1>7. Round(n) \subseteq Subs
    BY <1>3, InsideIs DEF Here
  <1>8. n \in Range(Borders[u]) \cup Errors(u) /\ Type[n] \notin {"end", "terminate"}
    BY <1>4 DEF Bounds
  <1>9. m \in Nat /\ d[u] = m /\ (\A v \in Round(n) : d[v] = m) /\ \A v \in Subs : d[v] = 0
    BY <1>4, <1>6, <1>7
  <1> HIDE DEF m, d, u, n
  <1>10. InHand(Now, X, u, n, m, d)
    BY <1>4, <1>5, <1>9 DEF InHand
  <1>11. Proper(w, sizes, {}) /\ Held(w, n, 1)
    BY ONLY <1>2, <1>3, <1>4, <1>8, <1>10, InterruptedAll
  <1>. QED BY <1>1, <1>2, <1>3, <1>4, <1>8, <1>11, GoesOn

-----------------------------------------------------------------------------
(* Activities that end *)

\* What an error boundary of the node h is
LEMMA Failures ==
    ASSUME model \in Models, NEW h \in Nodes, NEW b \in Errors(h)
    PROVE  b \in Nodes /\ Type[b] \notin {"end", "terminate"} /\ Inside[b] = Inside[h]
  <1>1. b \in Nodes
    BY ErrorsOf
  <1>2. Type[b] = "error"
    <2>1. h \in DOMAIN model.type \cup DOMAIN model.nested /\ b \in Range(model.errors[h])
      BY DEF Nodes, Errors
    <2>2. model.type[b] = "error"
      BY <2>1, ModelsAssumption
    <2>. QED BY <2>2 DEF Type
  <1>3. Inside[b] = Inside[h]
    BY Scopes
  <1>. QED BY <1>1, <1>2, <1>3

\* x is w with other records of what has been done
Twins(w, x) ==
    /\ x.k = w.k /\ x.acts = w.acts /\ x.loops = w.loops /\ x.entries = w.entries /\ x.nextAct = w.nextAct
    /\ x.nextId = w.nextId /\ x.events = w.events /\ x.blocked = w.blocked

\* What is known of w is known of x
LEMMA TwinsAlike ==
    ASSUME NEW w, NEW x, Twins(w, x)
    PROVE  /\ Tied(w, {}) => Tied(x, {})
           /\ \A sz : Noted(w, sz) => Noted(x, sz)
           /\ \A n : Held(w, n, 0) => Held(x, n, 0)
  <1>1. All(x) = All(w) /\ Coming(x) = Coming(w)
    BY DEF Twins, All, Coming
  <1>2. Tied(w, {}) => Tied(x, {})
    BY <1>1 DEF Twins, Tied
  <1>3. \A sz : Noted(w, sz) => Noted(x, sz)
    <2>1. Others(w) => Others(x)
      BY DEF Twins, Others
    <2>. QED BY <1>1, <2>1 DEF Twins, Noted
  <1>4. \A X, d : Weighed(w, X, 0, d) => Weighed(x, X, 0, d)
    BY <1>1 DEF Twins, Weighed
  <1>5. \A n : Held(w, n, 0) => Held(x, n, 0)
    BY <1>4 DEF Twins, Held
  <1>. QED BY <1>2, <1>3, <1>5

\* An activity completes in a case of which everything is known
LEMMA OnCompletion ==
    ASSUME IInv, Sound, Completes
    PROVE  /\ ForCase /\ Here /\ Tied(Finished, {}) /\ Noted(Finished, sizes) /\ Good(Finished, {Due.act})
           /\ \A n : Held(Finished, n, 0)
           /\ Due.act \in DOMAIN acts /\ Ended.case = Due.case /\ Ended.node = Due.node /\ Due.node \in Nodes
           /\ Type[Due.node] \notin {"end", "terminate"}
           /\ DOMAIN Finished = WorkFields /\ Finished.k = Now.k /\ Finished.acts = acts /\ Finished.loops = loops
           /\ Finished.entries = entries /\ Finished.nextAct = nextAct /\ Finished.nextId = nextId
           /\ Finished.events = <<>> /\ Finished.blocked = blocked /\ Due \in Range(heap)
           /\ IsMarks(Ended.marks, Len(sizes))
  <1>1. /\ Here /\ Good(Finished, {Due.act}) /\ Due.node \in Nodes /\ Due.act \in DOMAIN acts /\ Ended.case = Due.case
    BY Completing
  <1>2. Serve("done") /\ Within(Due) /\ Due.kind = "done"
    BY DEF Completes, Serve
  <1>3. /\ ForCase /\ Tied(Now, {}) /\ Noted(Now, sizes) /\ Due \in Range(heap)
        /\ \A n : Held(Now, n, 0)
    BY <1>2, OnDuty
  <1>4. /\ DOMAIN Now = WorkFields /\ Now.acts = acts /\ Now.loops = loops /\ Now.entries = entries /\ Now.events = <<>>
        /\ Now.nextAct = nextAct /\ Now.nextId = nextId /\ Now.blocked = blocked
    BY <1>3, NowIs
  <1>5. Twins(Now, Finished) /\ DOMAIN Finished = WorkFields
    BY <1>4 DEF Finished, Twins, WorkFields
  <1>6. Tied(Finished, {}) /\ Noted(Finished, sizes) /\ \A n : Held(Finished, n, 0)
    BY <1>3, <1>5, TwinsAlike
  <1>7. Bordered(acts, entries, Range(heap), nextAct, nextId) /\ Kinds(acts) /\ Marked(acts, entries, Range(heap), Len(sizes))
    BY DEF Sound, SoundAt, Ties
  <1>8. Ended.node = Due.node
    BY <1>1, <1>2, <1>3, <1>7 DEF Bordered, Ended
  <1>9. Type[Due.node] \notin {"end", "terminate"}
    BY <1>1, <1>7, <1>8 DEF Kinds, Ended
  <1>10. IsMarks(Ended.marks, Len(sizes))
    BY <1>1, <1>7 DEF Marked, Ended
  <1>. QED BY <1>1, <1>3, <1>4, <1>5, <1>6, <1>8, <1>9, <1>10 DEF Twins

\* An instance of a multi-instance activity fails
LEMMA InstanceFailsSound == IInv /\ Sound /\ InstanceFails => Sound' /\ outcome' = "running"
  <1> SUFFICES ASSUME IInv, Sound, InstanceFails PROVE Sound' /\ outcome' = "running"
    OBVIOUS
  <1> DEFINE n == Due.node
             e == Ended.entry
             s == {Due.act}
  <1>1. Completes /\ e # 0 /\ UNCHANGED sizes
    BY DEF InstanceFails
  <1>2. PICK b \in Errors(n) : \E w \in InterruptEntry(Finished, e, s) : \E x \in Forward(w, b, Ended.marks) : Becomes(x)
    BY DEF InstanceFails
  <1>3. PICK w \in InterruptEntry(Finished, e, s) : \E x \in Forward(w, b, Ended.marks) : Becomes(x)
    BY <1>2
  <1>4. /\ ForCase /\ Here /\ Tied(Finished, {}) /\ Noted(Finished, sizes) /\ Good(Finished, s)
        /\ (\A m : Held(Finished, m, 0)) /\ Due.act \in DOMAIN acts /\ Ended.case = Due.case /\ Ended.node = n /\ n \in Nodes
        /\ Finished.acts = acts /\ Finished.entries = entries /\ IsMarks(Ended.marks, Len(sizes))
    BY <1>1, OnCompletion
  <1>5. e \in DOMAIN entries /\ entries[e].node = n /\ entries[e].case = Due.case
    <2>1. Entered(acts, entries, nextId, {})
      BY DEF IInv, Ordered
    <2>. QED BY <1>1, <1>4, <2>1 DEF Entered, Ended
  <1>6. EndingAll(Finished, sizes, e, s)
    BY <1>4, <1>5 DEF EndingAll, Ended
  <1>7. b \in Nodes /\ Type[b] \notin {"end", "terminate"} /\ Inside[b] = Inside[n]
    BY <1>4, Failures DEF Here
  <1> HIDE DEF e, s, n
  <1>8. Proper(w, sizes, {}) /\ Held(w, Finished.entries[e].node, 1)
    BY ONLY <1>3, <1>4, <1>6, EntryEnds
  <1>9. Held(w, n, 1)
    BY <1>4, <1>5, <1>8
  <1>10. Held(w, b, 1)
    BY <1>7, <1>9, HeldSame
  <1>. QED BY <1>1, <1>3, <1>4, <1>7, <1>8, <1>10, GoesOn

\* An activity is done, and its token goes on
LEMMA DoneSound == IInv /\ Sound /\ Done => Sound' /\ outcome' = "running"
  <1> SUFFICES ASSUME IInv, Sound, Done PROVE Sound' /\ outcome' = "running"
    OBVIOUS
  <1> DEFINE n == Due.node
             i == Due.act
             ls == {Ended.loop}
             y == [Finished EXCEPT !.loops = Without(@, ls)]
  <1>1. Completes /\ Ended.entry = 0 /\ UNCHANGED sizes
    BY DEF Done
  <1>2. PICK b \in {n} \cup Errors(n) : \E w \in Released(y, {i}) : \E x \in Forward(w, b, Ended.marks) : Becomes(x)
    BY DEF Done
  <1>3. PICK w \in Released(y, {i}) : \E x \in Forward(w, b, Ended.marks) : Becomes(x)
    BY <1>2
  <1>4. /\ ForCase /\ Here /\ Tied(Finished, {}) /\ Noted(Finished, sizes) /\ Good(Finished, {i})
        /\ (\A m : Held(Finished, m, 0)) /\ i \in DOMAIN acts /\ Ended.case = Due.case /\ Ended.node = n /\ n \in Nodes
        /\ DOMAIN Finished = WorkFields /\ Finished.acts = acts /\ IsMarks(Ended.marks, Len(sizes))
        /\ Type[n] \notin {"end", "terminate"} /\ Ended = acts[i] /\ "instant" \in DOMAIN Finished.k
    BY <1>1, OnCompletion DEF Ended, Good
  <1>5. Retold(Finished, y) /\ y.k = Finished.k /\ y.blocked = Finished.blocked /\ Fewer(Finished.loops, y.loops, ls)
    <2>1. y.loops = Without(Finished.loops, ls)
      BY <1>4 DEF WorkFields
    <2>2. Fewer(Finished.loops, y.loops, ls)
      BY <2>1 DEF Fewer, Without
    <2>. QED BY <1>4, <2>2 DEF Retold, WorkFields
  <1>6. ls \subseteq {Finished.acts[i].loop}
    BY <1>4
  <1> HIDE DEF y, i, ls, n
  <1>7. Ending(Finished, y, sizes, i, ls)
    BY <1>1, <1>4, <1>5, <1>6 DEF Ending
  <1>8. Proper(w, sizes, {}) /\ Held(w, Finished.acts[i].node, 1)
    BY ONLY <1>3, <1>4, <1>7, OwnerEnds
  <1>9. Held(w, n, 1)
    BY <1>4, <1>8
  <1>10. b \in Nodes /\ Type[b] \notin {"end", "terminate"} /\ Inside[b] = Inside[n]
    BY <1>4, Failures DEF Here
  <1>11. Held(w, b, 1)
    BY <1>9, <1>10, HeldSame
  <1>. QED BY <1>1, <1>3, <1>4, <1>8, <1>10, <1>11, GoesOn

-----------------------------------------------------------------------------
(* Activities that are repeated *)

\* A token next is sent that goes on with the loop l of w, with which nothing goes on
Repeats(w, x, sz, l, next) ==
    /\ Proper(w, sz, {}) /\ Good(x, {}) /\ x.k = w.k /\ x.acts = w.acts /\ x.entries = w.entries /\ x.nextAct = w.nextAct
    /\ x.nextId = w.nextId /\ x.blocked = w.blocked /\ x.events = w.events \o <<next>>
    /\ l \in DOMAIN w.loops /\ \E v : x.loops = [w.loops EXCEPT ![l].iteration = v]
    /\ Returning(next) /\ next.loop = l /\ next.kind = "enter" /\ next.case = Due.case /\ next.node \in Nodes
    /\ next.epoch = EpochAt(w.k, next.node) /\ IsMarks(next.marks, Len(sz))
    /\ \A i \in DOMAIN w.acts : w.acts[i].loop # l
    /\ \A f \in Coming(w) : Returning(f) => f.loop # l
    /\ \A f \in Coming(w) : f.kind = "boundary" /\ f.act = l => Guards(f, next)

\* What is known of w is known of x: nothing else goes on with the loop
LEMMA Repeated ==
    ASSUME Here, NEW w, NEW x, NEW sz, NEW l, NEW next, Repeats(w, x, sz, l, next)
    PROVE  Proper(x, sz, {})
  <1>1. Good(w, {}) /\ Tied(w, {}) /\ Noted(w, sz) /\ Good(x, {}) /\ Sequence(w.events)
    BY DEF Repeats, Proper, Good
  <1>2. Sequence(<<next>>) /\ Range(<<next>>) = {next}
    BY Single
  <1>3. x.events = w.events \o <<next>>
    BY DEF Repeats
  <1>4. All(x) = All(w) \o <<next>> /\ Range(All(w)) = Coming(w)
    BY ONLY Here, <1>1, <1>2, <1>3, AheadLonger
  <1>5. PICK v : x.loops = [w.loops EXCEPT ![l].iteration = v]
    BY DEF Repeats
  <1>6. Tied(x, {})
    <2> DEFINE A == w.acts
               L == w.loops
               N == w.entries
               h == All(w)
               na == w.nextAct
               ni == w.nextId
               X == {}
               K == [L EXCEPT ![l].iteration = v]
    <2>1. Ties(A, L, N, h, na, ni, X) /\ Returning(next) /\ next.loop = l /\ l \in DOMAIN L
          /\ (\A i \in DOMAIN A : A[i].loop # l)
          /\ (\A f \in Range(h) : Returning(f) => f.loop # l)
          /\ (\A f \in Range(h) : f.kind = "boundary" /\ f.act = l => Guards(f, next))
      BY <1>1, <1>4 DEF Repeats, Tied
    <2>2. x.acts = A /\ x.loops = K /\ x.entries = N /\ x.nextAct = na /\ x.nextId = ni /\ All(x) = h \o <<next>>
      BY <1>4, <1>5 DEF Repeats
    <2>3. K = [L EXCEPT ![next.loop].iteration = v]
      BY <2>1
    <2> HIDE DEF A, L, N, h, na, ni, X, K
    <2>4. Ties(A, K, N, h \o <<next>>, na, ni, X)
      BY ONLY <2>1, <2>3, ReturnTies
    <2>5. InTime(w.acts, Tail(heap), w.events \o <<next>>)
      <3>1. InTime(w.acts, Tail(heap), w.events)
        BY <1>1 DEF Tied
      <3>2. next.kind = "enter"
        BY DEF Repeats
      <3>3. \A f \in Range(<<next>>) : \A i \in DOMAIN w.acts : ~Watched(f, i, w.acts[i])
        BY <1>2, <3>2, Unwatched
      <3>. QED BY <1>1, <1>2, <3>1, <3>3, InTimeMore
    <2>6. Tied(x, X)
      BY <1>3, <2>2, <2>4, <2>5 DEF Tied, A
    <2>. QED BY <2>6 DEF X
  <1>7. Noted(x, sz)
    <2>1. CaseIs(w.k, sz) /\ Going(w.k) /\ \A u \in Subs : w.k.subs[u].epoch \in Nat
      BY <1>1 DEF Noted, CaseIs, IsSub
    <2>2. \A u \in Subs : w.k.subs[u].epoch <= x.k.subs[u].epoch
      BY <2>1 DEF Repeats
    <2>3. EpochAt(w.k, next.node) \in Nat
      <3>1. CASE Inside[next.node] = <<>>
        BY <3>1 DEF EpochAt
      <3>2. CASE Inside[next.node] # <<>>
        <4>1. Inside[next.node] \in Seq(Subs)
          BY InsideIs DEF Repeats, Here
        <4>2. Head(Inside[next.node]) \in Subs
          BY <3>2, <4>1
        <4>. QED BY <2>1, <3>2, <4>2 DEF EpochAt
      <3>. QED BY <3>1, <3>2
    <2>4. \A i \in DOMAIN w.acts : AlikeAt(w.acts, w.acts, i)
      BY DEF AlikeAt
    <2>5. x.k = w.k /\ x.acts = w.acts /\ x.entries = w.entries /\ x.blocked = w.blocked
      BY DEF Repeats
    <2>6. /\ next.case = Due.case /\ IsMarks(next.marks, Len(sz)) /\ next.epoch \in Nat /\ next.epoch <= EpochAt(x.k, next.node)
      BY <2>3, <2>5 DEF Repeats
    <2>7. Notes(w, x, sz)
      BY <1>2, <1>3, <2>1, <2>2, <2>4, <2>5, <2>6 DEF Notes
    <2>. QED BY <1>1, <2>7, NotedNext
  <1>. QED BY <1>1, <1>6, <1>7 DEF Proper

\* An activity is done, and its loop begins again
LEMMA IterateSound == IInv /\ Sound /\ Iterate => Sound' /\ outcome' = "running"
  <1> SUFFICES ASSUME IInv, Sound, Iterate PROVE Sound' /\ outcome' = "running"
    OBVIOUS
  <1> DEFINE n == Due.node
             i == Due.act
             l == Ended.loop
  <1>1. Completes /\ Ended.entry = 0 /\ UNCHANGED sizes /\ TRUE \in Again
    BY DEF Iterate
  <1>2. PICK w \in Released(Finished, {i}) :
          Becomes([w EXCEPT !.loops[l].iteration = @ + 1,
                            !.events = Append(@, Enter(Due.t, Due.case, n, Ended.marks, Times[n], EpochAt(w.k, n), l))])
    BY DEF Iterate
  <1> DEFINE next == Enter(Due.t, Due.case, n, Ended.marks, Times[n], EpochAt(w.k, n), l)
             y == [w EXCEPT !.events = @ \o <<next>>]
             x == [w EXCEPT !.loops[l].iteration = @ + 1, !.events = Append(@, next)]
  <1>3. /\ ForCase /\ Here /\ Tied(Finished, {}) /\ Noted(Finished, sizes) /\ Good(Finished, {i})
        /\ (\A m : Held(Finished, m, 0)) /\ i \in DOMAIN acts /\ Ended.case = Due.case /\ Ended.node = n /\ n \in Nodes
        /\ DOMAIN Finished = WorkFields /\ Finished.acts = acts /\ IsMarks(Ended.marks, Len(sizes))
        /\ Ended = acts[i] /\ "instant" \in DOMAIN Finished.k /\ Finished.loops = loops /\ Finished.events = <<>>
    BY <1>1, OnCompletion DEF Ended, Good
  <1>4. Retold(Finished, Finished) /\ Fewer(Finished.loops, Finished.loops, {})
    BY <1>3 DEF Retold, Fewer
  <1>5. Ending(Finished, Finished, sizes, i, {})
    BY <1>1, <1>3, <1>4 DEF Ending
  <1>6. Proper(w, sizes, {}) /\ Held(w, Finished.acts[i].node, 1) /\ Cut(Finished, w, {i}, {}, {})
    BY ONLY <1>2, <1>3, <1>5, OwnerEnds
  <1>7. Held(w, n, 1) /\ Good(w, {})
    BY <1>3, <1>6 DEF Proper
  <1>8. l # 0
    BY <1>1 DEF Again
  <1>9. Looped(acts, loops, Coming(Finished), nextAct) /\ Bordered(acts, entries, Range(heap), nextAct, nextId)
        /\ Looped(acts, loops, Range(heap), nextAct)
    <2>1. Coming(Finished) = Range(Tail(heap))
      BY <1>3, Empty DEF Coming
    <2>2. Looped(acts, loops, Range(heap), nextAct) /\ Bordered(acts, entries, Range(heap), nextAct, nextId)
      BY DEF Sound, SoundAt, Ties
    <2>3. Range(Tail(heap)) \subseteq Range(heap)
      BY <1>3, NowIs
    <2>. QED BY <2>1, <2>2, <2>3 DEF Looped
  <1>10. l \in DOMAIN loops /\ loops[l].current = i
    BY <1>3, <1>8, <1>9 DEF Looped
  <1>11. /\ DOMAIN w.loops = DOMAIN loops /\ DOMAIN w.acts = DOMAIN acts \ {i}
         /\ \A j \in DOMAIN w.acts : w.acts[j].loop = acts[j].loop
    BY <1>3, <1>6 DEF Cut, Fewer, Alike
  <1>12. \A j \in DOMAIN w.acts : w.acts[j].loop # l
    BY <1>8, <1>9, <1>10, <1>11 DEF Looped
  <1>13. PICK ev : Quiet(ev, w.acts) /\ w.events = Finished.events \o ev
    BY <1>6 DEF Cut
  <1>14. Coming(w) \subseteq Range(heap) \cup Range(ev)
    <2>1. Sequence(ev)
      BY <1>13 DEF Quiet
    <2>2. w.events = ev
      BY <1>3, <1>13, <2>1, WithNothing
    <2>3. Range(Tail(heap)) \subseteq Range(heap)
      BY <1>3, NowIs
    <2>. QED BY <2>2, <2>3 DEF Coming
  <1>15. \A f \in Coming(w) : Returning(f) => f.loop # l
    BY <1>3, <1>9, <1>13, <1>14 DEF Looped, Quiet, Returning
  <1>16. /\ next.t = Due.t /\ next.kind = "enter" /\ next.node = n /\ next.case = Due.case /\ next.marks = Ended.marks
         /\ next.times = Times[n] /\ next.epoch = EpochAt(w.k, n) /\ next.loop = l
    BY DEF Enter
  <1> HIDE DEF next
  <1>17. \A f \in Coming(w) : f.kind = "boundary" /\ f.act = l => Guards(f, next)
    <2>1. \A f \in Coming(w) : f.kind = "boundary" => f \in Range(heap)
      BY <1>13, <1>14 DEF Quiet
    <2>2. \A f \in Range(heap) : f.kind = "boundary" /\ f.act = l => Guards(f, acts[i])
      BY <1>3, <1>9 DEF Bordered
    <2>. QED BY <1>3, <1>16, <2>1, <2>2 DEF Guards
  <1>18. Good(y, {})
    <2>1. Times[n] \subseteq Nat
      BY <1>3, Statics DEF Here
    <2>2. IsMore(<<next>>, w.nextAct)
      BY <1>3, <1>16, <2>1, Single DEF IsMore, IsEvent, Here
    <2>. QED BY <1>3, <1>7, <2>2, Adding
  <1>19. Append(w.events, next) = w.events \o <<next>>
    BY <1>7, Appended DEF Good
  <1>20. /\ Retold(y, x) /\ x.k = w.k /\ x.acts = w.acts /\ x.entries = w.entries /\ x.nextAct = w.nextAct
         /\ x.nextId = w.nextId /\ x.blocked = w.blocked /\ x.events = w.events \o <<next>>
         /\ x.loops = [w.loops EXCEPT ![l].iteration = @ + 1]
    BY <1>7, <1>18, <1>19 DEF Retold, Good, WorkFields
  <1>21. Becomes(x)
    BY <1>2 DEF next
  <1> HIDE DEF x, y, l, n, i
  <1>22. Good(x, {})
    BY <1>18, <1>20, Retelling
  <1>23. \E v : x.loops = [w.loops EXCEPT ![l].iteration = v]
    BY <1>20
  <1>24. Returning(next)
    BY <1>8, <1>16 DEF Returning
  <1>25. Repeats(w, x, sizes, l, next)
    BY <1>3, <1>6, <1>10, <1>11, <1>12, <1>15, <1>16, <1>17, <1>20, <1>22, <1>23, <1>24 DEF Repeats
  <1>26. Proper(x, sizes, {})
    BY <1>3, <1>25, Repeated
  <1>27. Fresh(w.k, next) /\ Sequence(w.events)
    BY <1>7, <1>16 DEF Fresh, Good
  <1>28. Emits(w, x, next)
    BY <1>3, <1>16, <1>20, <1>27 DEF Emits
  <1>29. Held(x, n, 1 - 1)
    BY <1>3, <1>7, <1>16, <1>28, EmitHeld
  <1>30. \E m \in Nodes : Held(x, m, 0)
    BY <1>3, <1>29
  <1>. QED BY ONLY <1>1, <1>3, <1>21, <1>26, <1>30, HeldSound

-----------------------------------------------------------------------------
(* Activities that begin *)

\* The boundary timers of a host
Watches(ev, kind, host, i) ==
    /\ Sequence(ev)
    /\ \A e \in Range(ev) : e.kind = kind /\ e.act = i /\ e.case = Due.case /\ e.node \in Range(Borders[host])

\* The timers that are armed are of that kind, of that host and of the case that is due
LEMMA ArmedWatch ==
    ASSUME Here, NEW kind \in {"boundary", "multiBoundary", "deadline"}, NEW n \in Nodes, NEW i, NEW delay \in Delays(n),
           NEW ev, ev = Armed(kind, n, i, delay)
    PROVE  Watches(ev, kind, n, i)
  <1>1. IsMore(ev, 0)
    BY Arming
  <1>2. Sequence(ev)
    BY <1>1 DEF IsMore
  <1>3. \A j \in DOMAIN ev : /\ ev[j].kind = kind /\ ev[j].act = i /\ ev[j].case = Due.case
                             /\ ev[j].node = Borders[n][j] /\ j \in DOMAIN Borders[n]
    BY DEF Armed, Event
  <1>4. ASSUME NEW e \in Range(ev) PROVE e.kind = kind /\ e.act = i /\ e.case = Due.case /\ e.node \in Range(Borders[n])
    <2>1. PICK j \in DOMAIN ev : ev[j] = e
      BY DEF Range
    <2>. QED BY <2>1, <1>3 DEF Range
  <1>. QED BY <1>2, <1>4 DEF Watches

\* Boundaries are armed for what is about to come to w
Arms(w, v, sz, ev) ==
    /\ Good(w, {}) /\ Noted(w, sz) /\ v.k = w.k /\ v.acts = w.acts /\ v.blocked = w.blocked
    /\ Sequence(ev) /\ v.events = w.events \o ev /\ \A e \in Range(ev) : e.kind # "enter"
    /\ \A e \in DOMAIN v.entries : \/ e \in DOMAIN w.entries /\ v.entries[e] = w.entries[e]
                                   \/ v.entries[e].case = Due.case /\ IsMarks(v.entries[e].marks, Len(sz))
    /\ \A e \in DOMAIN w.entries : e \in DOMAIN v.entries /\ v.entries[e] = w.entries[e]

\* What is noted of the case stays true
LEMMA ArmedNoted ==
    ASSUME Here, NEW w, NEW v, NEW sz, NEW ev, Arms(w, v, sz, ev)
    PROVE  Noted(v, sz)
  <1>1. Good(w, {}) /\ Noted(w, sz) /\ CaseIs(w.k, sz) /\ Going(w.k) /\ \A u \in Subs : w.k.subs[u].epoch \in Nat
    BY DEF Arms, Noted, CaseIs, IsSub
  <1>2. \A u \in Subs : w.k.subs[u].epoch <= v.k.subs[u].epoch
    BY <1>1 DEF Arms
  <1>3. \A i \in DOMAIN w.acts : AlikeAt(w.acts, w.acts, i)
    BY DEF AlikeAt
  <1>4. Notes(w, v, sz)
    BY <1>1, <1>2, <1>3 DEF Arms, Notes
  <1>. QED BY <1>1, <1>4, NotedNext

\* A token opens an activity
LEMMA OpenSound == IInv /\ Sound /\ Open => Sound' /\ outcome' = "running"
  <1> SUFFICES ASSUME IInv, Sound, Open PROVE Sound' /\ outcome' = "running"
    OBVIOUS
  <1> DEFINE n == Due.node
             first == Due.loop = 0
             loop == IF ~first THEN Due.loop ELSE IF model.loop[n] > 0 THEN nextAct ELSE 0
             w == [Now EXCEPT !.loops =
                    IF loop = 0 THEN @
                    ELSE IF first THEN With(@, loop, [iteration |-> 1, current |-> nextAct])
                    ELSE [@ EXCEPT ![loop].current = nextAct]]
  <1>1. Serve("enter") /\ Within(Due) /\ UNCHANGED sizes /\ Type[n] \in {"task", "timer"} /\ Due.kind = "enter"
    BY DEF Open, ServeNode, Serve
  <1>2. PICK lasts \in Due.times, delay \in Delays(n) :
           \E x \in Arranged(w, IF first THEN Armed("boundary", n, nextAct, delay) ELSE <<>>,
                             Activity(n, Due.marks, lasts, loop, 0)) : Becomes(x)
    BY DEF Open
  <1> DEFINE armed == IF first THEN Armed("boundary", n, nextAct, delay) ELSE <<>>
             new == Activity(n, Due.marks, lasts, loop, 0)
             y == [w EXCEPT !.events = @ \o armed]
  <1>3. PICK x \in Scheduled(y, new) : Becomes(x)
    BY <1>2 DEF Arranged
  <1>4. /\ ForCase /\ Here /\ n \in Nodes /\ lasts \in Nat /\ Proper(Now, sizes, {}) /\ Good(Now, {}) /\ Tied(Now, {})
        /\ Noted(Now, sizes) /\ Held(Now, n, 1) /\ IsMarks(Due.marks, Len(sizes))
    BY <1>1, <1>2, OnDuty
  <1>5. /\ DOMAIN Now = WorkFields /\ Now.acts = acts /\ Now.loops = loops /\ Now.entries = entries /\ Now.events = <<>>
        /\ Now.nextAct = nextAct /\ Now.nextId = nextId /\ Now.blocked = blocked /\ All(Now) = Tail(heap)
        /\ Coming(Now) = Range(Tail(heap)) /\ Range(heap) = {Due} \cup Range(Tail(heap)) /\ Sequence(heap)
    BY <1>4, NowIs
  <1>6. /\ armed = <<>> \/ (first /\ Watches(armed, "boundary", n, nextAct))
        /\ Sequence(armed) /\ \A e \in Range(armed) : e.kind = "boundary"
    <2>1. CASE first
      <3>1. Watches(armed, "boundary", n, nextAct)
        BY <1>4, <2>1, ArmedWatch
      <3>. QED BY <2>1, <3>1 DEF Watches
    <2>2. CASE ~first
      BY <2>2, Empty
    <2>. QED BY <2>1, <2>2
  <1>7. w.loops = IF loop = 0 THEN loops
                  ELSE IF first THEN With(loops, loop, [iteration |-> 1, current |-> nextAct])
                  ELSE [loops EXCEPT ![loop].current = nextAct]
    BY <1>5 DEF WorkFields
  <1>8. new.case = Due.case /\ new.node = n /\ new.marks = Due.marks /\ new.loop = loop /\ new.entry = 0
    BY DEF Activity
  <1>9. loop = Due.loop \/ (first /\ loop \in {0, nextAct})
    OBVIOUS
  <1> HIDE DEF loop
  <1>10. /\ DOMAIN w = WorkFields /\ w.k = Now.k /\ w.acts = acts /\ w.entries = entries /\ w.nextAct = nextAct
         /\ w.nextId = nextId /\ w.events = Now.events /\ w.blocked = blocked /\ w.pending = Now.pending
    BY <1>5 DEF WorkFields
  <1>11. Retold(Now, w)
    BY <1>4, <1>5, <1>10 DEF Retold, Good
  <1> HIDE DEF w
  <1>12. Good(w, {})
    BY <1>4, <1>11, Retelling
  <1>13. IsMore(armed, w.nextAct)
    BY <1>2, <1>4, Arming, NothingMore
  <1> HIDE DEF armed
  <1>14. Good(y, {})
    BY <1>4, <1>12, <1>13, Adding
  <1>15. /\ y.k = Now.k /\ y.acts = acts /\ y.loops = w.loops /\ y.entries = entries /\ y.nextAct = nextAct
         /\ y.nextId = nextId /\ y.blocked = blocked /\ y.events = Now.events \o armed
    BY <1>10 DEF WorkFields
  <1> HIDE DEF y
  <1>16. IsNew(y, new)
    BY <1>4, ActivityNew
  <1> HIDE DEF new
  <1>17. Begun(y, new, x)
    BY <1>3, <1>4, <1>14, <1>16, ScheduledBegins
  <1>18. /\ All(y) = Tail(heap) \o armed /\ Coming(y) = Range(Tail(heap)) \cup Range(armed) /\ Range(All(y)) = Coming(y)
    <2>1. Sequence(Now.events)
      BY <1>4 DEF Good
    <2>2. All(y) = All(Now) \o armed /\ Coming(y) = Coming(Now) \cup Range(armed) /\ Range(All(y)) = Coming(y)
      BY ONLY <1>4, <1>6, <1>15, <2>1, AheadLonger
    <2>. QED BY <1>5, <2>2
  <1>19. /\ Lone(heap) /\ Looped(acts, loops, Range(heap), nextAct) /\ Bordered(acts, entries, Range(heap), nextAct, nextId)
         /\ Populated(acts, entries, {}) /\ Kinds(acts) /\ Lone(Tail(heap)) /\ Sequence(Tail(heap))
         /\ nextAct \in Nat \ {0}
         /\ Returning(Due) => \A e \in Range(Tail(heap)) : Returning(e) => e.loop # Due.loop
    <2>1. /\ Lone(heap) /\ Looped(acts, loops, Range(heap), nextAct) /\ Bordered(acts, entries, Range(heap), nextAct, nextId)
          /\ Populated(acts, entries, {}) /\ Kinds(acts)
      BY DEF Sound, SoundAt, Ties
    <2>2. nextAct \in Nat \ {0}
      BY <1>4, <1>5 DEF Good, Acts
    <2>3. heap # <<>>
      BY <1>4 DEF ForCase, Running
    <2>4. Lone(Tail(heap)) /\ Sequence(Tail(heap)) /\ (Returning(Head(heap)) => \A e \in Range(Tail(heap)) : Returning(e) => e.loop # Head(heap).loop)
      BY ONLY <1>5, <2>1, <2>3, LoneShorter
    <2>. QED BY <2>1, <2>2, <2>4 DEF Due
  <1>20. Lone(All(y))
    <2>1. \A e \in Range(armed) : ~Returning(e)
      BY <1>6 DEF Returning
    <2>. QED BY <1>6, <1>18, <1>19, <2>1, LoneLonger
  <1>21. \A e \in Coming(y) : \/ e \in Range(Tail(heap)) /\ e \in Range(heap)
                              \/ e.kind = "boundary" /\ e \in Range(armed)
    <2> SUFFICES ASSUME NEW e \in Coming(y)
                 PROVE  (e \in Range(Tail(heap)) /\ e \in Range(heap)) \/ (e.kind = "boundary" /\ e \in Range(armed))
      OBVIOUS
    <2>1. CASE e \in Range(Tail(heap))
      BY <1>5, <2>1
    <2>2. CASE e \in Range(armed)
      BY <1>6, <2>2
    <2>. QED BY <1>18, <2>1, <2>2
  <1>22. Looped(acts, loops, Coming(y), nextAct)
    BY <1>19, <1>21 DEF Looped, Returning
  <1>23. \A e \in Range(armed) : /\ first /\ e.kind = "boundary" /\ e.act = nextAct /\ e.case = Due.case
                                 /\ e.node \in Range(Borders[n])
    BY <1>6, Empty DEF Watches
  <1>24. Bordered(acts, entries, Coming(y), nextAct + 1, nextId)
    <2> DEFINE na == nextAct + 1
    <2>1. ASSUME NEW e \in Coming(y), e.kind = "boundary"
          PROVE  /\ e.act \in 1 .. na - 1
                 /\ \A i \in DOMAIN acts : i = e.act \/ acts[i].loop = e.act => Guards(e, acts[i]) /\ acts[i].entry = 0
                 /\ \A f \in Coming(y) : Returning(f) /\ f.loop = e.act => Guards(e, f)
      <3>1. \A f \in Coming(y) : Returning(f) => f \in Range(heap) /\ f.loop \in DOMAIN loops
        BY <1>19, <1>21 DEF Returning, Looped
      <3>2. CASE e \in Range(heap)
        BY <1>19, <2>1, <3>1, <3>2 DEF Bordered
      <3>3. CASE e \in Range(armed)
        <4>1. e.act = nextAct
          BY <1>23, <3>3
        <4>2. DOMAIN loops \subseteq 1 .. nextAct - 1 /\ DOMAIN acts \subseteq 1 .. nextAct - 1
          BY <1>4, <1>5, <1>19 DEF Looped, Good, Acts
        <4>3. \A i \in DOMAIN acts : acts[i].loop # nextAct
          BY <1>19, <4>2 DEF Looped
        <4>. QED BY <1>19, <3>1, <4>1, <4>2, <4>3
      <3>. QED BY <1>21, <3>2, <3>3
    <2>2. ASSUME NEW e \in Coming(y), e.kind # "boundary"
          PROVE  e \in Range(heap)
      BY <1>21, <2>2
    <2>3. \A e \in Coming(y) :
             /\ e.kind = "multiBoundary" =>
                   e.act \in 1 .. nextId - 1 /\ (e.act \in DOMAIN entries => Guards(e, entries[e.act]))
             /\ e.kind = "done" /\ e.act \in DOMAIN acts => acts[e.act].node = e.node
             /\ e.kind = "deadline" =>
                   e.act \in 1 .. nextId - 1 /\ \E u \in Subs : e.node \in Range(Borders[u])
      BY <1>19, <2>2 DEF Bordered
    <2> HIDE DEF na
    <2>4. Bordered(acts, entries, Coming(y), na, nextId)
      BY <2>1, <2>3 DEF Bordered
    <2>. QED BY <2>4 DEF na
  <1>25. Due.loop # 0 => Returning(Due) /\ Due.loop \in DOMAIN loops /\ Due \in Range(heap)
    BY <1>1, <1>5, <1>19 DEF Returning, Looped
  <1>26. \A e \in Coming(y) : e.kind = "boundary" /\ (e.act = nextAct \/ e.act = loop) => Guards(e, new) /\ new.entry = 0
    <2> SUFFICES ASSUME NEW e \in Coming(y), e.kind = "boundary", e.act = nextAct \/ e.act = loop PROVE Guards(e, new)
      BY <1>8
    <2>1. CASE e \in Range(armed)
      BY <1>8, <1>23, <2>1 DEF Guards
    <2>2. CASE e \in Range(heap)
      <3>1. e.act \in 1 .. nextAct - 1 /\ \A f \in Range(heap) : Returning(f) /\ f.loop = e.act => Guards(e, f)
        BY <1>19, <2>2 DEF Bordered
      <3>2. e.act = Due.loop /\ Due.loop # 0
        BY <1>9, <1>19, <3>1
      <3>. QED BY <1>8, <1>25, <3>1, <3>2 DEF Guards
    <2>. QED BY <1>21, <2>1, <2>2
  <1>27. LoopsWith(acts, loops, Coming(y), y.loops, nextAct, loop)
    <2>1. CASE loop = 0
      BY <1>7, <1>15, <2>1 DEF LoopsWith
    <2>2. CASE loop # 0 /\ first
      BY <1>7, <1>9, <1>15, <2>2 DEF LoopsWith
    <2>3. CASE loop # 0 /\ ~first
      <3>1. loop = Due.loop /\ loop \in DOMAIN loops /\ y.loops = [loops EXCEPT ![loop].current = nextAct]
        BY <1>7, <1>9, <1>15, <1>25, <2>3
      <3>2. \A i \in DOMAIN acts : acts[i].loop # loop
        BY <1>19, <1>25, <2>3, <3>1 DEF Looped
      <3>3. \A e \in Coming(y) : Returning(e) => e.loop # loop
        BY <1>19, <1>21, <1>25, <2>3, <3>1 DEF Returning
      <3>. QED BY <3>1, <3>2, <3>3 DEF LoopsWith
    <2>. QED BY <2>1, <2>2, <2>3
  <1>a. InTime(y.acts, Tail(heap), y.events)
    <2>1. ASSUME NEW e \in Range(armed), NEW i \in DOMAIN acts PROVE ~Watched(e, i, acts[i])
      <3>1. DOMAIN loops \subseteq 1 .. nextAct - 1 /\ i \in 1 .. nextAct - 1
        BY <1>4, <1>5, <1>19, <2>1 DEF Looped, Good, Acts
      <3>2. acts[i].loop # nextAct /\ i # nextAct
        BY <1>19, <2>1, <3>1 DEF Looped
      <3>. QED BY <1>23, <2>1, <3>2 DEF Watched
    <2>2. InTime(acts, Tail(heap), Now.events) /\ Sequence(Now.events)
      BY <1>4, <1>5 DEF Tied, Good
    <2>3. InTime(acts, Tail(heap), Now.events \o armed)
      BY <1>6, <2>1, <2>2, InTimeMore
    <2>. QED BY <1>15, <2>3
  <1> DEFINE X == {}
  <1>28. Awaits(y, new, loops, X)
    BY <1>1, <1>8, <1>14, <1>15, <1>19, <1>20, <1>22, <1>24, <1>26, <1>27, <1>a DEF Awaits
  <1> HIDE DEF X
  <1>29. Tied(x, X)
    BY ONLY <1>4, <1>17, <1>28, BegunTied
  <1>30. Noted(y, sizes)
    <2>1. Arms(Now, y, sizes, armed)
      BY <1>4, <1>5, <1>6, <1>15 DEF Arms
    <2>. QED BY <1>4, <2>1, ArmedNoted
  <1>31. Noted(x, sizes)
    BY <1>4, <1>8, <1>14, <1>17, <1>30, BegunNoted
  <1>32. Held(y, n, 1)
    <2>1. SameEpochs(Now.k, y.k) /\ y.events = Now.events \o armed
      BY <1>15 DEF SameEpochs
    <2>2. Sequence(All(Now)) /\ Sequence(All(y)) /\ \A N : EntersAt(All(y), y.k, Due.case, N) = EntersAt(All(Now), Now.k, Due.case, N)
      <3>1. \A e \in Range(armed) : e.kind # "enter"
        BY <1>6
      <3>. QED BY ONLY <1>4, <1>6, <2>1, <3>1, AheadQuiet
    <2>3. \A Y : Stocked(Now, Y) => Stocked(y, Y) /\ \A N : Worth(y, Y, N) = Worth(Now, Y, N)
      <3>1. ASSUME NEW Y, Stocked(Now, Y) PROVE Stocked(y, Y) /\ \A N : Worth(y, Y, N) = Worth(Now, Y, N)
        <4>1. Stocked(y, Y)
          BY <1>5, <1>15, <2>2, <3>1 DEF Stocked, Stock
        <4>2. \A N : Worth(y, Y, N) = Worth(Now, Y, N)
          BY <1>5, <1>15, <2>2 DEF Worth, Total
        <4>. QED BY <4>1, <4>2
      <3>. QED BY <3>1
    <2>4. y.k.tokens = Now.k.tokens /\ y.k.subs = Now.k.subs /\ y.blocked = Now.blocked /\ 1 \in Int
      BY <1>5, <1>15
    <2>. QED BY ONLY <1>4, <2>3, <2>4, StillHeld
  <1>33. Held(x, n, 0)
    <2>1. CaseIs(y.k, sizes) /\ 1 \in Int
      BY <1>30 DEF Noted
    <2>2. Held(x, n, IF new.entry = 0 THEN 1 - 1 ELSE 1)
      BY ONLY <1>4, <1>8, <1>14, <1>17, <1>32, <2>1, BegunHeld
    <2>3. (IF new.entry = 0 THEN 1 - 1 ELSE 1) = 0
      BY <1>8
    <2>. QED BY <2>2, <2>3
  <1>34. Proper(x, sizes, {}) /\ \E m \in Nodes : Held(x, m, 0)
    BY <1>4, <1>17, <1>29, <1>31, <1>33 DEF Proper, Begun, X
  <1>. QED BY ONLY <1>1, <1>3, <1>4, <1>34, HeldSound

-----------------------------------------------------------------------------
(* Multi-instance tasks *)

\* The instances of an entry
Crew(A, e) == {i \in DOMAIN A : A[i].entry = e}

\* An entry of w of which everything is known but the number of its instances
Staffed(w, sz, e) ==
    /\ HasEntry(w, e) /\ Tied(w, {e}) /\ Noted(w, sz) /\ Held(w, w.entries[e].node, 0)
    /\ Type[w.entries[e].node] \in {"task", "timer"} /\ w.entries[e].enabled \in Nat
    /\ "enabled" \in DOMAIN w.entries[e]

\* x is w with an instance more of the entry e
Manned(w, x, e) ==
    /\ \E i : i \notin Crew(w.acts, e) /\ Crew(x.acts, e) = Crew(w.acts, e) \cup {i}
    /\ x.entries[e].enabled = w.entries[e].enabled + 1 /\ x.entries[e].total = w.entries[e].total
    /\ x.entries[e].node = w.entries[e].node

\* One instance is enabled, whether it waits or is served: the entry has one more of them
LEMMA InstanceMore ==
    ASSUME Here, NEW w, NEW sz, NEW e, Staffed(w, sz, e), NEW x \in Enabled(w, e)
    PROVE  Staffed(x, sz, e) /\ Manned(w, x, e)
  <1> DEFINE N == w.entries
             entry == [N[e] EXCEPT !.enabled = @ + 1]
             M == [N EXCEPT ![e] = entry]
             y == [w EXCEPT !.entries = M]
             n == N[e].node
  <1>1. Good(w, {}) /\ e \in DOMAIN N /\ N[e].case = Due.case
    BY DEF Staffed, HasEntry
  <1>2. /\ DOMAIN w = WorkFields /\ Entered(w.acts, N, w.nextId, {}) /\ "instant" \in DOMAIN w.k
        /\ Tied(w, {e}) /\ Noted(w, sz) /\ Held(w, n, 0) /\ Type[n] \in {"task", "timer"} /\ N[e].enabled \in Nat
        /\ "enabled" \in DOMAIN N[e]
    BY <1>1 DEF Good, Staffed
  <1>3. n \in Nodes /\ e \in 1 .. w.nextId - 1 /\ w.nextId \in Nat
    BY <1>1, <1>2 DEF Entered
  <1>4. PICK lasts \in Times[n] :
          x \in Scheduled([w EXCEPT !.entries[e].enabled = @ + 1], Activity(n, N[e].marks, lasts, 0, e))
    BY DEF Enabled
  <1> DEFINE new == Activity(n, N[e].marks, lasts, 0, e)
  <1>5. lasts \in Nat
    BY <1>3, <1>4, Statics DEF Here
  <1>6. /\ entry.node = N[e].node /\ entry.case = N[e].case /\ entry.marks = N[e].marks /\ entry.total = N[e].total
        /\ entry.enabled = N[e].enabled + 1 /\ DOMAIN entry = DOMAIN N[e]
    OBVIOUS
  <1> HIDE DEF entry
  <1>7. /\ DOMAIN M = DOMAIN N /\ M[e] = entry /\ \A f \in DOMAIN N : M[f].node = N[f].node /\ M[f].case = N[f].case
        /\ \A f \in DOMAIN N \ {e} : M[f] = N[f]
    BY <1>1, <1>6
  <1>8. y = [w EXCEPT !.entries[e].enabled = @ + 1]
    BY <1>2 DEF WorkFields, entry
  <1> HIDE DEF M
  <1>9. /\ DOMAIN y = WorkFields /\ y.k = w.k /\ y.acts = w.acts /\ y.nextAct = w.nextAct /\ y.events = w.events
        /\ y.pending = w.pending /\ y.entries = M /\ y.nextId = w.nextId /\ y.loops = w.loops /\ y.blocked = w.blocked
    BY <1>2 DEF WorkFields
  <1>10. x \in Scheduled(y, new)
    BY <1>4, <1>8
  <1> HIDE DEF y
  <1>11. Entered(y.acts, y.entries, y.nextId, {})
    BY <1>2, <1>7, <1>9 DEF Entered
  <1>12. Good(y, {})
    BY <1>1, <1>2, <1>9, <1>11, Likewise
  <1>13. IsNew(y, new)
    BY <1>1, <1>3, <1>5, <1>7, <1>9, ActivityNew
  <1>14. new.case = Due.case /\ new.node = n /\ new.marks = N[e].marks /\ new.loop = 0 /\ new.entry = e
    BY DEF Activity
  <1> HIDE DEF new
  <1>15. Begun(y, new, x)
    BY <1>10, <1>12, <1>13, ScheduledBegins
  <1>16. All(y) = All(w) /\ Coming(y) = Coming(w) /\ Sequence(All(w)) /\ Range(All(w)) = Coming(w)
    <2>1. All(y) = All(w) /\ Coming(y) = Coming(w)
      BY <1>9 DEF All, Coming
    <2>2. Sequence(w.events) /\ w.events = w.events \o <<>>
      BY <1>1, WithNothing DEF Good
    <2>3. Sequence(All(w)) /\ Range(All(w)) = Coming(w)
      BY <2>2, Empty, AheadLonger
    <2>. QED BY <2>1, <2>3
  <1>17. /\ Lone(All(w)) /\ Looped(w.acts, w.loops, Coming(w), w.nextAct) /\ Kinds(w.acts)
         /\ Bordered(w.acts, N, Coming(w), w.nextAct, w.nextId) /\ Populated(w.acts, N, {e})
    BY <1>2, <1>16 DEF Tied, Ties
  <1>18. Populated(w.acts, M, {e})
    BY <1>7, <1>17 DEF Populated, Peopled
  <1> DEFINE na == w.nextAct + 1
             L == w.loops
             X == {e}
  <1>19. w.nextAct \in Nat \ {0}
    BY <1>1 DEF Good, Acts
  <1>20. Bordered(w.acts, M, Coming(w), na, w.nextId)
    <2>1. 1 .. w.nextAct - 1 \subseteq 1 .. na - 1
      BY <1>19
    <2> HIDE DEF na
    <2>2. \A f \in DOMAIN N : \A c : Guards(c, N[f]) => Guards(c, M[f])
      BY <1>7 DEF Guards
    <2>. QED BY <1>7, <1>17, <2>1, <2>2 DEF Bordered
  <1>21. ASSUME NEW f \in Coming(w), f.kind = "boundary", f.act = w.nextAct \/ f.act = 0 PROVE FALSE
    <2>1. f.act \in 1 .. w.nextAct - 1
      BY <1>17, <1>21 DEF Bordered
    <2>. QED BY <1>19, <1>21, <2>1
  <1>22. Awaits(y, new, L, X)
    <2>1. LoopsWith(y.acts, L, Coming(y), y.loops, y.nextAct, new.loop)
      BY <1>9, <1>14 DEF LoopsWith
    <2>2. InTime(y.acts, Tail(heap), y.events)
      BY <1>2, <1>9 DEF Tied
    <2>. QED BY <1>2, <1>9, <1>12, <1>14, <1>16, <1>17, <1>18, <1>20, <1>21, <2>1, <2>2 DEF Awaits
  <1> HIDE DEF na, L, X
  <1>23. Tied(x, X)
    BY ONLY Here, <1>15, <1>22, BegunTied
  <1>24. IsMarks(N[e].marks, Len(sz))
    BY <1>1, <1>2 DEF Noted, Marked
  <1>25. Noted(y, sz)
    <2>1. CaseIs(w.k, sz) /\ Going(w.k) /\ \A u \in Subs : w.k.subs[u].epoch <= w.k.subs[u].epoch
      BY <1>2 DEF Noted, CaseIs, IsSub
    <2>2. \A i \in DOMAIN w.acts : AlikeAt(w.acts, w.acts, i)
      BY DEF AlikeAt
    <2>3. Sequence(<<>>) /\ w.events = w.events \o <<>> /\ Range(<<>>) = {}
      BY <1>1, Empty, WithNothing DEF Good
    <2>4. \A f \in DOMAIN M : \/ f \in DOMAIN N /\ M[f] = N[f]
                              \/ M[f].case = Due.case /\ IsMarks(M[f].marks, Len(sz))
      BY <1>1, <1>6, <1>7, <1>24
    <2>5. \A f \in DOMAIN N : N[f].case # Due.case => f \in DOMAIN M /\ M[f] = N[f]
      BY <1>1, <1>7
    <2>6. \E ev : /\ Sequence(ev) /\ y.events = w.events \o ev
                  /\ \A f \in Range(ev) : f.kind = "enter" =>
                        /\ f.case = Due.case /\ IsMarks(f.marks, Len(sz)) /\ f.epoch \in Nat
                        /\ Inside[f.node] # <<>> => f.epoch <= EpochAt(y.k, f.node)
      BY <1>9, <2>3
    <2>7. Notes(w, y, sz)
      BY <1>9, <2>1, <2>2, <2>4, <2>5, <2>6 DEF Notes
    <2>. QED BY <1>1, <1>2, <2>7, NotedNext
  <1>26. Noted(x, sz)
    BY <1>12, <1>14, <1>15, <1>24, <1>25, BegunNoted
  <1>27. Held(y, n, 0)
    <2>1. \A c, Z : Placed(M, DOMAIN M, c, Z) = Placed(N, DOMAIN N, c, Z)
      <3>1. ASSUME NEW c, NEW Z
            PROVE  {i \in DOMAIN M : M[i].case = c /\ M[i].node \in Z} = {i \in DOMAIN N : N[i].case = c /\ N[i].node \in Z}
        BY <1>7
      <3>. QED BY <3>1 DEF Placed
    <2>2. \A Y : Stocked(w, Y) => Stocked(y, Y) /\ \A Z : Worth(y, Y, Z) = Worth(w, Y, Z)
      <3>1. ASSUME NEW Y, Stocked(w, Y) PROVE Stocked(y, Y)
        BY <1>7, <1>9, <1>16, <3>1 DEF Stocked, Stock
      <3>2. ASSUME NEW Y, NEW Z PROVE Worth(y, Y, Z) = Worth(w, Y, Z)
        BY <1>9, <1>16, <2>1 DEF Worth, Total
      <3>. QED BY <3>1, <3>2
    <2>3. y.k.tokens = w.k.tokens /\ y.k.subs = w.k.subs /\ y.blocked = w.blocked /\ 0 \in Int
      BY <1>9
    <2>. QED BY ONLY Here, <1>2, <1>3, <2>2, <2>3, StillHeld
  <1>28. Held(x, n, 0)
    <2>1. CaseIs(y.k, sz) /\ 0 \in Int
      BY <1>25 DEF Noted
    <2>2. Held(x, n, IF new.entry = 0 THEN 0 - 1 ELSE 0)
      BY ONLY Here, <1>3, <1>12, <1>14, <1>15, <1>27, <2>1, BegunHeld
    <2>3. e # 0
      BY <1>3
    <2>. QED BY <1>14, <2>2, <2>3
  <1>29. /\ x.entries = M /\ x.entries[e] = entry /\ Good(x, {})
         /\ DOMAIN x.acts = DOMAIN w.acts \cup {w.nextAct} /\ \A i \in DOMAIN x.acts : x.acts[i].entry = With(w.acts, w.nextAct, new)[i].entry
    BY <1>7, <1>9, <1>15 DEF Begun, Rest, Alike
  <1>30. Crew(x.acts, e) = Crew(w.acts, e) \cup {w.nextAct} /\ w.nextAct \notin Crew(w.acts, e)
    <2>1. w.nextAct \notin DOMAIN w.acts
      BY <1>1, <1>19 DEF Good, Acts
    <2>2. /\ \A i \in DOMAIN w.acts : x.acts[i].entry = w.acts[i].entry
          /\ x.acts[w.nextAct].entry = e
      BY <1>14, <1>29, <2>1 DEF With
    <2>. QED BY <1>29, <2>1, <2>2 DEF Crew
  <1>31. Manned(w, x, e) /\ "enabled" \in DOMAIN x.entries[e]
    <2>1. \E i : i \notin Crew(w.acts, e) /\ Crew(x.acts, e) = Crew(w.acts, e) \cup {i}
      BY <1>30
    <2>2. /\ x.entries[e].enabled = N[e].enabled + 1 /\ x.entries[e].total = N[e].total
          /\ x.entries[e].node = N[e].node /\ "enabled" \in DOMAIN x.entries[e]
      BY <1>2, <1>6, <1>29
    <2>. QED BY <2>1, <2>2 DEF Manned
  <1>32. HasEntry(x, e)
    BY <1>1, <1>6, <1>7, <1>29 DEF HasEntry
  <1>33. Staffed(x, sz, e)
    BY <1>2, <1>31, <1>6, <1>23, <1>26, <1>28, <1>29, <1>32 DEF Staffed, X
  <1>. QED BY <1>31, <1>33

\* An entry of which nothing is missing any more
LEMMA NothingMissing ==
    ASSUME NEW w, NEW sz, NEW e, Staffed(w, sz, e), Peopled(w.acts, w.entries, e)
    PROVE  Proper(w, sz, {}) /\ Held(w, w.entries[e].node, 0) /\ w.entries[e].node \in Nodes
  <1>1. Good(w, {}) /\ Noted(w, sz) /\ Tied(w, {e}) /\ Held(w, w.entries[e].node, 0) /\ e \in DOMAIN w.entries
    BY DEF Staffed, HasEntry
  <1> DEFINE X == {}
  <1>2. Populated(w.acts, w.entries, {e})
    BY <1>1 DEF Tied, Ties
  <1>3. Populated(w.acts, w.entries, X)
    BY <1>2 DEF Populated
  <1> HIDE DEF X
  <1>4. Tied(w, X)
    BY <1>1, <1>3 DEF Tied, Ties
  <1>5. w.entries[e].node \in Nodes
    BY <1>1 DEF Good, Entered
  <1>. QED BY <1>1, <1>4, <1>5 DEF Proper, X

\* A new entry, and s once k of its instances have been enabled
Empties(w, sz, e) == Staffed(w, sz, e) /\ Crew(w.acts, e) = {} /\ w.entries[e].enabled = 0
Enlisted(s0, s, k, sz) ==
    /\ DOMAIN s = {"w", "entry"} /\ s.entry = s0.entry /\ Staffed(s.w, sz, s.entry)
    /\ s.w.entries[s.entry].enabled = k /\ s.w.entries[s.entry].total = s0.w.entries[s0.entry].total
    /\ s.w.entries[s.entry].node = s0.w.entries[s0.entry].node
    /\ k = 0 => Crew(s.w.acts, s.entry) = {}
    /\ k = 1 => \A i, j \in Crew(s.w.acts, s.entry) : i = j
    /\ k # 0 => Crew(s.w.acts, s.entry) # {}

\* One instance more has been enabled
LEMMA EnlistsOne ==
    ASSUME Here, NEW s0, NEW s, NEW k \in Nat, NEW sz, Enlisted(s0, s, k, sz), NEW z \in EnableNext(s)
    PROVE  Enlisted(s0, z, k + 1, sz)
  <1> DEFINE e == s.entry
  <1>1. /\ DOMAIN s = {"w", "entry"} /\ s.entry = s0.entry /\ Staffed(s.w, sz, e)
        /\ s.w.entries[e].enabled = k /\ s.w.entries[e].total = s0.w.entries[s0.entry].total
        /\ s.w.entries[e].node = s0.w.entries[s0.entry].node
        /\ k = 0 => Crew(s.w.acts, e) = {}
    BY DEF Enlisted
  <1>2. PICK x \in Enabled(s.w, e) : z = [s EXCEPT !.w = x]
    BY DEF EnableNext
  <1>3. Staffed(x, sz, e) /\ Manned(s.w, x, e)
    BY <1>1, InstanceMore
  <1>4. z.w = x /\ z.entry = e /\ DOMAIN z = {"w", "entry"}
    BY <1>1, <1>2
  <1> HIDE DEF e
  <1>5. PICK i : Crew(x.acts, e) = Crew(s.w.acts, e) \cup {i}
    BY <1>3 DEF Manned
  <1>6. k + 1 # 0 /\ (k + 1 = 1 => k = 0)
    OBVIOUS
  <1>7. /\ x.entries[e].enabled = k + 1 /\ x.entries[e].total = s.w.entries[e].total
        /\ x.entries[e].node = s.w.entries[e].node
    BY <1>1, <1>3 DEF Manned
  <1>8. k + 1 = 1 => \A g, j \in Crew(x.acts, e) : g = j
    BY <1>1, <1>5, <1>6
  <1>9. Crew(x.acts, e) # {}
    BY <1>5
  <1>10. z.entry = s0.entry
    BY <1>1, <1>4 DEF e
  <1>. QED BY <1>1, <1>3, <1>4, <1>6, <1>7, <1>8, <1>9, <1>10 DEF Enlisted

\* It is so after any number of them
Enlists(s0, s, k) == \A sz : Empties(s0.w, sz, s0.entry) => Enlisted(s0, s, k, sz)

\* So it is after all of them: by induction over the instances
LEMMA EnlistsGoOn ==
    \A s : \A n \in Nat :
       /\ Enlists(s, s, 0)
       /\ \A k \in Nat : \A x : Enlists(s, x, k) => \A y \in EnableNext(x) : Enlists(s, y, k + 1)
       => \A y \in Rounds(s, n, EnableNext) : Enlists(s, y, n)
  <1> SUFFICES ASSUME NEW s, NEW n \in Nat, Enlists(s, s, 0),
                      \A k \in Nat : \A x : Enlists(s, x, k) => \A y \in EnableNext(x) : Enlists(s, y, k + 1)
               PROVE  \A y \in Rounds(s, n, EnableNext) : Enlists(s, y, n)
    OBVIOUS
  <1>1. PICK f : Chain(f, s, n, "enable") /\ Rounds(s, n, EnableNext) = f[n]
    BY EnableRounds
  <1>2. f[0] = {s} /\ \A k \in 0 .. n - 1 : f[k + 1] = UNION {EnableNext(x) : x \in f[k]}
    BY <1>1 DEF Chain, StepOf
  <1> DEFINE T == {k \in 0 .. n : \A y \in f[k] : Enlists(s, y, k)}
  <1>3. 0 \in T
    BY <1>2
  <1>4. \A k \in 0 .. n - 1 : k \in T => k + 1 \in T
    BY <1>2
  <1>5. n \in T
    <2>. HIDE DEF T
    <2>. QED BY <1>3, <1>4, Upwards
  <1>. QED BY <1>1, <1>5

\* All of them have been enabled
LEMMA EnlistedAll ==
    ASSUME Here, NEW w, NEW sz, NEW e, Empties(w, sz, e), NEW count \in Nat,
           NEW s \in Rounds([w |-> w, entry |-> e], count, EnableNext)
    PROVE  Enlisted([w |-> w, entry |-> e], s, count, sz)
  <1> DEFINE s0 == [w |-> w, entry |-> e]
  <1>1. DOMAIN s0 = {"w", "entry"} /\ s0.w = w /\ s0.entry = e
    OBVIOUS
  <1>2. s \in Rounds(s0, count, EnableNext)
    OBVIOUS
  <1> HIDE DEF s0
  <1>3. Enlists(s0, s0, 0)
    <2> SUFFICES ASSUME NEW sy, Empties(s0.w, sy, s0.entry) PROVE Enlisted(s0, s0, 0, sy)
      BY DEF Enlists
    <2>. QED BY <1>1 DEF Enlisted, Empties
  <1>4. ASSUME NEW k \in Nat, NEW y, Enlists(s0, y, k), NEW z \in EnableNext(y) PROVE Enlists(s0, z, k + 1)
    <2> SUFFICES ASSUME NEW sy, Empties(s0.w, sy, s0.entry) PROVE Enlisted(s0, z, k + 1, sy)
      BY DEF Enlists
    <2>1. Enlisted(s0, y, k, sy)
      BY <1>4 DEF Enlists
    <2>. QED BY <1>4, <2>1, EnlistsOne
  <1>5. \A y \in Rounds(s0, count, EnableNext) : Enlists(s0, y, count)
    BY <1>3, <1>4, EnlistsGoOn
  <1>6. Enlisted(s0, s, count, sz)
    BY <1>1, <1>2, <1>5 DEF Enlists
  <1>. QED BY <1>6 DEF s0

\* All that is to be enabled of a new entry at once
LEMMA EnabledAll ==
    ASSUME Here, NEW w, NEW sz, NEW e, Empties(w, sz, e), NEW total \in Nat \ {0}, w.entries[e].total = total,
           NEW count, count = IF w.entries[e].node \in model.sequential THEN 1 ELSE total,
           NEW s \in Rounds([w |-> w, entry |-> e], count, EnableNext)
    PROVE  Proper(s.w, sz, {}) /\ \E n \in Nodes : Held(s.w, n, 0)
  <1>1. count \in Nat \ {0} /\ count <= total
    OBVIOUS
  <1> DEFINE s0 == [w |-> w, entry |-> e]
  <1>2. Enlisted(s0, s, count, sz) /\ s0.w = w /\ s0.entry = e
    BY <1>1, EnlistedAll
  <1> HIDE DEF s0
  <1>3. /\ Staffed(s.w, sz, e) /\ s.w.entries[e].enabled = count /\ s.w.entries[e].total = total
        /\ s.w.entries[e].node = w.entries[e].node
        /\ count = 1 => \A i, j \in Crew(s.w.acts, e) : i = j
        /\ Crew(s.w.acts, e) # {}
    BY <1>1, <1>2 DEF Enlisted
  <1>4. Peopled(s.w.acts, s.w.entries, e)
    BY <1>1, <1>3 DEF Peopled, Crew, Staffed
  <1>. QED BY <1>3, <1>4, NothingMissing

\* A new entry takes a token of w at n
TakesAsEntry(w, y, sz, n, e, entry, ev) ==
    /\ Good(w, {}) /\ Good(y, {}) /\ CaseIs(w.k, sz) /\ y.k = w.k /\ y.acts = w.acts /\ y.blocked = w.blocked
    /\ y.entries = With(w.entries, e, entry) /\ e \notin DOMAIN w.entries /\ entry.case = Due.case /\ entry.node = n
    /\ Sequence(ev) /\ y.events = w.events \o ev /\ \A f \in Range(ev) : f.kind # "enter"

\* The token is the entry then, and no longer in hand
LEMMA EntryHeld ==
    ASSUME Here, NEW w, NEW y, NEW sz, NEW n \in Nodes, NEW e, NEW entry, NEW ev, TakesAsEntry(w, y, sz, n, e, entry, ev),
           Held(w, n, 1)
    PROVE  Held(y, n, 0)
  <1> DEFINE E == w.entries
             F == y.entries
  <1>1. /\ Good(w, {}) /\ Good(y, {}) /\ CaseIs(w.k, sz) /\ y.k = w.k /\ y.acts = w.acts /\ y.blocked = w.blocked
        /\ F = With(E, e, entry) /\ e \notin DOMAIN E /\ entry.case = Due.case /\ entry.node = n
        /\ Sequence(ev) /\ y.events = w.events \o ev /\ \A f \in Range(ev) : f.kind # "enter"
    BY DEF TakesAsEntry
  <1>2. SameEpochs(w.k, y.k)
    BY <1>1 DEF SameEpochs
  <1>3. \A N : EntersAt(All(y), y.k, Due.case, N) = EntersAt(All(w), w.k, Due.case, N)
    BY <1>1, <1>2, AheadQuiet
  <1>4. IsFiniteSet(DOMAIN E)
    BY <1>1, Stocks
  <1>5. ASSUME NEW N PROVE Apart(Placed(E, DOMAIN E, Due.case, N), Placed(F, DOMAIN F, Due.case, N), n, 1, N)
    <2>1. /\ IsFiniteSet(DOMAIN F)
          /\ Placed(F, DOMAIN F, entry.case, N) = Placed(E, DOMAIN E, entry.case, N) + Unit(entry.node, N)
      <3>1. F = With(E, e, entry) /\ e \notin DOMAIN E /\ IsFiniteSet(DOMAIN E)
        BY <1>1, <1>4
      <3> HIDE DEF E, F
      <3>. QED BY ONLY <3>1, EntryCome
    <2>. QED BY <1>1, <2>1 DEF Apart, Unit
  <1> HIDE DEF E, F
  <1>6. ASSUME NEW N PROVE Moves(w, y, n, 0, 0, 1, 0, N)
    <2> DEFINE p == EntersAt(All(w), w.k, Due.case, N)
               q == EntersAt(All(y), y.k, Due.case, N)
               r == AtKeys(w.k.ands, N) + AtKeys(w.k.ors, N \X Nat)
               a == Placed(w.acts, Owners(w.acts), Due.case, N)
    <2>a. p \in Nat /\ AtKeys(w.k.ands, N) \in Nat /\ AtKeys(w.k.ors, N \X Nat) \in Nat /\ a \in Nat
      BY <1>1, PartsAre
    <2>1. p \in Nat /\ r \in Nat /\ q = p /\ a \in Nat
      BY <2>a, <1>3
    <2>2. AtKeys(y.k.ands, N) + AtKeys(y.k.ors, N \X Nat) = r /\ Placed(y.acts, Owners(y.acts), Due.case, N) = a
      BY <1>1
    <2>3. \A t \in Nat : Apart(t, t, n, 0, N)
      BY DEF Apart
    <2> HIDE DEF p, q, r, a
    <2>4. Apart(p, q, n, 0, N) /\ Apart(r, r, n, 0, N) /\ Apart(a, a, n, 0, N)
      BY <2>1, <2>3
    <2>5. Apart(Placed(w.entries, DOMAIN w.entries, Due.case, N), Placed(y.entries, DOMAIN y.entries, Due.case, N), n, 1, N)
      BY <1>5 DEF E, F
    <2>. QED BY <2>2, <2>4, <2>5 DEF Moves, p, q, r, a
  <1>7. Held(y, n, 1 - (0 + 0 + 1 + 0))
    <2>1. 0 \in Int /\ 1 \in Int
      OBVIOUS
    <2>2. y.k.tokens = w.k.tokens /\ y.k.subs = w.k.subs /\ CaseIs(y.k, sz)
      BY <1>1
    <2>. QED BY <2>1, <2>2, <1>1, <1>6, MovesHeld
  <1>8. 1 - (0 + 0 + 1 + 0) = 0
    OBVIOUS
  <1>. QED BY <1>7, <1>8

\* A token opens a multi-instance activity
LEMMA OpenMultiSound == IInv /\ Sound /\ OpenMulti => Sound' /\ outcome' = "running"
  <1> SUFFICES ASSUME IInv, Sound, OpenMulti PROVE Sound' /\ outcome' = "running"
    OBVIOUS
  <1> DEFINE n == Due.node
             e == nextId
  <1>1. /\ Serve("enter") /\ Within(Due) /\ UNCHANGED sizes /\ Type[n] = "task" /\ Due.kind = "enter"
        /\ n \in DOMAIN model.instances
    BY DEF OpenMulti, ServeNode, Serve
  <1>a. PICK total \in model.instances[n] :
       LET count == IF n \in model.sequential THEN 1 ELSE total
           entry == [case |-> Due.case, node |-> n, marks |-> Due.marks, total |-> total,
                     enabled |-> 0]
           w == [Now EXCEPT !.nextId = @ + 1, !.entries = With(@, e, entry)]
       IN IF total = 0
          THEN \E x \in Forward(Now, n, Due.marks) : Becomes(x)
          ELSE \E delay \in Delays(n) :
               LET armed == [w EXCEPT !.events = Armed("multiBoundary", n, e, delay)]
               IN \E s \in Rounds([w |-> armed, entry |-> e], count, EnableNext) : Becomes(s.w)
    BY DEF OpenMulti
  <1> DEFINE count == IF n \in model.sequential THEN 1 ELSE total
             entry == [case |-> Due.case, node |-> n, marks |-> Due.marks, total |-> total,
                       enabled |-> 0]
             w == [Now EXCEPT !.nextId = @ + 1, !.entries = With(@, e, entry)]
  <1>4. /\ ForCase /\ Here /\ n \in Nodes /\ Proper(Now, sizes, {}) /\ Good(Now, {}) /\ Tied(Now, {})
        /\ Noted(Now, sizes) /\ Held(Now, n, 1) /\ IsMarks(Due.marks, Len(sizes))
    BY <1>1, OnDuty
  <1>5. /\ DOMAIN Now = WorkFields /\ Now.acts = acts /\ Now.loops = loops /\ Now.entries = entries /\ Now.events = <<>>
        /\ Now.nextAct = nextAct /\ Now.nextId = nextId /\ Now.blocked = blocked /\ All(Now) = Tail(heap)
        /\ Coming(Now) = Range(Tail(heap)) /\ Range(heap) = {Due} \cup Range(Tail(heap)) /\ Sequence(heap)
    BY <1>4, NowIs
  <1>t. total \in Nat /\ (n \in model.sequential \/ n \notin model.sequential)
    BY <1>a, <1>1, <1>4, ModelsAssumption DEF Here
  <1>3. CASE total = 0
    <2>1. PICK x \in Forward(Now, n, Due.marks) : Becomes(x)
      BY <1>a, <1>3
    <2> DEFINE marks == Due.marks
    <2>2. IsMarks(marks, Len(sizes)) /\ x \in Forward(Now, n, marks) /\ Type[n] \notin {"end", "terminate"}
      BY <1>1, <1>4, <2>1
    <2> HIDE DEF n, marks
    <2>. QED BY <1>1, <1>4, <2>1, <2>2, GoesOn
  <1>6. CASE total # 0
    <2>1. PICK delay \in Delays(n) :
               \E s \in Rounds([w |-> [w EXCEPT !.events = Armed("multiBoundary", n, e, delay)], entry |-> e],
                               count, EnableNext) : Becomes(s.w)
      BY <1>a, <1>6
    <2> DEFINE armed == Armed("multiBoundary", n, e, delay)
               y == [w EXCEPT !.events = armed]
    <2>3. DOMAIN w = WorkFields /\ w.k = Now.k /\ w.acts = acts /\ w.nextAct = nextAct /\ w.events = <<>>
          /\ w.pending = Now.pending /\ w.entries = With(entries, e, entry) /\ w.nextId = nextId + 1
          /\ w.loops = loops /\ w.blocked = blocked
      BY <1>5 DEF WorkFields
    <2>5. /\ entry.case = Due.case /\ entry.node = n /\ entry.marks = Due.marks /\ entry.total = total
          /\ entry.enabled = 0 /\ "enabled" \in DOMAIN entry
      OBVIOUS
    <2> HIDE DEF w, entry
    <2> DEFINE M == With(entries, e, entry)
               ni == nextId + 1
    <2>6. DOMAIN M = DOMAIN entries \cup {e} /\ M[e] = entry /\ \A f \in DOMAIN entries \ {e} : M[f] = entries[f]
      BY DEF With
    <2>7. /\ e \notin DOMAIN entries /\ e \in Nat \ {0} /\ nextId \in Nat \ {0} /\ e = nextId
          /\ Entered(acts, entries, nextId, {}) /\ DOMAIN entries \subseteq 1 .. nextId - 1
      BY <1>4, <1>5 DEF Good, Entered
    <2>8. w.entries = M
      BY <2>3
    <2> HIDE DEF M
    <2>9. Entered(acts, M, ni, {})
      <3>1. \A f \in DOMAIN M : f \in 1 .. ni - 1 /\ M[f].node \in Nodes
        BY <2>5, <2>6, <2>7, <1>4 DEF Entered
      <3>. QED BY <2>6, <2>7, <3>1 DEF Entered
    <2>10. Good(w, {})
      <3>1. "instant" \in DOMAIN w.k /\ w.k.instant = Now.k.instant
        BY <1>4, <2>3 DEF Good
      <3>. QED BY <1>4, <1>5, <2>3, <2>8, <2>9, <3>1, Likewise
    <2>11. Watches(armed, "multiBoundary", n, e) /\ IsMore(armed, w.nextAct) /\ Sequence(armed) /\ <<>> \o armed = armed
      <3>1. Watches(armed, "multiBoundary", n, e)
        BY <1>4, <2>1, ArmedWatch
      <3>2. IsMore(armed, w.nextAct)
        BY <1>4, <2>1, Arming
      <3> HIDE DEF armed
      <3>. QED BY <3>1, <3>2, WithNothing DEF Watches
    <2>12. \A f \in Range(armed) : f.kind = "multiBoundary" /\ f.act = e /\ f.case = Due.case /\ f.node \in Range(Borders[n])
      BY <2>11 DEF Watches
    <2>13. PICK s \in Rounds([w |-> y, entry |-> e], count, EnableNext) : Becomes(s.w)
      BY <2>1
    <2> HIDE DEF armed
    <2>14. y = [w EXCEPT !.events = @ \o armed]
      BY <2>3, <2>11
    <2>15. Good(y, {})
      BY <1>4, <2>10, <2>11, <2>14, Adding
    <2>16. /\ y.k = Now.k /\ y.acts = acts /\ y.loops = loops /\ y.entries = M /\ y.nextAct = nextAct
           /\ y.nextId = ni /\ y.blocked = blocked /\ y.events = armed /\ y.events = Now.events \o armed
      BY <1>5, <2>3, <2>8, <2>11 DEF WorkFields
    <2> HIDE DEF y
    <2>17. /\ All(y) = Tail(heap) \o armed /\ Coming(y) = Range(Tail(heap)) \cup Range(armed) /\ Range(All(y)) = Coming(y)
      <3>1. Sequence(Now.events)
        BY <1>4 DEF Good
      <3>a. y.events = Now.events \o armed /\ Sequence(armed) /\ Here
        BY <1>4, <2>11, <2>16
      <3> HIDE DEF n, e, count, ni
      <3>2. All(y) = All(Now) \o armed /\ Coming(y) = Coming(Now) \cup Range(armed) /\ Range(All(y)) = Coming(y)
        BY ONLY <3>1, <3>a, AheadLonger
      <3>. QED BY <1>5, <3>2
    <2>18. /\ Lone(Tail(heap)) /\ Sequence(Tail(heap)) /\ Looped(acts, loops, Range(Tail(heap)), nextAct)
           /\ Bordered(acts, entries, Range(Tail(heap)), nextAct, nextId)
           /\ Populated(acts, entries, {}) /\ Kinds(acts)
      BY <1>4, <1>5 DEF Tied, Ties, Here
    <2>19. Sequence(All(y)) /\ Lone(All(y))
      <3>1. \A f \in Range(armed) : ~Returning(f)
        BY <2>12 DEF Returning
      <3>. QED BY <2>11, <2>17, <2>18, <3>1, LoneLonger
    <2>20. \A f \in Coming(y) : f \in Range(Tail(heap)) \/ f \in Range(armed)
      BY <2>17
    <2>21. Looped(acts, loops, Coming(y), nextAct)
      <3>1. \A f \in Coming(y) : Returning(f) => f \in Range(Tail(heap))
        BY <2>12, <2>20 DEF Returning
      <3>. QED BY <2>18, <3>1 DEF Looped
    <2>22. Bordered(acts, M, Coming(y), nextAct, ni)
      <3>1. 1 .. nextId - 1 \subseteq 1 .. ni - 1 /\ e \in 1 .. ni - 1
        BY <2>7
      <3>2. \A f \in Coming(y) : Returning(f) => f \in Range(Tail(heap))
        BY <2>12, <2>20 DEF Returning
      <3> HIDE DEF ni
      <3>3. ASSUME NEW f \in Coming(y)
            PROVE  /\ f.kind = "boundary" =>
                         /\ f.act \in 1 .. nextAct - 1
                         /\ \A i \in DOMAIN acts : i = f.act \/ acts[i].loop = f.act => Guards(f, acts[i]) /\ acts[i].entry = 0
                         /\ \A g \in Coming(y) : Returning(g) /\ g.loop = f.act => Guards(f, g)
                   /\ f.kind = "multiBoundary" =>
                         f.act \in 1 .. ni - 1 /\ (f.act \in DOMAIN M => Guards(f, M[f.act]))
                   /\ f.kind = "done" /\ f.act \in DOMAIN acts => acts[f.act].node = f.node
                   /\ f.kind = "deadline" =>
                         f.act \in 1 .. ni - 1 /\ \E u \in Subs : f.node \in Range(Borders[u])
        <4>1. CASE f \in Range(Tail(heap))
          <5>1. f.kind = "multiBoundary" => f.act \in 1 .. nextId - 1 /\ f.act # e
            BY <2>7, <2>18, <4>1 DEF Bordered
          <5>2. f.kind = "multiBoundary" => f.act \in 1 .. ni - 1 /\ (f.act \in DOMAIN M => Guards(f, M[f.act]))
            BY <2>6, <2>18, <3>1, <4>1, <5>1 DEF Bordered
          <5>3. f.kind = "deadline" => f.act \in 1 .. ni - 1 /\ \E u \in Subs : f.node \in Range(Borders[u])
            BY <2>18, <3>1, <4>1 DEF Bordered
          <5>4. /\ f.kind = "boundary" =>
                     /\ f.act \in 1 .. nextAct - 1
                     /\ \A i \in DOMAIN acts : i = f.act \/ acts[i].loop = f.act => Guards(f, acts[i]) /\ acts[i].entry = 0
                     /\ \A g \in Coming(y) : Returning(g) /\ g.loop = f.act => Guards(f, g)
                /\ f.kind = "done" /\ f.act \in DOMAIN acts => acts[f.act].node = f.node
            BY <2>18, <3>2, <4>1 DEF Bordered
          <5>. QED BY <5>2, <5>3, <5>4
        <4>2. CASE f \in Range(armed)
          <5>1. Guards(f, M[f.act])
            BY <2>5, <2>6, <2>12, <4>2 DEF Guards
          <5>. QED BY <2>12, <3>1, <4>2, <5>1
        <4>. QED BY <2>20, <4>1, <4>2
      <3>. QED BY <3>3 DEF Bordered
    <2>23. Populated(acts, M, {e})
      <3>1. \A f \in DOMAIN M \ {e} : f \in DOMAIN entries /\ M[f] = entries[f]
        BY <2>6
      <3>. QED BY <2>18, <3>1 DEF Populated, Peopled
    <2>t. InTime(y.acts, Tail(heap), y.events)
      <3>1. ASSUME NEW f \in Range(armed), NEW i \in DOMAIN acts PROVE ~Watched(f, i, acts[i])
        <4>1. acts[i].entry # e
          BY <2>7, <3>1 DEF Entered
        <4>. QED BY <2>12, <3>1, <4>1 DEF Watched
      <3>2. InTime(acts, Tail(heap), Now.events) /\ Sequence(Now.events)
        BY <1>4, <1>5 DEF Tied, Good
      <3>3. InTime(acts, Tail(heap), Now.events \o armed)
        <4> HIDE DEF n, e, count, ni
        <4>. QED BY <2>11, <3>1, <3>2, InTimeMore
      <3>. QED BY <2>16, <3>3
    <2>24. Tied(y, {e})
      BY <2>16, <2>17, <2>18, <2>19, <2>21, <2>22, <2>23, <2>t DEF Tied, Ties
    <2>25. Noted(y, sizes)
      <3>1. \A f \in DOMAIN M : \/ f \in DOMAIN entries /\ M[f] = entries[f]
                                \/ M[f].case = Due.case /\ IsMarks(M[f].marks, Len(sizes))
        BY <1>4, <2>5, <2>6
      <3>2. \A f \in DOMAIN entries : f \in DOMAIN M /\ M[f] = entries[f]
        BY <2>6, <2>7
      <3>3. \A f \in Range(armed) : f.kind # "enter"
        BY <2>12
      <3>4. Arms(Now, y, sizes, armed)
        BY <1>4, <1>5, <2>11, <2>16, <3>1, <3>2, <3>3 DEF Arms
      <3>. QED BY <1>4, <3>4, ArmedNoted
    <2>26. Held(y, n, 0)
      <3>1. TakesAsEntry(Now, y, sizes, n, e, entry, armed)
        <4>1. CaseIs(Now.k, sizes) /\ \A f \in Range(armed) : f.kind # "enter"
          BY <1>4, <2>12 DEF Noted
        <4>2. y.entries = With(Now.entries, e, entry)
          BY <1>5, <2>16 DEF M
        <4>. QED BY <1>4, <1>5, <2>5, <2>7, <2>11, <2>15, <2>16, <4>1, <4>2 DEF TakesAsEntry
      <3> HIDE DEF n, e
      <3>. QED BY <1>4, <3>1, EntryHeld
    <2>27. HasEntry(y, e) /\ y.entries[e] = entry
      BY <2>5, <2>6, <2>15, <2>16 DEF HasEntry
    <2>28. Crew(y.acts, e) = {}
      BY <2>7, <2>16 DEF Crew, Entered
    <2>29. Empties(y, sizes, e) /\ y.entries[e].total = total /\ y.entries[e].node = n
      BY <1>1, <2>5, <2>24, <2>25, <2>26, <2>27, <2>28 DEF Empties, Staffed
    <2>30. count = IF y.entries[e].node \in model.sequential THEN 1 ELSE total
      BY <2>29
    <2>31. total \in Nat \ {0}
      BY <1>t, <1>6
    <2> HIDE DEF count, n, e
    <2>32. Proper(s.w, sizes, {}) /\ \E m \in Nodes : Held(s.w, m, 0)
      BY ONLY <1>4, <2>13, <2>29, <2>30, <2>31, EnabledAll
    <2>. QED BY ONLY <1>1, <1>4, <2>13, <2>32, HeldSound
  <1>. QED BY <1>3, <1>6

\* An instance of a multi-instance activity is done
LEMMA InstanceDoneSound == IInv /\ Sound /\ InstanceDone => Sound' /\ outcome' = "running"
  <1> SUFFICES ASSUME IInv, Sound, InstanceDone PROVE Sound' /\ outcome' = "running"
    OBVIOUS
  <1> DEFINE n == Due.node
             i == Due.act
             e == Ended.entry
             s == {Due.act}
             X == {}
             others == {j \in DOMAIN acts : acts[j].entry = e} \ {i}
  <1>1. Completes /\ e # 0 /\ UNCHANGED sizes
    BY DEF InstanceDone
  <1>2. PICK w \in Released(Finished, s) :
            IF entries[e].enabled < entries[e].total
            THEN \E x \in Enabled(w, e) : Becomes(x)
            ELSE IF others # {} THEN Becomes(w)
            ELSE \E x \in Forward([w EXCEPT !.entries = Without(@, {e})], n, Ended.marks) :
                    Becomes(x)
    BY DEF InstanceDone
  <1>3. /\ ForCase /\ Here /\ Tied(Finished, X) /\ Noted(Finished, sizes) /\ Good(Finished, s)
        /\ (\A m : Held(Finished, m, 0)) /\ i \in DOMAIN acts /\ Ended.case = Due.case /\ Ended.node = n /\ n \in Nodes
        /\ Finished.acts = acts /\ Finished.entries = entries /\ IsMarks(Ended.marks, Len(sizes))
        /\ Type[n] \notin {"end", "terminate"} /\ Finished.k = Now.k
    BY <1>1, OnCompletion
  <1>4. Entered(acts, entries, nextId, {}) /\ Ended = acts[i]
    BY DEF IInv, Ordered, Ended
  <1>5. e \in DOMAIN entries /\ entries[e].node = n /\ entries[e].case = Due.case /\ acts[i].entry = e
    BY <1>1, <1>3, <1>4 DEF Entered
  <1>6. Peopled(acts, entries, e) /\ Type[n] \in {"task", "timer"}
    <2>1. Populated(acts, entries, X) /\ Kinds(acts)
      BY <1>3 DEF Tied, Ties
    <2>2. Populated(acts, entries, {}) /\ Type[acts[i].node] \in {"task", "timer"}
      BY <1>3, <2>1 DEF Kinds
    <2>. QED BY <1>3, <1>4, <1>5, <2>2 DEF Populated
  <1>7. Closing(Finished, Finished, s, X, X)
    <2>1. \A f : Fewer(f, f, X)
      BY DEF Fewer
    <2>2. \A j \in s \cap DOMAIN acts : acts[j].case = Due.case
      BY <1>3, <1>4
    <2>. QED BY <1>3, <2>1, <2>2 DEF Closing
  <1> DEFINE es == {e}
  <1>8. \A j \in s : j \in DOMAIN acts /\ acts[j].entry = e /\ acts[j].entry # 0
    BY <1>1, <1>3, <1>5
  <1>9. \A j \in s : j \notin Owners(Finished.acts)
    BY <1>3, <1>8 DEF Owners
  <1>10. CaseIs(Finished.k, sizes)
    BY <1>3 DEF Noted
  <1>11. X \subseteq X \cup es /\ X \subseteq es \cup X /\ \A l \in X : \E j \in s : Finished.acts[j].loop = l
    OBVIOUS
  <1>12. s \subseteq DOMAIN Finished.acts /\ \A j \in s : Finished.acts[j].entry # 0 => Finished.acts[j].entry \in es
    BY <1>3, <1>8
  <1>13. \A j \in s : Finished.acts[j].entry # 0 => Finished.acts[j].entry \in X \cup es /\ Finished.acts[j].entry \in es \cup X
    BY <1>12
  <1> HIDE DEF X, s, es
  <1>14. Cut(Finished, w, s, X, X)
    BY <1>2, <1>3, <1>7, FreedCut
  <1>15. Tied(w, es)
    BY ONLY <1>3, <1>11, <1>12, <1>13, <1>14, CutTied
  <1>16. Noted(w, sizes)
    BY <1>3, <1>14, CutNoted
  <1>17. Held(w, n, 0)
    <2>1. 0 \in Int
      OBVIOUS
    <2>2. Held(Finished, n, 0) /\ Cut(Finished, w, s, X, {})
      BY <1>3, <1>14 DEF X
    <2> HIDE DEF n
    <2>. QED BY ONLY <1>3, <1>9, <1>10, <2>1, <2>2, CutInstances
  <1>18. /\ Good(w, {}) /\ w.nextAct = Finished.nextAct /\ w.nextId = Finished.nextId /\ w.k = Finished.k
         /\ w.blocked = Finished.blocked /\ DOMAIN w.acts = DOMAIN acts \ {i} /\ Alike(acts, w.acts, DOMAIN w.acts)
         /\ Fewer(Finished.loops, w.loops, {}) /\ DOMAIN w.entries = DOMAIN entries /\ w.entries[e] = entries[e]
         /\ \A f \in DOMAIN entries : w.entries[f] = entries[f]
    BY <1>3, <1>5, <1>14 DEF Cut, Fewer, s, X
  <1>19. Staffed(w, sizes, e)
    BY <1>5, <1>6, <1>15, <1>16, <1>17, <1>18 DEF Staffed, HasEntry, Peopled, es
  <1>20. Crew(w.acts, e) = others
    BY <1>18 DEF Crew, Alike
  <1>21. CASE entries[e].enabled < entries[e].total
    <2>1. PICK x \in Enabled(w, e) : Becomes(x)
      BY <1>2, <1>21
    <2>2. n \in model.sequential
      <3>1. entries[e].enabled # entries[e].total
        BY <1>6, <1>21 DEF Peopled
      <3>. QED BY <1>5, <1>6, <3>1 DEF Peopled
    <2>3. others = {}
      BY <1>3, <1>5, <1>6, <2>2 DEF Peopled
    <2>4. Staffed(x, sizes, e) /\ Manned(w, x, e)
      BY <1>3, <1>19, <2>1, InstanceMore
    <2>5. PICK j : Crew(x.acts, e) = {j}
      BY <1>20, <2>3, <2>4 DEF Manned
    <2>6. /\ x.entries[e].enabled = entries[e].enabled + 1 /\ x.entries[e].total = entries[e].total
          /\ x.entries[e].node = n /\ entries[e].enabled \in Nat /\ entries[e].total \in Nat
          /\ "enabled" \in DOMAIN x.entries[e]
      BY <1>5, <1>6, <1>18, <2>4 DEF Manned, Peopled, Staffed
    <2>7. Peopled(x.acts, x.entries, e)
      <3>1. x.entries[e].enabled \in Nat /\ x.entries[e].enabled <= x.entries[e].total
        BY <1>21, <2>6
      <3>2. (\E g : g \in DOMAIN x.acts /\ x.acts[g].entry = e)
            /\ \A g, h \in DOMAIN x.acts : x.acts[g].entry = e /\ x.acts[h].entry = e => g = h
        BY <2>5 DEF Crew
      <3>. QED BY <2>2, <2>6, <3>1, <3>2 DEF Peopled
    <2>8. Proper(x, sizes, {}) /\ \E m \in Nodes : Held(x, m, 0)
      BY <2>4, <2>7, NothingMissing
    <2>. QED BY ONLY <1>1, <1>3, <2>1, <2>8, HeldSound
  <1>22. CASE ~(entries[e].enabled < entries[e].total) /\ others # {}
    <2>1. Becomes(w)
      BY <1>2, <1>22
    <2>2. Peopled(w.acts, w.entries, e)
      <3>1. \A j \in DOMAIN w.acts : j \in DOMAIN acts /\ w.acts[j].entry = acts[j].entry
        BY <1>18 DEF Alike
      <3>2. \E j \in DOMAIN w.acts : w.acts[j].entry = e
        BY <1>20, <1>22 DEF Crew
      <3> HIDE DEF e
      <3>. QED BY <1>6, <1>18, <3>1, <3>2 DEF Peopled
    <2>3. Proper(w, sizes, {}) /\ \E m \in Nodes : Held(w, m, 0)
      BY <1>19, <2>2, NothingMissing
    <2>. QED BY ONLY <1>1, <1>3, <2>1, <2>3, HeldSound
  <1>23. CASE ~(entries[e].enabled < entries[e].total) /\ others = {}
    <2> DEFINE y == [w EXCEPT !.entries = Without(@, {e})]
    <2>1. PICK x \in Forward(y, n, Ended.marks) : Becomes(x)
      BY <1>2, <1>23
    <2>2. DOMAIN w = WorkFields /\ "instant" \in DOMAIN w.k /\ Entered(w.acts, w.entries, w.nextId, {})
      BY <1>18 DEF Good
    <2> DEFINE M == Without(w.entries, {e})
    <2>3. /\ DOMAIN y = WorkFields /\ y.k = w.k /\ y.acts = w.acts /\ y.nextAct = w.nextAct /\ y.events = w.events
          /\ y.pending = w.pending /\ y.entries = M /\ y.nextId = w.nextId /\ y.loops = w.loops /\ y.blocked = w.blocked
      BY <2>2 DEF WorkFields
    <2>4. DOMAIN M = DOMAIN w.entries \ {e} /\ \A f \in DOMAIN M : M[f] = w.entries[f]
      BY DEF Without
    <2> HIDE DEF y, M
    <2>5. \A j \in DOMAIN w.acts : w.acts[j].entry # e
      BY <1>20, <1>23 DEF Crew
    <2>6. Entered(y.acts, y.entries, y.nextId, {})
      BY <2>2, <2>3, <2>4, <2>5 DEF Entered
    <2>7. Good(y, {})
      BY <1>18, <2>2, <2>3, <2>6, Likewise
    <2>8. Cut(Finished, y, s, X, es)
      <3>1. Fewer(Finished.entries, y.entries, es)
        BY <1>3, <1>18, <2>3, <2>4 DEF Fewer, es
      <3>2. \A f \in es \cap DOMAIN Finished.entries : Finished.entries[f].case = Due.case
        BY <1>3, <1>5 DEF es
      <3>. QED BY <1>14, <2>3, <2>7, <3>1, <3>2 DEF Cut
    <2>9. Tied(y, X)
      BY ONLY <1>3, <1>11, <1>12, <1>13, <2>8, CutTied
    <2>10. Noted(y, sizes)
      BY <1>3, <2>8, CutNoted
    <2>11. Held(y, n, 0 + 1)
      <3>1. Held(Finished, n, 0) /\ 0 \in Int /\ e \in DOMAIN Finished.entries /\ Finished.entries[e].node = n
        BY <1>3, <1>5
      <3>2. Cut(Finished, y, s, X, {e})
        BY <2>8 DEF es
      <3> HIDE DEF n, e
      <3>. QED BY ONLY <1>3, <1>9, <1>10, <3>1, <3>2, CutEntry
    <2>12. Held(y, n, 1) /\ Proper(y, sizes, {})
      <3>1. 0 + 1 = 1
        OBVIOUS
      <3>. QED BY <2>7, <2>9, <2>10, <2>11, <3>1 DEF Proper, X
    <2> DEFINE marks == Ended.marks
    <2>13. IsMarks(marks, Len(sizes)) /\ x \in Forward(y, n, marks)
      BY <1>3, <2>1
    <2> HIDE DEF n, marks
    <2>. QED BY ONLY <1>1, <1>3, <2>1, <2>12, <2>13, GoesOn
  <1>. QED BY <1>21, <1>22, <1>23

-----------------------------------------------------------------------------
(* A case that is killed *)

\* A token comes to a terminate end: the case is killed
LEMMA TerminateSound == IInv /\ Sound /\ Terminate => Sound' /\ outcome' = "running"
  <1> SUFFICES ASSUME IInv, Sound, Terminate PROVE Sound' /\ outcome' = "running"
    OBVIOUS
  <1> DEFINE mine == {i \in DOMAIN acts : acts[i].case = Due.case}
             ls == {acts[i].loop : i \in mine}
             es == {acts[i].entry : i \in mine}
             y == Killed(mine)
             X == {}
             N == Without(entries, es)
             L == Without(loops, ls)
  <1>1. Serve("enter") /\ Within(Due) /\ UNCHANGED sizes
    BY DEF Terminate, ServeNode
  <1>2. PICK w \in Released(y, mine) : Becomes(w)
    BY DEF Terminate
  <1>3. /\ ForCase /\ Here /\ Due.node \in Nodes /\ Proper(Now, sizes, {}) /\ Good(Now, {}) /\ Tied(Now, X) /\ Noted(Now, sizes)
    BY <1>1, OnDuty
  <1>4. /\ DOMAIN Now = WorkFields /\ Now.acts = acts /\ Now.loops = loops /\ Now.entries = entries /\ Now.events = <<>>
        /\ Now.nextAct = nextAct /\ Now.nextId = nextId /\ Now.blocked = blocked
    BY <1>3, NowIs
  <1>5. Entered(acts, entries, nextId, {}) /\ CaseIs(Now.k, sizes) /\ "instant" \in DOMAIN Now.k
    BY <1>3 DEF IInv, Ordered, Noted, Good
  <1> DEFINE k == [Now.k EXCEPT !.tokens = 0, !.alive = FALSE, !.endId = Due.node, !.ands = << >>, !.ors = << >>]
  <1>6. /\ DOMAIN k = CaseFields /\ k.tokens = 0 /\ k.alive = FALSE /\ k.endId = Due.node /\ k.ands = << >>
        /\ k.ors = << >> /\ k.subs = Now.k.subs /\ k.instant = Now.k.instant
    <2>1. DOMAIN Now.k = CaseFields
      BY <1>5 DEF CaseIs
    <2>. QED BY <2>1 DEF CaseFields
  <1> DEFINE rows1 == Logged(rows, mine, "terminated")
             v == [Now EXCEPT !.rows = rows1, !.loops = L, !.entries = N]
  <1>7. Now.rows = rows
    BY DEF Now
  <1>8. y = [Now EXCEPT !.k = k, !.rows = rows1, !.loops = L, !.entries = N]
    BY <1>4, <1>7 DEF Killed
  <1>9. \A i \in mine : i \in DOMAIN acts /\ acts[i].case = Due.case
    OBVIOUS
  <1>10. \A i \in DOMAIN acts \ mine : acts[i].case # Due.case
    OBVIOUS
  <1>11. Fewer(entries, N, es) /\ Fewer(loops, L, ls)
    <2> HIDE DEF es, ls
    <2>. QED BY DEF Fewer, Without
  <1>12. /\ \A i \in mine : acts[i].entry \in es
         /\ \A e \in es : e = 0 \/ e \notin DOMAIN entries \/ entries[e].case = Due.case
         /\ \A l \in ls : \E i \in mine : acts[i].loop = l
         /\ \A i \in DOMAIN acts \ mine : acts[i].entry # 0 => acts[i].entry \notin es
    BY <1>5 DEF Entered
  <1>13. 0 \notin DOMAIN entries
    BY <1>5 DEF Entered
  <1> HIDE DEF k, rows1, mine, ls, es, N, L
  <1>14. /\ DOMAIN y = WorkFields /\ y.k = k /\ y.acts = acts /\ y.loops = L /\ y.entries = N /\ y.nextAct = nextAct
         /\ y.nextId = nextId /\ y.blocked = blocked /\ y.events = Now.events /\ y.pending = Now.pending
    BY <1>4, <1>8 DEF WorkFields
  <1>15. /\ DOMAIN v = WorkFields /\ v.k = Now.k /\ v.acts = acts /\ v.loops = L /\ v.entries = N /\ v.nextAct = nextAct
         /\ v.nextId = nextId /\ v.blocked = blocked /\ v.events = Now.events /\ v.pending = Now.pending
    BY <1>4 DEF WorkFields
  <1>16. PICK d \in Dropped(acts, mine) : w = [y EXCEPT !.acts = d.acts, !.events = @ \o d.events]
    BY <1>2, <1>14 DEF Released
  <1> DEFINE x == [v EXCEPT !.acts = d.acts, !.events = @ \o d.events]
  <1> HIDE DEF y
  <1>17. x \in Released(v, mine)
    BY <1>15, <1>16 DEF Released
  <1> HIDE DEF v
  <1>18. /\ w.k = k /\ w.acts = x.acts /\ w.loops = x.loops /\ w.entries = x.entries /\ w.nextAct = x.nextAct
         /\ w.nextId = x.nextId /\ w.blocked = x.blocked /\ w.events = x.events /\ w.pending = x.pending
         /\ DOMAIN w = WorkFields /\ x.k = Now.k
    BY <1>14, <1>15, <1>16 DEF WorkFields
  <1> HIDE DEF x
  <1>19. Good(v, mine)
    <2>1. Entered(acts, N, nextId, mine)
      BY <1>5, <1>11, <1>12 DEF Entered, Fewer
    <2>. QED BY <1>3, <1>4, <1>5, <1>15, <2>1, Likewise
  <1>20. Closing(Now, v, mine, ls, es)
    BY <1>4, <1>9, <1>11, <1>12, <1>13, <1>15, <1>19 DEF Closing
  <1>21. Cut(Now, x, mine, ls, es)
    BY ONLY <1>3, <1>17, <1>20, FreedCut
  <1>22. /\ mine \subseteq DOMAIN Now.acts /\ X \subseteq es \cup X /\ \A l \in ls : \E i \in mine : Now.acts[i].loop = l
    BY <1>4, <1>9, <1>12
  <1>23. \A i \in mine : Now.acts[i].entry # 0 => Now.acts[i].entry \in es \cup X
    BY <1>4, <1>12
  <1> HIDE DEF X
  <1>24. Tied(x, X)
    BY ONLY <1>3, <1>21, <1>22, <1>23, CutTied
  <1>25. Noted(x, sizes) /\ Good(x, {})
    BY <1>3, <1>21, CutNoted DEF Cut
  <1>26. Retold(x, w)
    BY <1>6, <1>5, <1>18 DEF Retold, CaseFields
  <1>27. Good(w, {})
    BY <1>3, <1>25, <1>26, Retelling
  <1>28. All(w) = All(x) /\ Coming(w) = Coming(x)
    BY <1>18 DEF All, Coming
  <1>29. Tied(w, {})
    BY <1>18, <1>24, <1>28 DEF Tied, X
  <1>30. Others(w) /\ Marked(w.acts, w.entries, Coming(w), Len(sizes))
    BY <1>18, <1>25, <1>28 DEF Noted, Others
  <1>31. CaseIs(k, sizes)
    <2>1. Heaped(<<>>) /\ DOMAIN <<>> = {}
      BY FS_EmptySet DEF Heaped
    <2>. QED BY <1>5, <1>6, <2>1 DEF CaseIs
  <1>32. \A i \in DOMAIN w.acts : w.acts[i].case # Due.case
    BY <1>4, <1>10, <1>18, <1>21 DEF Cut, Alike
  <1>33. Due.node # NoNode
    BY <1>3, ModelsAssumption DEF Here, Nodes
  <1>34. CaseSound(All(w), w.k, w.acts, w.entries, w.blocked, Due.case, sizes)
    BY <1>6, <1>18, <1>31, <1>32, <1>33 DEF CaseSound
  <1>35. sizes \in Seq(Nat \ {0}) /\ \A c \in DOMAIN cases : CaseIs(cases[c], sizes)
    BY DEF Sound, SoundAt, CaseSound
  <1>36. Leftover(w, sizes)
    BY <1>27, <1>29, <1>30, <1>34, <1>35 DEF Leftover
  <1>. QED BY <1>1, <1>2, <1>3, <1>36, LeftSound

-----------------------------------------------------------------------------
(* Events without effect *)

\* The next event is no token that counts
Idle == \A c \in DOMAIN cases : cases[c].alive /\ Due.kind = "enter" /\ Due.case = c => ~Fresh(cases[c], Due)

\* The accounts do not count it, and it may be left out
LEMMA Skipped ==
    ASSUME IInv, Sound, heap # <<>>, Idle
    PROVE  /\ SoundAt(Tail(heap), cases, acts, loops, entries, nextAct, nextId, blocked, sizes)
           /\ Early(Tail(heap), acts)
  <1> DEFINE g == Tail(heap)
             f == <<Due>>
  <1>1. Sequence(heap) /\ Sequence(g) /\ Range(heap) = {Due} \cup Range(g)
    BY Popped DEF IInv, Ordered
  <1>2. heap = f \o g /\ Sequence(f) /\ Range(f) = {Due}
    <2>1. Range(heap) = {Due} \cup Range(Tail(heap)) /\ heap = <<Due>> \o Tail(heap) /\ Sequence(Tail(heap)) /\ Sequence(<<Due>>)
      BY <1>1, Headed, Single DEF Due
    <2>. QED BY <2>1, Single
  <1>3. Ties(acts, loops, entries, g, nextAct, nextId, {})
    BY FirstTies DEF Sound, SoundAt
  <1>4. Marked(acts, entries, Range(g), Len(sizes))
    BY <1>1 DEF Sound, SoundAt, Marked
  <1>5. ASSUME NEW c \in DOMAIN cases PROVE CaseSound(g, cases[c], acts, entries, blocked, c, sizes)
    <2> DEFINE k == cases[c]
    <2>1. CaseSound(heap, k, acts, entries, blocked, c, sizes)
      BY DEF Sound, SoundAt
    <2>2. CASE ~k.alive
      BY <2>1, <2>2 DEF CaseSound
    <2>3. CASE k.alive
      <3>1. IsFiniteSet(DOMAIN acts) /\ IsFiniteSet(DOMAIN entries)
        BY <2>1, <2>3 DEF CaseSound, Counted, Balance, Stock
      <3>2. ASSUME NEW N PROVE EntersAt(g, k, c, N) = EntersAt(heap, k, c, N)
        <4>1. Due \notin Tokens(f, k, c, N)
          BY <2>3 DEF Idle, Tokens
        <4>2. EntersAt(f, k, c, N) = 0
          BY <4>1, EntersFew
        <4> HIDE DEF f, g, k
        <4>3. EntersAt(f \o g, k, c, N) = EntersAt(f, k, c, N) + EntersAt(g, k, c, N) /\ EntersAt(g, k, c, N) \in Nat
          BY ONLY <1>1, <1>2, EntersConcat
        <4>. QED BY <1>2, <4>2, <4>3
      <3>3. Unconcerned(heap, acts, entries, blocked, g, acts, entries, blocked, c, k)
        <4> HIDE DEF g, k
        <4>. QED BY <1>1, <3>1, <3>2 DEF Unconcerned
      <3>4. CaseSound(g, k, acts, entries, blocked, c, sizes)
        <4> HIDE DEF g, k
        <4>. QED BY <2>1, <3>3, StillCase
      <3>. QED BY <3>4
    <2>. QED BY <2>2, <2>3
  <1>6. Early(g, acts)
    BY <1>1, EarlyTail DEF Sound
  <1>. QED BY <1>3, <1>4, <1>5, <1>6 DEF Sound, SoundAt

\* What comes without timers is in time, if activities stay what they are
LEMMA QuietInTime ==
    ASSUME NEW A, NEW h, Early(h, A), NEW C, DOMAIN C \subseteq DOMAIN A, Alike(A, C, DOMAIN C), NEW ev, Sequence(ev),
           \A e \in Range(ev) : e.kind \notin {"boundary", "multiBoundary", "deadline"}
    PROVE  InTime(C, h, ev)
  <1>1. InTime(A, h, <<>>) /\ Range(<<>>) = {} /\ Sequence(<<>>)
    BY InTimeNone, Empty
  <1>2. SameEnded(A, C, Range(h) \cup Range(<<>>))
    BY DEF SameEnded, Alike
  <1>3. InTime(C, h, <<>>)
    BY <1>1, <1>2, InTimeAlike
  <1>4. \A e \in Range(ev) : \A i \in DOMAIN C : ~Watched(e, i, C[i])
    BY Unwatched
  <1>5. InTime(C, h, <<>> \o ev)
    BY <1>1, <1>3, <1>4, InTimeMore
  <1>. QED BY <1>5, WithNothing

\* An event without a cause left is thrown away
LEMMA DiscardSound == IInv /\ Sound /\ Discard => Sound' /\ outcome' = "running"
  <1> SUFFICES ASSUME IInv, Sound, Discard PROVE Sound' /\ outcome' = "running"
    OBVIOUS
  <1>1. /\ Running /\ ~Live(Due) /\ heap' = Tail(heap) /\ outcome' = "running" /\ model' = model /\ cases' = cases
        /\ acts' = acts /\ loops' = loops /\ entries' = entries /\ nextAct' = nextAct /\ nextId' = nextId
        /\ blocked' = blocked /\ sizes' = sizes
    BY DEF Discard, opened, Running
  <1>2. Idle
    BY <1>1 DEF Idle, Live, Fresh
  <1>3. SoundAt(Tail(heap), cases, acts, loops, entries, nextAct, nextId, blocked, sizes) /\ Early(Tail(heap), acts)
    BY <1>1, <1>2, Skipped DEF Running
  <1>. QED BY <1>1, <1>3, NextSound

\* A token of a case that has been killed
LEMMA DeadTokenSound == IInv /\ Sound /\ DeadToken => Sound' /\ outcome' = "running"
  <1> SUFFICES ASSUME IInv, Sound, DeadToken PROVE Sound' /\ outcome' = "running"
    OBVIOUS
  <1>1. /\ Running /\ ~cases[Due.case].alive /\ heap' = Tail(heap) /\ outcome' = "running" /\ model' = model /\ cases' = cases
        /\ acts' = acts /\ loops' = loops /\ entries' = entries /\ nextAct' = nextAct /\ nextId' = nextId
        /\ blocked' = blocked /\ sizes' = sizes
    BY DEF DeadToken, opened, Running, Serve
  <1>2. Idle
    BY <1>1 DEF Idle
  <1>3. SoundAt(Tail(heap), cases, acts, loops, entries, nextAct, nextId, blocked, sizes) /\ Early(Tail(heap), acts)
    BY <1>1, <1>2, Skipped DEF Running
  <1>. QED BY <1>1, <1>3, NextSound

-----------------------------------------------------------------------------
(* Rises of a capacity *)

\* What comes with capacity that has been freed or that has come
LEMMA CapacityServes ==
    ASSUME IInv, Capacity
    PROVE  \E d, rise :
              /\ acts' = d.acts /\ heap' \in PushedAll(Tail(heap), d.events \o rise)
              /\ Settled(acts, DemandsOn({Due.node}), nextAct, d)
              /\ Sequence(rise) /\ \A e \in Range(rise) : e.kind = "capacity"
              /\ Once(Tail(heap) \o (d.events \o rise)) /\ Timed(Range(Tail(heap)) \cup Range(d.events \o rise))
  <1> DEFINE p == Due.node
             t == Due.t
             h == Tail(heap)
             F == Range(h)
             M == DemandsOn({p})
  <1>1. outcome = "running" /\ heap # <<>> /\ Due.kind = "capacity" /\ WaitsOnPool(p)
    BY DEF Capacity, Serve, Running, Live
  <1>2. PICK d \in Drained(acts, M) :
           LET rise == IF \E i \in Waiting(d.acts) : p \in PoolsOf(d.acts[i].node)
                       THEN RiseEvents({p}, pending \ {p}) ELSE <<>>
           IN acts' = d.acts /\ heap' \in PushedAll(h, d.events \o rise)
    BY DEF Capacity
  <1> DEFINE D == Range(d.events)
             waits == \E i \in Waiting(d.acts) : p \in PoolsOf(d.acts[i].node)
             rise == IF waits THEN RiseEvents({p}, pending \ {p}) ELSE <<>>
             R == Range(rise)
  <1>3. /\ t \in Nat /\ IsEvent(Due, clock, nextAct, Len(cases)) /\ Range(heap) = {Due} \cup F
        /\ Sequence(h) /\ Once(h) /\ \A e \in F : Differ(Due, e)
    BY <1>1, Popped
  <1>4. Events(F, t, nextAct, Len(cases))
    BY <1>1, <1>3, TimePasses DEF Events
  <1>5. model \in Models /\ Acts(acts, nextAct, Len(cases)) /\ OneEnd(acts, Range(heap), {})
    BY DEF IInv, Ordered
  <1>6. p \in Pools
    BY <1>1, <1>3 DEF IsEvent
  <1>7. Settled(acts, M, nextAct, d)
    BY <1>2, <1>3, <1>5, Drains
  <1>8. OneEnd(acts, F, {})
    BY <1>1, <1>3, <1>5 DEF OneEnd
  <1>9. Comes(acts, M, nextAct, d, F)
    BY <1>5, <1>7, <1>8, Settling, <1>3
  <1> HIDE DEF M
  <1>10. Events(D, t, nextAct, Len(cases)) /\ \A e \in F, f \in D : Differ(e, f)
    BY <1>9 DEF Comes
  <1>11. Sequence(d.events) /\ Once(d.events) /\ \A e \in D : e.kind = "done"
    BY <1>7 DEF Settled
  <1>12. Sequence(rise) /\ Once(rise) /\ \A e \in R : e.kind = "capacity" /\ e.t \in Nat /\ e.node = p
    <2> DEFINE r == RiseEvents({p}, pending \ {p})
    <2>1. Rising({p}, pending \ {p}, r)
      BY <1>3, <1>5, <1>6, RisesAhead
    <2> HIDE DEF r, waits
    <2>2. Sequence(r) /\ Once(r) /\ \A e \in Range(r) : e.kind = "capacity" /\ e.t \in Nat /\ e.node = p
      BY <2>1 DEF Rising
    <2>3. CASE waits
      BY <2>2, <2>3 DEF r
    <2>4. CASE ~waits
      <3>1. rise = <<>>
        BY <2>4
      <3> HIDE DEF rise
      <3>. QED BY <3>1, Empty, OnceEmpty
    <2>. QED BY <2>3, <2>4
  <1>13. acts' = d.acts /\ heap' \in PushedAll(h, d.events \o rise)
    BY <1>2
  <1> HIDE DEF rise, R, D, F, h
  <1> DEFINE s == d.events \o rise
  <1>14. Sequence(s) /\ Range(s) = D \cup R
    BY ONLY <1>11, <1>12, Concat DEF D, R
  <1>15. Once(s)
    <2>1. \A e \in D, f \in R : Differ(e, f)
      BY <1>11, <1>12 DEF Differ
    <2>. QED BY ONLY <1>11, <1>12, <2>1, OnceConcat DEF D, R
  <1> HIDE DEF s
  <1>16. \A e \in F, f \in D \cup R : Differ(e, f)
    BY <1>1, <1>3, <1>10, <1>12 DEF Differ
  <1>17. Once(h \o s)
    BY ONLY <1>3, <1>14, <1>15, <1>16, OnceConcat DEF F
  <1>18. Timed(F \cup Range(s))
    BY <1>4, <1>10, <1>12, <1>14 DEF Timed, Events, IsEvent
  <1>. QED BY <1>7, <1>12, <1>13, <1>17, <1>18 DEF s, R, F, h, M

\* Ends and rises come, and activities stay what they are
LEMMA QuietSound ==
    ASSUME NEW h, NEW S, NEW A, NEW L, NEW E, NEW na, NEW ni, NEW B, NEW sz, SoundAt(h, S, A, L, E, na, ni, B, sz),
           NEW C, DOMAIN C = DOMAIN A, Alike(A, C, DOMAIN C), NEW ev, Quiet(ev, C)
    PROVE  SoundAt(h \o ev, S, C, L, E, na, ni, B, sz)
  <1>1. /\ Ties(A, L, E, h, na, ni, {}) /\ Marked(A, E, Range(h), Len(sz)) /\ Sequence(h) /\ Sequence(ev)
        /\ \A e \in Range(ev) : e.kind # "enter"
    BY DEF SoundAt, Ties, Quiet
  <1> DEFINE g == h \o ev
  <1>2. Sequence(g) /\ Range(g) = Range(h) \cup Range(ev)
    BY <1>1, Concat
  <1>3. Cuts(A, L, E, h, C, L, E, g, {}, {}, {})
    BY DEF Cuts, Fewer
  <1> HIDE DEF g
  <1>4. Ties(C, L, E, g, na, ni, {})
    <2>1. \A i \in DOMAIN E \ ({} \cup {}) : i \notin {} /\ \E j \in DOMAIN C : A[j].entry = i
      BY <1>1 DEF Ties, Populated, Peopled
    <2>. QED BY <1>1, <1>3, <2>1, CutTies
  <1>5. Marked(C, E, Range(g), Len(sz))
    BY <1>1, <1>2 DEF Marked, Alike
  <1>6. ASSUME NEW c \in DOMAIN S PROVE CaseSound(g, S[c], C, E, B, c, sz)
    <2> DEFINE k == S[c]
    <2>1. CaseSound(h, k, A, E, B, c, sz)
      BY DEF SoundAt
    <2>2. CASE ~k.alive
      BY <2>1, <2>2 DEF CaseSound, Alike
    <2>3. CASE k.alive
      <3>1. IsFiniteSet(DOMAIN C) /\ IsFiniteSet(DOMAIN E)
        BY <2>1, <2>3 DEF CaseSound, Counted, Balance, Stock
      <3> HIDE DEF k
      <3>2. ASSUME NEW N PROVE EntersAt(g, k, c, N) = EntersAt(h, k, c, N)
        <4>1. EntersAt(ev, k, c, N) = 0
          BY <1>1, EntersFew
        <4>2. EntersAt(g, k, c, N) = EntersAt(h, k, c, N) + EntersAt(ev, k, c, N) /\ EntersAt(h, k, c, N) \in Nat
          BY ONLY <1>1, EntersConcat DEF g
        <4>. QED BY <4>1, <4>2
      <3>3. Unconcerned(h, A, E, B, g, C, E, B, c, k)
        BY <1>1, <1>2, <3>1, <3>2 DEF Unconcerned, Alike
      <3>4. CaseSound(g, k, C, E, B, c, sz)
        BY <2>1, <3>3, StillCase
      <3>. QED BY <3>4 DEF k
    <2>. QED BY <2>2, <2>3
  <1>. QED BY <1>4, <1>5, <1>6 DEF SoundAt, g

\* The capacity of a pool has risen
LEMMA CapacitySound == IInv /\ Sound /\ Capacity => Sound' /\ outcome' = "running"
  <1> SUFFICES ASSUME IInv, Sound, Capacity PROVE Sound' /\ outcome' = "running"
    OBVIOUS
  <1>1. /\ outcome = "running" /\ heap # <<>> /\ Due.kind = "capacity" /\ outcome' = "running" /\ model' = model
        /\ cases' = cases /\ loops' = loops /\ entries' = entries /\ nextAct' = nextAct /\ nextId' = nextId
        /\ blocked' = blocked /\ sizes' = sizes
    BY DEF Capacity, Serve, Running
  <1> DEFINE h == Tail(heap)
             M == DemandsOn({Due.node})
  <1>2. PICK d, rise :
           /\ acts' = d.acts /\ heap' \in PushedAll(h, d.events \o rise) /\ Settled(acts, M, nextAct, d)
           /\ Sequence(rise) /\ \A e \in Range(rise) : e.kind = "capacity"
           /\ Once(h \o (d.events \o rise)) /\ Timed(Range(h) \cup Range(d.events \o rise))
    BY CapacityServes
  <1> DEFINE C == d.acts
             ev == d.events \o rise
  <1>3. SoundAt(h, cases, acts, loops, entries, nextAct, nextId, blocked, sizes) /\ Early(h, acts)
    BY <1>1, Skipped DEF Idle
  <1> HIDE DEF M
  <1>4. DOMAIN C = DOMAIN acts /\ Alike(acts, C, DOMAIN C)
    BY <1>2 DEF Settled, Alike
  <1>5. Quiet(ev, C)
    <2>1. Sequence(d.events) /\ Sequence(rise)
      BY <1>2 DEF Settled
    <2>2. Sequence(ev) /\ Range(ev) = Range(d.events) \cup Range(rise)
      BY <2>1, Concat
    <2>3. \A e \in Range(d.events) : e.kind = "done" /\ e.act \in DOMAIN acts /\ e.node = acts[e.act].node
      BY <1>2 DEF Settled, Waiting
    <2> HIDE DEF ev
    <2>. QED BY <1>2, <1>4, <2>2, <2>3 DEF Quiet, Alike
  <1>6. Sequence(h) /\ Sorted(h)
    BY <1>1, Popped
  <1>7. heap' \in PushedAll(h, ev) /\ Once(h \o ev) /\ Timed(Range(h) \cup Range(ev)) /\ Sequence(ev) /\ acts' = C
    BY <1>2, <1>5 DEF Quiet
  <1> HIDE DEF h, ev, C
  <1>8. SoundAt(h \o ev, cases, C, loops, entries, nextAct, nextId, blocked, sizes)
    BY <1>3, <1>4, <1>5, QuietSound
  <1>a. InTime(C, h, ev)
    BY <1>3, <1>4, <1>5, QuietInTime DEF Quiet
  <1>9. Shuffles(h \o ev, heap') /\ Early(heap', C)
    <2>1. PICK g : g = heap'
      OBVIOUS
    <2>2. g \in PushedAll(h, ev)
      BY <1>7, <2>1
    <2>3. /\ Sequence(g) /\ Range(g) = Range(h) \cup Range(ev) /\ \A S : NumberOf(g, S) = NumberOf(h, S) + NumberOf(ev, S)
          /\ \A A : InTime(A, h, ev) => Early(g, A)
      BY ONLY <1>6, <1>7, <2>2, PushedAllOf
    <2>4. Sequence(h \o ev) /\ Range(h \o ev) = Range(h) \cup Range(ev)
      BY <1>6, <1>7, Concat
    <2>5. \A S : NumberOf(h \o ev, S) = NumberOf(h, S) + NumberOf(ev, S)
      BY ONLY <1>6, <1>7, NumberConcat
    <2>. QED BY <1>a, <2>1, <2>3, <2>4, <2>5 DEF Shuffles
  <1>10. PICK g : g = heap'
    OBVIOUS
  <1>11. SoundAt(g, cases, C, loops, entries, nextAct, nextId, blocked, sizes)
    BY ONLY <1>8, <1>9, <1>10, ShuffledSound
  <1>. QED BY <1>1, <1>7, <1>9, <1>10, <1>11, NextSound

-----------------------------------------------------------------------------
(* Arrivals *)

\* The case that comes at the start n at the time t
NewCase(n, t) ==
    [tokens |-> 1, alive |-> TRUE, endId |-> NoNode, ands |-> << >>, ors |-> << >>, instant |-> t, events |-> 0,
     subs |-> [u \in Subs |-> [tokens |-> IF u \in Range(Inside[n]) THEN 1 ELSE 0,
                               instance |-> 0, marks |-> <<>>, epoch |-> 0]]]

\* Its token, and the next arrival
Newcome == Enter(Due.t, Len(cases) + 1, Due.node, <<>>, Times[Due.node], 0, 0)

\* An arrival queues the token, and at most the next arrival of the same start
LEMMA ArriveServes ==
    ASSUME IInv, Arrive
    PROVE  \E rest :
              /\ heap' \in PushedAll(Tail(heap), <<Newcome>> \o rest)
              /\ Sequence(rest) /\ \A e \in Range(rest) : e.kind = "arrive"
              /\ Once(Tail(heap) \o (<<Newcome>> \o rest))
              /\ Timed(Range(Tail(heap)) \cup Range(<<Newcome>> \o rest))
  <1> DEFINE n == Due.node
             t == Due.t
             next(gap) == IF t + gap < TStop THEN <<Event(t + gap, "arrive", 0, n, 0)>> ELSE <<>>
             h == Tail(heap)
             F == Range(h)
  <1>1. /\ outcome = "running" /\ heap # <<>> /\ Due.kind = "arrive"
        /\ \/ heap' \in PushedAll(h, <<Newcome>>)
           \/ \E gap \in model.intervals[n] : heap' \in PushedAll(h, <<Newcome>> \o next(gap))
    BY DEF Arrive, Serve, Running, Newcome
  <1>2. t \in Nat /\ IsEvent(Due, clock, nextAct, Len(cases)) /\ Sequence(h) /\ Once(h) /\ Timed(Range(heap)) /\ F \subseteq Range(heap)
    BY <1>1, Popped
  <1>3. model \in Models
    BY DEF IInv
  <1>4. n \in Range(Starts) /\ n \in Nodes /\ model.intervals[n] \subseteq Nat
    BY <1>1, <1>2, <1>3, Statics DEF IsEvent
  <1>5. Newcome.t = t /\ Newcome.kind = "enter"
    BY DEF Newcome, Enter
  <1>6. PICK rest : /\ heap' \in PushedAll(h, <<Newcome>> \o rest) /\ Sequence(rest)
                    /\ \A e \in Range(rest) : e.kind = "arrive" /\ e.t \in Nat
    <2>1. CASE heap' \in PushedAll(h, <<Newcome>>)
      <3>1. <<Newcome>> \o <<>> = <<Newcome>>
        OBVIOUS
      <3>. QED BY <2>1, <3>1, Empty
    <2>2. ASSUME NEW gap \in model.intervals[n], heap' \in PushedAll(h, <<Newcome>> \o next(gap))
          PROVE  \E rest : /\ heap' \in PushedAll(h, <<Newcome>> \o rest) /\ Sequence(rest)
                           /\ \A e \in Range(rest) : e.kind = "arrive" /\ e.t \in Nat
      <3> DEFINE e1 == Event(t + gap, "arrive", 0, n, 0)
                 s == next(gap)
      <3>1. e1.t \in Nat /\ e1.kind = "arrive"
        BY <1>2, <1>4 DEF Event
      <3>2. s = <<e1>> \/ s = <<>>
        OBVIOUS
      <3> HIDE DEF e1
      <3>3. Sequence(s) /\ Range(s) \subseteq {e1}
        BY <3>2, Single, Empty
      <3> HIDE DEF s
      <3>. QED BY <3>1, <3>3, <2>2 DEF s
    <2>. QED BY <1>1, <2>1, <2>2
  <1> HIDE DEF h, F, t
  <1> DEFINE ev == <<Newcome>> \o rest
  <1>7. Sequence(ev) /\ Range(ev) = {Newcome} \cup Range(rest)
    <2>1. Sequence(<<Newcome>>) /\ Range(<<Newcome>>) = {Newcome}
      BY Single
    <2>. QED BY <1>6, <2>1, Concat
  <1> HIDE DEF ev
  <1>8. Timed(F \cup Range(ev))
    BY <1>2, <1>5, <1>6, <1>7 DEF Timed
  <1>9. Once(ev) /\ \A e \in F, f \in Range(ev) : Differ(e, f)
    <2>1. \A f \in Range(ev) : f.kind \in {"enter", "arrive"}
      BY <1>5, <1>6, <1>7
    <2>2. \A i \in DOMAIN ev : ev[i] \in Range(ev)
      BY DEF Range
    <2>. QED BY <2>1, <2>2 DEF Once, Differ
  <1>10. Once(h \o ev)
    BY ONLY <1>2, <1>7, <1>9, OnceConcat DEF F
  <1>. QED BY <1>6, <1>8, <1>10 DEF ev, F, h

\* Nothing concerns the case c
Unused(h, A, E, B, c) ==
    /\ \A e \in Range(h) : e.kind = "enter" => e.case # c
    /\ (\A i \in DOMAIN A : A[i].case # c) /\ (\A i \in DOMAIN E : E[i].case # c)
    /\ \A n : <<n, c>> \notin B

\* No tokens wait at no joins
LEMMA NoHeap == Heaped(<< >>) /\ DOMAIN << >> = {} /\ \A K : AtKeys(<< >>, K) = 0
  <1>1. DOMAIN << >> = {} /\ IsFiniteSet({})
    BY FS_EmptySet
  <1>2. Heaped(<< >>)
    BY <1>1 DEF Heaped
  <1>3. ASSUME NEW K PROVE AtKeys(<< >>, K) = 0
    <2>1. Kept(<< >>, K \cap DOMAIN << >>) = {}
      BY <1>1 DEF Kept
    <2>. QED BY <2>1, FS_EmptySet DEF AtKeys
  <1>. QED BY <1>1, <1>2, <1>3

\* A case that has just come has one token
LEMMA NewcomerSound ==
    ASSUME model \in Models, NEW h, Sequence(h), NEW A, IsFiniteSet(DOMAIN A), NEW E, IsFiniteSet(DOMAIN E), NEW B,
           NEW c, Unused(h, A, E, B, c), NEW n \in Range(Starts), NEW t, NEW e, NEW sz,
           e.kind = "enter" /\ e.case = c /\ e.node = n /\ e.epoch = 0
    PROVE  CaseSound(h \o <<e>>, NewCase(n, t), A, E, B, c, sz)
  <1> DEFINE k == NewCase(n, t)
             g == h \o <<e>>
             d == [u \in Subs |-> 0]
             X == << >>
  <1>1. Sequence(<<e>>) /\ Range(<<e>>) = {e} /\ Sequence(g) /\ Range(g) = Range(h) \cup {e}
    <2>1. Sequence(<<e>>) /\ Range(<<e>>) = {e}
      BY Single
    <2>. QED BY <2>1, Concat
  <1>2. /\ k.tokens = 1 /\ k.alive = TRUE /\ k.endId = NoNode /\ k.ands = << >> /\ k.ors = << >> /\ DOMAIN k.subs = Subs
        /\ DOMAIN k = CaseFields
        /\ \A u \in Subs : /\ DOMAIN k.subs[u] = {"tokens", "instance", "marks", "epoch"}
                           /\ k.subs[u].tokens = (IF u \in Range(Inside[n]) THEN 1 ELSE 0)
                           /\ k.subs[u].instance = 0 /\ k.subs[u].marks = <<>> /\ k.subs[u].epoch = 0
    BY DEF NewCase, CaseFields
  <1>3. n \in Nodes /\ (Inside[n] # <<>> => Head(Inside[n]) \in Subs)
    <2>1. n \in Nodes
      BY Statics, SequenceOf DEF Range
    <2>. QED BY <2>1, InsideIs, HeadTailProperties
  <1>4. EpochAt(k, n) = 0
    BY <1>2, <1>3 DEF EpochAt
  <1> HIDE DEF k, g
  <1>5. CaseIs(k, sz)
    <2>1. 0 \in Int /\ 1 \in Int /\ 0 \in Nat
      OBVIOUS
    <2>2. ASSUME NEW u \in Subs PROVE IsSub(k.subs[u], Len(sz))
      <3>1. <<>> \in Seq(1 .. Len(sz))
        BY EmptySeq
      <3>2. k.subs[u].tokens \in Int
        BY <1>2, <2>1
      <3>. QED BY <1>2, <2>1, <3>1, <3>2 DEF IsSub, IsMarks
    <2>. QED BY <1>2, <2>1, <2>2, NoHeap DEF CaseIs
  <1>6. Epochs(k, c, Range(g))
    BY <1>1, <1>4 DEF Epochs, Unused
  <1>7. Opens(k)
    <2>1. ASSUME NEW u \in Subs PROVE OpensAt(k.subs[u], u)
      <3>1. u \in Range(Inside[n]) => u \in Births
        BY DEF Births
      <3>. QED BY <1>2, <3>1 DEF OpensAt
    <2>. QED BY <2>1 DEF Opens
  <1>8. ASSUME NEW N PROVE Total(g, k, A, E, c, << >>, N) = Unit(n, N)
    <2>1. EntersAt(h, k, c, N) = 0
      BY EntersFew DEF Unused
    <2>2. EntersAt(<<e>>, k, c, N) = Unit(n, N)
      <3>1. EntersAt(<<e>>, k, c, N) = IF e \in Tokens(<<e>>, k, c, N) THEN 1 ELSE 0
        BY EntersFew
      <3>2. e \in Tokens(<<e>>, k, c, N) <=> n \in N
        BY <1>1, <1>4 DEF Tokens, Fresh
      <3>. QED BY <3>1, <3>2 DEF Unit
    <2>3. EntersAt(g, k, c, N) = EntersAt(h, k, c, N) + EntersAt(<<e>>, k, c, N)
      BY ONLY <1>1, Sequence(h), EntersConcat DEF g
    <2>4. EntersAt(g, k, c, N) = Unit(n, N)
      BY <2>1, <2>2, <2>3 DEF Unit
    <2>5. Placed(A, Owners(A), c, N) = 0
      <3>1. {i \in Owners(A) : A[i].case = c /\ A[i].node \in N} = {}
        BY DEF Owners, Unused
      <3>. QED BY <3>1, FS_EmptySet DEF Placed
    <2>6. Placed(E, DOMAIN E, c, N) = 0
      <3>1. {i \in DOMAIN E : E[i].case = c /\ E[i].node \in N} = {}
        BY DEF Unused
      <3>. QED BY <3>1, FS_EmptySet DEF Placed
    <2>7. AtKeys(k.ands, N) = 0 /\ AtKeys(k.ors, N \X Nat) = 0 /\ AtKeys(<< >>, N) = 0
      BY <1>2, NoHeap
    <2>. QED BY <2>4, <2>5, <2>6, <2>7 DEF Total, Unit
  <1>9. Balance(g, k, A, E, B, c, << >>, 0, d)
    <2>1. Stock(g, k, A, E, << >>)
      BY <1>1, <1>2, NoHeap DEF Stock
    <2>2. Lost(<< >>, B, c)
      BY NoHeap DEF Lost, Unused
    <2>3. k.tokens = Total(g, k, A, E, c, << >>, Nodes) + 0
      BY <1>2, <1>3, <1>8 DEF Unit
    <2>4. ASSUME NEW u \in Subs PROVE k.subs[u].tokens = Total(g, k, A, E, c, << >>, NodesIn(u)) + d[u]
      <3>1. n \in NodesIn(u) <=> u \in Range(Inside[n])
        BY <1>3 DEF NodesIn, Round
      <3>. QED BY <1>2, <1>8, <3>1 DEF Unit
    <2>. QED BY <2>1, <2>2, <2>3, <2>4 DEF Balance
  <1>10. Counted(g, k, A, E, B, c)
    BY <1>7, <1>9 DEF Counted
  <1>11. CaseSound(g, k, A, E, B, c, sz)
    BY <1>2, <1>5, <1>6, <1>10 DEF CaseSound
  <1>. QED BY <1>11 DEF k, g

\* A case arrives, and the next arrival is arranged
LEMMA ArriveSound == IInv /\ Sound /\ Arrive => Sound' /\ outcome' = "running"
  <1> SUFFICES ASSUME IInv, Sound, Arrive PROVE Sound' /\ outcome' = "running"
    OBVIOUS
  <1> DEFINE n == Due.node
             c == Len(cases) + 1
             h == Tail(heap)
             k == NewCase(n, Due.t)
             S == Append(cases, k)
             e == Newcome
  <1>1. /\ outcome = "running" /\ heap # <<>> /\ Due.kind = "arrive" /\ outcome' = "running" /\ model' = model
        /\ cases' = S /\ acts' = acts /\ loops' = loops /\ entries' = entries /\ nextAct' = nextAct /\ nextId' = nextId
        /\ blocked' = blocked /\ sizes' = sizes
    BY DEF Arrive, Serve, Running, opened, NewCase
  <1>2. PICK rest : /\ heap' \in PushedAll(h, <<e>> \o rest) /\ Sequence(rest) /\ \A f \in Range(rest) : f.kind = "arrive"
                    /\ Once(h \o (<<e>> \o rest)) /\ Timed(Range(h) \cup Range(<<e>> \o rest))
    BY ArriveServes
  <1>3. SoundAt(h, cases, acts, loops, entries, nextAct, nextId, blocked, sizes) /\ Early(h, acts)
    BY <1>1, Skipped DEF Idle
  <1>4. /\ e.kind = "enter" /\ e.case = c /\ e.node = n /\ e.epoch = 0 /\ e.loop = 0 /\ e.marks = <<>>
    BY DEF Newcome, Enter
  <1>5. /\ model \in Models /\ Sequence(cases) /\ Acts(acts, nextAct, Len(cases)) /\ Entered(acts, entries, nextId, {})
        /\ Events(Range(heap), clock, nextAct, Len(cases))
    BY DEF IInv, Ordered
  <1>6. n \in Range(Starts) /\ Sequence(h) /\ Sorted(h) /\ Range(h) \subseteq Range(heap) /\ Len(cases) \in Nat /\ DOMAIN cases = 1 .. Len(cases)
    BY <1>1, <1>5, Popped, SequenceOf DEF IsEvent, Sequence
  <1> DEFINE m == <<e>>
             ev == m \o rest
             g == h \o m
             z == h \o ev
  <1>7. Sequence(m) /\ Range(m) = {e}
    BY Single
  <1>8. Sequence(ev) /\ Range(ev) = {e} \cup Range(rest)
    BY <1>2, <1>7, Concat
  <1>9. Sequence(g) /\ Range(g) = Range(h) \cup {e}
    BY <1>6, <1>7, Concat
  <1>10. Sequence(z) /\ Range(z) = Range(h) \cup Range(ev)
    BY <1>6, <1>8, Concat
  <1>11. z = g \o rest
    <2> HIDE DEF h, m
    <2>. QED BY ONLY <1>2, <1>6, <1>7, Assoc
  <1> HIDE DEF h, e, m, ev, g, z, S, k
  <1>12. Len(S) = c /\ DOMAIN S = 1 .. c /\ S[c] = k /\ \A i \in 1 .. Len(cases) : S[i] = cases[i]
    <2> DEFINE b == <<k>>
               y == cases \o b
    <2>1. S = y
      BY <1>5, Appended DEF S
    <2>2. Sequence(b) /\ Len(b) = 1 /\ b[1] = k
      BY Single
    <2> HIDE DEF b
    <2>3. /\ Len(y) = Len(cases) + Len(b) /\ DOMAIN y = 1 .. Len(cases) + Len(b)
          /\ \A i \in 1 .. Len(cases) : y[i] = cases[i]
          /\ \A i \in 1 .. Len(b) : y[Len(cases) + i] = b[i]
      <3>1. Sequence(cases) /\ Sequence(b)
        BY <1>5, <2>2
      <3>. QED BY ONLY <3>1, Concat
    <2> HIDE DEF y
    <2>. QED BY <1>6, <2>1, <2>2, <2>3 DEF c
  <1>13. Ties(acts, loops, entries, z, nextAct, nextId, {})
    <2>1. Bordered(acts, entries, Range(ev), nextAct, nextId) /\ \A f \in Range(ev) : f.kind \in {"enter", "arrive"} /\ ~Returning(f)
      BY <1>2, <1>4, <1>8 DEF Bordered, Returning
    <2>. QED BY <1>3, <1>8, <2>1, MoreTies DEF SoundAt, z
  <1>14. Marked(acts, entries, Range(z), Len(sizes))
    BY <1>2, <1>3, <1>4, <1>8, <1>10, EmptySeq DEF SoundAt, Marked, IsMarks
  <1>15. Unused(h, acts, entries, blocked, c)
    <2>1. \A f \in Range(h) : f.kind = "enter" => f.case # c
      BY <1>5, <1>6 DEF Events, IsEvent
    <2>2. \A i \in DOMAIN acts : acts[i].case # c
      BY <1>5, <1>6 DEF Acts, IsAct
    <2>3. \A i \in DOMAIN entries : entries[i].case # c
      BY <1>3, <1>5, <2>2 DEF SoundAt, Ties, Populated, Peopled, Entered
    <2>4. \A x : <<x, c>> \notin blocked
      BY <1>3, <1>6 DEF SoundAt
    <2>. QED BY <2>1, <2>2, <2>3, <2>4 DEF Unused
  <1>16. IsFiniteSet(DOMAIN acts) /\ IsFiniteSet(DOMAIN entries)
    <2>1. nextAct \in Nat /\ nextId \in Nat /\ DOMAIN acts \subseteq 1 .. nextAct - 1 /\ DOMAIN entries \subseteq 1 .. nextId - 1
      BY <1>5 DEF Acts, Entered
    <2>2. IsFiniteSet(1 .. nextAct - 1) /\ IsFiniteSet(1 .. nextId - 1)
      BY <2>1, FS_Interval
    <2>. QED BY <2>1, <2>2, FS_Subset
  <1>17. ASSUME NEW b, b.alive \in BOOLEAN, NEW i, NEW f, f \in {h, g}, CaseSound(f, b, acts, entries, blocked, i, sizes),
                NEW v, Sequence(v), \A x \in Range(v) : ~(x.kind = "enter" /\ x.case = i)
         PROVE  CaseSound(f \o v, b, acts, entries, blocked, i, sizes)
    <2>1. CASE ~b.alive
      BY <1>17, <2>1 DEF CaseSound
    <2>2. CASE b.alive
      <3>1. Sequence(f) /\ Sequence(f \o v) /\ Range(f \o v) = Range(f) \cup Range(v)
        BY <1>6, <1>9, <1>17, Concat
      <3>2. ASSUME NEW N PROVE EntersAt(f \o v, b, i, N) = EntersAt(f, b, i, N)
        <4>1. EntersAt(v, b, i, N) = 0
          BY <1>17, EntersFew
        <4>2. EntersAt(f \o v, b, i, N) = EntersAt(f, b, i, N) + EntersAt(v, b, i, N) /\ EntersAt(f, b, i, N) \in Nat
          BY ONLY <1>17, <3>1, EntersConcat
        <4>. QED BY <4>1, <4>2
      <3> DEFINE y == f \o v
      <3>3. Unconcerned(f, acts, entries, blocked, y, acts, entries, blocked, i, b)
        BY <1>16, <1>17, <3>1, <3>2 DEF Unconcerned
      <3> HIDE DEF y
      <3>4. CaseSound(y, b, acts, entries, blocked, i, sizes)
        BY <1>17, <3>3, StillCase
      <3>. QED BY <3>4 DEF y
    <2>. QED BY <1>17, <2>1, <2>2
  <1>18. ASSUME NEW i \in DOMAIN S PROVE CaseSound(z, S[i], acts, entries, blocked, i, sizes)
    <2>1. CASE i = c
      <3>1. CaseSound(g, k, acts, entries, blocked, c, sizes)
        BY <1>4, <1>5, <1>6, <1>15, <1>16, NewcomerSound DEF g, k, m
      <3>2. CaseSound(g \o rest, k, acts, entries, blocked, c, sizes)
        <4>1. k.alive \in BOOLEAN
          BY <3>1 DEF CaseSound
        <4>. QED BY <1>2, <1>17, <3>1, <4>1
      <3>. QED BY <1>11, <1>12, <2>1, <3>2
    <2>2. CASE i # c
      <3>1. i \in DOMAIN cases /\ S[i] = cases[i]
        BY <1>6, <1>12, <2>2
      <3>2. CaseSound(h, cases[i], acts, entries, blocked, i, sizes)
        BY <1>3, <3>1 DEF SoundAt
      <3>3. cases[i].alive \in BOOLEAN /\ \A x \in Range(ev) : ~(x.kind = "enter" /\ x.case = i)
        BY <1>2, <1>4, <1>8, <2>2, <3>2 DEF CaseSound
      <3>. QED BY <1>8, <1>17, <3>1, <3>2, <3>3 DEF z
    <2>. QED BY <2>1, <2>2
  <1>19. SoundAt(z, S, acts, loops, entries, nextAct, nextId, blocked, sizes)
    <2>1. \A x, i : <<x, i>> \in blocked => i \in 1 .. Len(S)
      <3>. QED BY <1>3, <1>6, <1>12 DEF SoundAt, c
    <2>. QED BY <1>3, <1>13, <1>14, <1>18, <2>1 DEF SoundAt
  <1>20. PICK y : y = heap'
    OBVIOUS
  <1>21. Shuffles(z, y) /\ Early(y, acts)
    <2>a. InTime(acts, h, ev)
      <3>1. Alike(acts, acts, DOMAIN acts)
        BY DEF Alike
      <3>2. \A f \in Range(ev) : f.kind \notin {"boundary", "multiBoundary", "deadline"}
        BY <1>2, <1>4, <1>8
      <3>. QED BY <1>3, <1>8, <3>1, <3>2, QuietInTime
    <2>1. y \in PushedAll(h, ev) /\ Once(h \o ev) /\ Timed(Range(h) \cup Range(ev))
      BY <1>2, <1>20 DEF ev, m
    <2>2. /\ Sequence(y) /\ Range(y) = Range(h) \cup Range(ev) /\ \A N : NumberOf(y, N) = NumberOf(h, N) + NumberOf(ev, N)
          /\ \A A : InTime(A, h, ev) => Early(y, A)
      BY ONLY <1>6, <1>8, <2>1, PushedAllOf
    <2>3. \A N : NumberOf(z, N) = NumberOf(h, N) + NumberOf(ev, N)
      BY ONLY <1>6, <1>8, NumberConcat DEF z
    <2>. QED BY <1>10, <2>2, <2>3, <2>a DEF Shuffles
  <1>22. SoundAt(y, S, acts, loops, entries, nextAct, nextId, blocked, sizes)
    BY ONLY <1>19, <1>21, ShuffledSound
  <1>. QED BY <1>1, <1>20, <1>21, <1>22, NextSound

-----------------------------------------------------------------------------
(* The accounts *)

\* The tokens of a case at the nodes of N, with those that are lost or stuck
LEMMA TotalIsTokensAt ==
    ASSUME IInv, NEW c \in DOMAIN cases, cases[c].alive, CaseIs(cases[c], sizes), NEW X,
           Stock(heap, cases[c], acts, entries, X), NEW N
    PROVE  /\ Total(heap, cases[c], acts, entries, c, X, N) = TokensAt(c, N) + AtKeys(X, N)
           /\ TokensAt(c, N) \in Nat /\ AtKeys(X, N) \in Nat
  <1> DEFINE k == cases[c]
  <1>1. {j \in EventsOf(c, "enter") : heap[j].node \in N /\ Live(heap[j])} = {j \in DOMAIN heap : heap[j] \in Tokens(heap, k, c, N)}
    <2>1. ASSUME NEW j \in DOMAIN heap, heap[j].kind = "enter", heap[j].case = c
          PROVE  Live(heap[j]) <=> Fresh(k, heap[j])
      <3>1. CASE Inside[heap[j].node] # <<>>
        BY <2>1, <3>1 DEF Live, Fresh
      <3>2. CASE Inside[heap[j].node] = <<>>
        BY <2>1, <3>2 DEF Live, Fresh
      <3>. QED BY <3>1, <3>2
    <2>2. \A j \in DOMAIN heap : heap[j] \in Range(heap)
      BY DEF Range
    <2>. QED BY <2>1, <2>2 DEF EventsOf, Tokens
  <1>2. {i \in ActsOf(c) : acts[i].node \in N /\ acts[i].entry = 0} = {i \in Owners(acts) : acts[i].case = c /\ acts[i].node \in N}
    BY DEF ActsOf, Owners
  <1>3. {e \in DOMAIN entries : entries[e].case = c /\ entries[e].node \in N}
        = {e \in DOMAIN entries : entries[e].case = c /\ entries[e].node \in N}
    OBVIOUS
  <1>4. {n \in DOMAIN k.ands : n \in N} = N \cap DOMAIN k.ands
    OBVIOUS
  <1>5. {key \in DOMAIN k.ors : key[1] \in N} = (N \X Nat) \cap DOMAIN k.ors
    <2>1. \A key \in DOMAIN k.ors : key \in Nodes \X (1 .. Len(sizes))
      BY DEF CaseIs
    <2>2. \A key \in Nodes \X (1 .. Len(sizes)) : key[1] \in N <=> key \in N \X Nat
      OBVIOUS
    <2>. QED BY <2>1, <2>2
  <1> HIDE DEF k
  <1>6. TokensAt(c, N) = EntersAt(heap, k, c, N) + Placed(acts, Owners(acts), c, N) + Placed(entries, DOMAIN entries, c, N)
                         + AtKeys(k.ands, N) + AtKeys(k.ors, N \X Nat)
    BY <1>1, <1>2, <1>4, <1>5 DEF TokensAt, k, EntersAt, NumberOf, Placed, AtKeys
  <1>7. Total(heap, k, acts, entries, c, X, N) = TokensAt(c, N) + AtKeys(X, N)
    BY <1>6 DEF Total
  <1>8. TokensAt(c, N) \in Nat /\ AtKeys(X, N) \in Nat
    <2>1. Stock(heap, k, acts, entries, X)
      BY DEF k
    <2>. QED BY <1>6, <2>1, TotalIs
  <1>. QED BY <1>7, <1>8 DEF k

\* What is lost or stuck makes the difference
LEMMA LostAgrees ==
    ASSUME NEW X, Heaped(X), NEW c, Lost(X, blocked, c), NEW N, N \subseteq Nodes
    PROVE  /\ StuckAt(c, N) = {} /\ DeadEnds \cap N = {} => AtKeys(X, N) = 0
           /\ AtKeys(X, N) >= Cardinality(StuckAt(c, N)) /\ AtKeys(X, N) \in Nat /\ Cardinality(StuckAt(c, N)) \in Nat
  <1> DEFINE K == Kept(X, N \cap DOMAIN X)
             S == StuckAt(c, N)
             f == [n \in S |-> <<n, 1>>]
  <1>1. IsFiniteSet(K) /\ AtKeys(X, N) \in Nat /\ (AtKeys(X, N) = 0 <=> N \cap DOMAIN X = {}) /\ \A n \in N \cap DOMAIN X : <<n, 1>> \in K
    BY KeptIs
  <1>2. S = {} /\ DeadEnds \cap N = {} => N \cap DOMAIN X = {}
    BY DEF Lost, StuckAt
  <1>3. S \subseteq N \cap DOMAIN X
    BY DEF Lost, StuckAt
  <1>4. Cardinality(K) = AtKeys(X, N)
    BY DEF AtKeys
  <1> HIDE DEF K, S
  <1>5. f \in Injection(S, K)
    <2>1. f \in [S -> K]
      BY <1>1, <1>3
    <2>2. \A m, n \in S : f[m] = f[n] => m = n
      OBVIOUS
    <2>. QED BY <2>1, <2>2 DEF Injection, IsInjective
  <1> HIDE DEF f
  <1>6. IsFiniteSet(S) /\ Cardinality(S) <= Cardinality(K)
    BY ONLY <1>1, <1>5, FS_Injection
  <1>7. Cardinality(S) \in Nat
    BY <1>6, FS_CardinalityType
  <1>. QED BY <1>1, <1>2, <1>4, <1>6, <1>7 DEF S

\* The counts of a case are right
LEMMA SoundCounts == IInv /\ Sound => CountsAgree
  <1> SUFFICES ASSUME IInv, Sound, NEW c \in DOMAIN cases, cases[c].alive
               PROVE  /\ Agrees(cases[c].tokens, c, Nodes)
                      /\ \A u \in Subs :
                            LET sub == cases[c].subs[u]
                            IN /\ Agrees(sub.tokens, c, {n \in Nodes : u \in Range(Inside[n])})
                               /\ sub.instance # 0 => sub.tokens > 0
                               /\ sub.tokens > 0 /\ u \notin Births => sub.instance # 0
    BY DEF CountsAgree
  <1> DEFINE k == cases[c]
  <1>1. CaseIs(k, sizes) /\ Counted(heap, k, acts, entries, blocked, c)
    BY DEF Sound, SoundAt, CaseSound
  <1>2. PICK X : Balance(heap, k, acts, entries, blocked, c, X, 0, [u \in Subs |-> 0])
    BY <1>1 DEF Counted
  <1>3. Heaped(X) /\ Lost(X, blocked, c) /\ Stock(heap, k, acts, entries, X)
    BY <1>2 DEF Balance, Stock
  <1>4. ASSUME NEW N, N \subseteq Nodes PROVE Agrees(Total(heap, k, acts, entries, c, X, N), c, N)
    <2>1. Total(heap, k, acts, entries, c, X, N) = TokensAt(c, N) + AtKeys(X, N) /\ TokensAt(c, N) \in Nat
      BY <1>1, <1>3, TotalIsTokensAt
    <2>2. /\ StuckAt(c, N) = {} /\ DeadEnds \cap N = {} => AtKeys(X, N) = 0
          /\ AtKeys(X, N) >= Cardinality(StuckAt(c, N)) /\ AtKeys(X, N) \in Nat /\ Cardinality(StuckAt(c, N)) \in Nat
      BY <1>3, <1>4, LostAgrees
    <2>. QED BY <2>1, <2>2 DEF Agrees
  <1>5. k.tokens = Total(heap, k, acts, entries, c, X, Nodes)
    <2>1. Total(heap, k, acts, entries, c, X, Nodes) \in Nat
      BY <1>3, TotalIs
    <2>. QED BY <1>2, <2>1 DEF Balance
  <1>6. ASSUME NEW u \in Subs
        PROVE  /\ k.subs[u].tokens = Total(heap, k, acts, entries, c, X, NodesIn(u))
               /\ NodesIn(u) = {n \in Nodes : u \in Range(Inside[n])} /\ NodesIn(u) \subseteq Nodes
               /\ OpensAt(k.subs[u], u)
    <2>1. Total(heap, k, acts, entries, c, X, NodesIn(u)) \in Nat
      BY <1>3, TotalIs
    <2>2. OpensAt(k.subs[u], u)
      BY <1>1 DEF Counted, Opens
    <2>3. k.subs[u].tokens = Total(heap, k, acts, entries, c, X, NodesIn(u)) + [v \in Subs |-> 0][u]
      BY <1>2 DEF Balance
    <2>. QED BY <2>1, <2>2, <2>3 DEF NodesIn, Round
  <1>7. Agrees(k.tokens, c, Nodes)
    BY <1>4, <1>5
  <1>8. ASSUME NEW u \in Subs
        PROVE  /\ Agrees(k.subs[u].tokens, c, {n \in Nodes : u \in Range(Inside[n])})
               /\ k.subs[u].instance # 0 => k.subs[u].tokens > 0
               /\ k.subs[u].tokens > 0 /\ u \notin Births => k.subs[u].instance # 0
    <2>1. Agrees(k.subs[u].tokens, c, NodesIn(u))
      BY <1>4, <1>6
    <2>. QED BY <1>6, <2>1 DEF OpensAt
  <1>. QED BY <1>7, <1>8

\* Loops and entries are right
LEMMA SoundEntries == IInv /\ Sound => EntriesAgree
  <1> SUFFICES ASSUME IInv, Sound PROVE EntriesAgree
    OBVIOUS
  <1>1. Looped(acts, loops, Range(heap), nextAct) /\ Populated(acts, entries, {}) /\ Entered(acts, entries, nextId, {})
    BY DEF Sound, SoundAt, Ties, IInv, Ordered
  <1>2. ASSUME NEW i \in DOMAIN acts
        PROVE  /\ acts[i].loop # 0 => acts[i].loop \in DOMAIN loops /\ loops[acts[i].loop].current = i
               /\ acts[i].entry # 0 => acts[i].entry \in DOMAIN entries
    BY <1>1 DEF Looped, Entered
  <1>3. ASSUME NEW j \in DOMAIN heap, heap[j].kind = "enter", heap[j].loop # 0 PROVE heap[j].loop \in DOMAIN loops
    <2>1. heap[j] \in Range(heap)
      BY DEF Range
    <2>. QED BY <1>1, <1>3, <2>1 DEF Looped, Returning
  <1>4. ASSUME NEW e \in DOMAIN entries
        PROVE  LET open == {i \in DOMAIN acts : acts[i].entry = e}
               IN /\ open # {} /\ entries[e].enabled <= entries[e].total
                  /\ entries[e].node \in model.sequential => Cardinality(open) = 1
    <2> DEFINE open == {i \in DOMAIN acts : acts[i].entry = e}
    <2>1. Peopled(acts, entries, e)
      BY <1>1 DEF Populated
    <2>2. open # {} /\ entries[e].enabled <= entries[e].total
      BY <2>1 DEF Peopled
    <2>3. ASSUME entries[e].node \in model.sequential PROVE Cardinality(open) = 1
      <3>1. \A i, j \in open : i = j
        BY <2>1, <2>3 DEF Peopled
      <3> HIDE DEF open
      <3>2. PICK i \in open : open = {i}
        BY <2>2, <3>1
      <3>. QED BY <3>2, FS_Singleton
    <2>. QED BY <2>2, <2>3
  <1>. QED BY <1>2, <1>3, <1>4 DEF EntriesAgree

\* A case that has ended is over
OverFor(c, k, h, A) ==
    k.endId # NoNode =>
        /\ \A i \in DOMAIN A : A[i].case # c
        /\ k.ands = << >> /\ k.ors = << >>
        /\ k.alive => \A e \in Range(h) : e.kind = "enter" /\ e.case = c => ~Fresh(k, e)
AllOver == \A c \in DOMAIN cases : OverFor(c, cases[c], heap, acts)

\* Such a case is what EndedCasesAreOver says of it
LEMMA OverAreEnded == AllOver => EndedCasesAreOver
  <1> SUFFICES ASSUME AllOver, NEW c \in DOMAIN cases, cases[c].endId # NoNode
               PROVE  /\ ActsOf(c) = {} /\ cases[c].ands = << >> /\ cases[c].ors = << >>
                      /\ cases[c].alive => \A j \in EventsOf(c, "enter") : ~Live(heap[j])
    BY DEF EndedCasesAreOver
  <1>1. OverFor(c, cases[c], heap, acts)
    BY DEF AllOver
  <1>2. ActsOf(c) = {} /\ cases[c].ands = << >> /\ cases[c].ors = << >>
    BY <1>1 DEF OverFor, ActsOf
  <1>3. ASSUME cases[c].alive, NEW j \in EventsOf(c, "enter") PROVE ~Live(heap[j])
    <2>1. j \in DOMAIN heap /\ heap[j].case = c /\ heap[j].kind = "enter" /\ heap[j] \in Range(heap)
      BY DEF EventsOf, Range
    <2>2. ~Fresh(cases[c], heap[j])
      BY <1>1, <1>3, <2>1 DEF OverFor
    <2>3. Inside[heap[j].node] # <<>> /\ EpochAt(cases[c], heap[j].node) # heap[j].epoch
      BY <2>2 DEF Fresh
    <2>. QED BY <2>1, <2>3 DEF Live
  <1>. QED BY <1>2, <1>3

\* One whose last token has gone is
LEMMA SoundOver == IInv /\ Sound => AllOver
  <1> SUFFICES ASSUME IInv, Sound, NEW c \in DOMAIN cases, cases[c].endId # NoNode PROVE OverFor(c, cases[c], heap, acts)
    BY DEF AllOver, OverFor
  <1> DEFINE k == cases[c]
  <1>1. CaseSound(heap, k, acts, entries, blocked, c, sizes)
    BY DEF Sound, SoundAt
  <1>2. CASE ~k.alive
    BY <1>1, <1>2 DEF CaseSound, OverFor
  <1>3. CASE k.alive
    <2>1. CaseIs(k, sizes) /\ Counted(heap, k, acts, entries, blocked, c) /\ k.tokens = 0
      BY <1>1, <1>3 DEF CaseSound
    <2>2. PICK X : Balance(heap, k, acts, entries, blocked, c, X, 0, [u \in Subs |-> 0])
      BY <2>1 DEF Counted
    <2>3. Stock(heap, k, acts, entries, X) /\ k.tokens = Total(heap, k, acts, entries, c, X, Nodes) + 0
      BY <2>2 DEF Balance
    <2>4. /\ Events(Range(heap), clock, nextAct, Len(cases)) /\ Acts(acts, nextAct, Len(cases))
          /\ Entered(acts, entries, nextId, {})
      BY DEF IInv, Ordered
    <2> HIDE DEF k
    <2>5. /\ EntersAt(heap, k, c, Nodes) = 0 /\ Placed(acts, Owners(acts), c, Nodes) = 0
          /\ Placed(entries, DOMAIN entries, c, Nodes) = 0 /\ AtKeys(k.ands, Nodes) = 0
          /\ AtKeys(k.ors, Nodes \X Nat) = 0
      <3>1. /\ Total(heap, k, acts, entries, c, X, Nodes) \in Nat
            /\ EntersAt(heap, k, c, Nodes) \in Nat /\ Placed(acts, Owners(acts), c, Nodes) \in Nat
            /\ Placed(entries, DOMAIN entries, c, Nodes) \in Nat /\ AtKeys(k.ands, Nodes) \in Nat
            /\ AtKeys(k.ors, Nodes \X Nat) \in Nat /\ AtKeys(X, Nodes) \in Nat
        BY <2>3, TotalIs
      <3>2. Total(heap, k, acts, entries, c, X, Nodes) = 0
        BY <2>1, <2>3, <3>1
      <3> DEFINE a == EntersAt(heap, k, c, Nodes)
                 b == Placed(acts, Owners(acts), c, Nodes)
                 d == Placed(entries, DOMAIN entries, c, Nodes)
                 f == AtKeys(k.ands, Nodes)
                 g == AtKeys(k.ors, Nodes \X Nat)
                 x == AtKeys(X, Nodes)
      <3>3. a + b + d + f + g + x = 0
        BY <3>2 DEF Total
      <3>4. a \in Nat /\ b \in Nat /\ d \in Nat /\ f \in Nat /\ g \in Nat /\ x \in Nat
        BY <3>1
      <3> HIDE DEF a, b, d, f, g, x
      <3>5. a = 0 /\ b = 0 /\ d = 0 /\ f = 0 /\ g = 0
        BY ONLY <3>3, <3>4
      <3>. QED BY <3>5 DEF a, b, d, f, g
    <2>6. Heaped(k.ands) /\ Heaped(k.ors) /\ IsFiniteSet(DOMAIN acts) /\ IsFiniteSet(DOMAIN entries) /\ Sequence(heap)
      BY <2>3 DEF Stock
    <2>7. k.ands = << >>
      <3>1. Nodes \cap DOMAIN k.ands = {} /\ DOMAIN k.ands \subseteq Nodes
        BY <2>1, <2>5, <2>6, KeptIs DEF CaseIs
      <3>2. DOMAIN k.ands = {} /\ k.ands = [n \in DOMAIN k.ands |-> k.ands[n]]
        BY <2>6, <3>1 DEF Heaped
      <3>. QED BY <3>2
    <2>8. k.ors = << >>
      <3>1. (Nodes \X Nat) \cap DOMAIN k.ors = {}
        BY <2>5, <2>6, KeptIs
      <3>2. DOMAIN k.ors \subseteq Nodes \X (1 .. Len(sizes)) /\ 1 .. Len(sizes) \subseteq Nat
        <4>1. Len(sizes) \in Nat
          BY LenProperties DEF Sound, SoundAt
        <4>. QED BY <2>1, <4>1 DEF CaseIs
      <3>3. DOMAIN k.ors = {} /\ k.ors = [n \in DOMAIN k.ors |-> k.ors[n]]
        BY <2>6, <3>1, <3>2 DEF Heaped
      <3>. QED BY <3>3
    <2>9. ASSUME NEW i \in DOMAIN acts PROVE acts[i].case # c
      <3>1. acts[i].node \in Nodes
        BY <2>4 DEF Acts, IsAct
      <3>2. CASE acts[i].entry = 0
        <4>1. IsFiniteSet(Owners(acts)) /\ i \in Owners(acts)
          BY <2>6, <3>2, FS_Subset DEF Owners
        <4>. QED BY <2>5, <3>1, <4>1, PlacedIs
      <3>3. CASE acts[i].entry # 0
        <4>1. acts[i].entry \in DOMAIN entries /\ entries[acts[i].entry].node = acts[i].node /\ entries[acts[i].entry].case = acts[i].case
          BY <2>4, <3>3 DEF Entered
        <4>. QED BY <2>5, <2>6, <3>1, <4>1, PlacedIs
      <3>. QED BY <3>2, <3>3
    <2>10. ASSUME NEW e \in Range(heap), e.kind = "enter", e.case = c PROVE ~Fresh(k, e)
      <3>1. e.node \in Nodes
        BY <2>4, <2>10 DEF Events, IsEvent
      <3> DEFINE T == Tokens(heap, k, c, Nodes)
                 J == {j \in DOMAIN heap : heap[j] \in T}
      <3>2. Cardinality(J) = 0 /\ IsFiniteSet(J)
        <4>1. IsFiniteSet(DOMAIN heap)
          BY <2>6, SequenceOf, FS_Interval DEF Sequence
        <4>2. Cardinality(J) = 0
          BY <2>5 DEF EntersAt, NumberOf
        <4>. QED BY <4>1, <4>2, FS_Subset
      <3> HIDE DEF T
      <3>3. J = {}
        BY <3>2, FS_EmptySet
      <3>4. e \notin T
        BY <3>3 DEF Range
      <3>. QED BY <2>10, <3>1, <3>4 DEF T, Tokens
    <2>. QED BY <2>7, <2>8, <2>9, <2>10 DEF OverFor, k
  <1>. QED BY <1>2, <1>3, <1>1 DEF CaseSound

-----------------------------------------------------------------------------
(* The theorems *)

\* The accounts are kept as long as a replication runs, and what has ended stays over
Booked == (outcome = "running" => Sound) /\ (outcome # "running" => AllOver)

\* Nothing has happened
LEMMA InitBooked == Init => Booked
  <1> SUFFICES ASSUME Init PROVE Booked
    OBVIOUS
  <1> DEFINE e1(i) == Event(0, "arrive", 0, Starts[i], 0)
             s == [i \in DOMAIN Starts |-> e1(i)]
  <1>1. /\ (heap = s \/ heap = <<>>) /\ cases = <<>> /\ acts = << >> /\ loops = << >> /\ entries = << >>
        /\ sizes = <<>> /\ blocked = {} /\ outcome = "running"
    BY DEF Init
  <1>2. \A e \in Range(heap) : e.kind = "arrive"
    <2>1. \A i \in DOMAIN Starts : e1(i).kind = "arrive"
      BY DEF Event
    <2> HIDE DEF e1
    <2>2. \A e \in Range(s) : e.kind = "arrive"
      BY <2>1 DEF Range
    <2> HIDE DEF s
    <2>. QED BY <1>1, <2>2, Empty
  <1>3. Sequence(heap)
    BY InitEstablishes DEF IInv, Ordered
  <1>4. DOMAIN cases = {} /\ DOMAIN acts = {} /\ DOMAIN loops = {} /\ DOMAIN entries = {}
    BY <1>1
  <1>5. Lone(heap)
    <2> SUFFICES ASSUME NEW l PROVE NumberOf(heap, Iterations(heap, l)) <= 1
      BY DEF Lone
    <2>1. Iterations(heap, l) = {}
      BY <1>2 DEF Iterations, Returning
    <2>2. {j \in DOMAIN heap : heap[j] \in Iterations(heap, l)} = {}
      BY <2>1
    <2>. QED BY <2>2, FS_EmptySet DEF NumberOf
  <1>6. Ties(acts, loops, entries, heap, nextAct, nextId, {})
    BY <1>2, <1>3, <1>4, <1>5 DEF Ties, Looped, Bordered, Populated, Kinds, Returning
  <1>7. Marked(acts, entries, Range(heap), Len(sizes))
    BY <1>2, <1>4 DEF Marked
  <1>8. sizes \in Seq(Nat \ {0})
    BY <1>1, EmptySeq
  <1>9. Sound
    <2>1. Early(heap, acts)
      BY <1>4 DEF Early, Misses
    <2>. QED BY <1>1, <1>4, <1>6, <1>7, <1>8, <2>1 DEF Sound, SoundAt
  <1>. QED BY <1>1, <1>9 DEF Booked

\* Every step keeps the books
LEMMA NextBooks == IInv /\ Booked /\ [Next]_vars => Booked'
  <1> SUFFICES ASSUME IInv, Booked, [Next]_vars PROVE Booked'
    OBVIOUS
  <1>1. ASSUME Sound, UNCHANGED <<model, heap, cases, acts, loops, entries, nextAct, nextId, blocked, sizes>> PROVE Sound'
    BY <1>1, NextSound DEF Sound
  <1>2. ASSUME AllOver, model' = model, cases' = cases,
               \/ heap' = heap /\ acts' = acts
               \/ heap' = <<>> /\ acts' = << >>
        PROVE  AllOver'
    <2> SUFFICES ASSUME NEW c \in DOMAIN cases, cases[c].endId # NoNode
                 PROVE  /\ \A i \in DOMAIN acts' : acts'[i].case # c
                        /\ cases[c].ands = << >> /\ cases[c].ors = << >>
                        /\ cases[c].alive => \A e \in Range(heap') : e.kind = "enter" /\ e.case = c => ~Fresh(cases[c], e)'
      BY <1>2 DEF AllOver, OverFor
    <2>1. /\ \A i \in DOMAIN acts : acts[i].case # c
          /\ cases[c].ands = << >> /\ cases[c].ors = << >>
          /\ cases[c].alive => \A e \in Range(heap) : e.kind = "enter" /\ e.case = c => ~Fresh(cases[c], e)
      BY <1>2 DEF AllOver, OverFor
    <2>2. \A e : Fresh(cases[c], e)' <=> Fresh(cases[c], e)
      BY <1>2 DEF Fresh, EpochAt, Inside
    <2>3. Range(<<>>) = {} /\ DOMAIN << >> = {}
      BY Empty
    <2>4. DOMAIN acts' \subseteq DOMAIN acts /\ (\A i \in DOMAIN acts' : acts'[i] = acts[i]) /\ Range(heap') \subseteq Range(heap)
      BY <1>2, <2>3
    <2>. QED BY <2>1, <2>2, <2>4
  <1>3. CASE UNCHANGED vars
    <2>1. /\ UNCHANGED <<model, heap, cases, acts, loops, entries, nextAct, nextId, blocked, sizes>> /\ outcome' = outcome
      BY <1>3 DEF vars, opened
    <2>. QED BY <1>1, <1>2, <2>1 DEF Booked
  <1>4. CASE Serving
    <2>1. outcome = "running"
      <3>1. Serving => Running \/ (\E kind : Serve(kind)) \/ Completes \/ Notices
                       \/ (\E kind : Interrupts(kind)) \/ (\E kinds : ServeNode(kinds))
        BY Zenon DEF Serving, Discard, DeadToken, Arrive, Capacity, Done, Iterate, InstanceDone, InstanceFails, Interrupt,
           InterruptMulti, InterruptAtDeadline, Notify, Pass, Choose, Open, OpenMulti, Race, Stuck, And, Or, End, Terminate,
           Exceed
      <3>. QED BY <1>4, <3>1 DEF Completes, Notices, Interrupts, ServeNode, Serve, Running
    <2>2. Sound
      BY <2>1 DEF Booked
    <2>3. CASE Exceed
      <3>1. UNCHANGED <<model, heap, cases, acts, loops, entries, nextAct, nextId, blocked, sizes>> /\ outcome' = "limit"
        BY <2>3 DEF Exceed, opened
      <3>2. AllOver
        BY <2>2, SoundOver
      <3>. QED BY <1>2, <3>1, <3>2 DEF Booked
    <2>4. CASE ~Exceed
      <3>1. Sound' /\ outcome' = "running"
        BY <1>4, <2>2, <2>4, DiscardSound, DeadTokenSound, ArriveSound, CapacitySound, DoneSound, IterateSound,
           InstanceDoneSound, InstanceFailsSound, InterruptSound, InterruptMultiSound, InterruptAtDeadlineSound,
           NotifySound, PassSound, ChooseSound, OpenSound, OpenMultiSound, RaceSound, StuckSound, AndSound, OrSound,
           EndSound, TerminateSound DEF Serving
      <3>. QED BY <3>1 DEF Booked
    <2>. QED BY <2>3, <2>4
  <1>5. CASE Drain \/ Stop \/ Abort
    <2>1. /\ outcome = "running" /\ outcome' # "running" /\ model' = model /\ cases' = cases
          /\ heap' = <<>> /\ acts' = << >>
      BY <1>5 DEF Drain, Stop, Abort, Over
    <2>2. AllOver
      BY <2>1, SoundOver DEF Booked
    <2>. QED BY <1>2, <2>1, <2>2 DEF Booked
  <1>. QED BY <1>3, <1>4, <1>5 DEF Next

\* TokensAccounted (Replication), for every model that satisfies the assumptions and for whatever
\* is drawn: the counts of tokens that decide when a case and an instance of a sub-process end
\* are the numbers of tokens there are, at joins, at activities, in multi-instance tasks and on
\* their way (with those that are stuck at an event gateway or lost at a dead end, where there are
\* any); the instances that a multi-instance task still waits for are there, and a case that has
\* ended keeps nothing.  By Booked, an invariant next to IInv: each action takes the token of its
\* event in hand (Held) and leaves none.
THEOREM TokensAreAccounted == Spec => []TokensAccounted
  <1>1. IInv /\ Booked => TokensAccounted
    <2> SUFFICES ASSUME IInv, Booked PROVE TokensAccounted
      OBVIOUS
    <2>1. CASE outcome = "running"
      BY <2>1, SoundCounts, SoundEntries, SoundOver, OverAreEnded DEF Booked, TokensAccounted
    <2>2. CASE outcome # "running"
      BY <2>2, OverAreEnded DEF Booked, TokensAccounted, CountsAgree, EntriesAgree
    <2>. QED BY <2>1, <2>2
  <1>2. Init => Booked
    BY InitBooked
  <1>3. IInv /\ Booked /\ [Next]_vars => Booked'
    BY NextBooks
  <1>4. Spec => []IInv
    BY Holds
  <1>. QED BY <1>1, <1>2, <1>3, <1>4, PTL DEF Spec

\* Who covers an activity that is open is a watch of it
LEMMA CoversWatch ==
    ASSUME Looped(acts, loops, Range(heap), nextAct), NEW i \in DOMAIN acts, NEW e, Covers(e, i)
    PROVE  Watched(e, i, acts[i]) /\ e.kind # "done"
  <1>1. CASE e.kind = "boundary" /\ Target(e.act) = i
    <2>1. CASE e.act \in DOMAIN loops
      <3>1. loops[e.act].current = i
        BY <1>1, <2>1 DEF Target
      <3>2. acts[i].loop = e.act
        BY <2>1, <3>1 DEF Looped
      <3>. QED BY <1>1, <3>2 DEF Watched
    <2>2. CASE e.act \notin DOMAIN loops
      BY <1>1, <2>2 DEF Target, Watched
    <2>. QED BY <2>1, <2>2
  <1>. QED BY <1>1 DEF Covers, Watched

\* BoundaryWinsTies (Replication), for every model that satisfies the assumptions and for
\* whatever is drawn: when an activity completes, no boundary of its own, of its loop, of its
\* entry or of a sub-process around it is due at that instant any more.  By Early, which the
\* accounts carry along: the end of an activity is never queued before a boundary that covers
\* it and is due at the same time, because the boundaries are armed first.
THEOREM BoundariesComeFirst == Spec => BoundaryWinsTies
  <1>1. IInv /\ Booked /\ [Next]_vars =>
          [\A i \in DOMAIN rows' \ DOMAIN rows :
              rows'[i] = "completed" =>
                  \A j \in DOMAIN heap : Covers(heap[j], i) => heap[j].t > clock']_vars
    <2> SUFFICES ASSUME IInv, Booked, [Next]_vars, NEW i \in DOMAIN rows' \ DOMAIN rows, rows'[i] = "completed",
                        NEW j \in DOMAIN heap, Covers(heap[j], i)
                 PROVE  heap[j].t > clock'
      OBVIOUS
    <2>1. Running /\ Due.kind = "done" /\ i = Due.act /\ i \in DOMAIN acts /\ clock' = Due.t
      BY NextCompletes DEF Completion
    <2>2. Early(heap, acts) /\ Looped(acts, loops, Range(heap), nextAct)
      BY <2>1 DEF Running, Booked, Sound, SoundAt, Ties
    <2>3. Watched(heap[j], i, acts[i]) /\ heap[j].kind # "done"
      BY <2>1, <2>2, CoversWatch
    <2>4. heap # <<>> /\ Sequence(heap) /\ Sorted(heap) /\ Timed(Range(heap))
      BY <2>1, Popped DEF Running, IInv, Ordered
    <2>5. Due = heap[1] /\ 1 \in DOMAIN heap /\ DOMAIN heap \subseteq Nat \ {0}
      <3> DEFINE h == heap
      <3>1. h \in Seq(Range(h)) /\ h # <<>>
        BY <2>4 DEF Sequence
      <3> HIDE DEF h
      <3>2. Head(h) = h[1] /\ 1 \in DOMAIN h /\ DOMAIN h \subseteq Nat \ {0}
        BY <3>1
      <3>. QED BY <3>2 DEF h, Due
    <2>6. j # 1 /\ 1 < j
      BY <2>1, <2>3, <2>5
    <2>7. Misses(acts, heap[1], heap[j])
      BY <2>1, <2>3, <2>5 DEF Misses
    <2>8. heap[1].t # heap[j].t
      BY <2>2, <2>5, <2>6, <2>7 DEF Early
    <2>9. heap[1].t <= heap[j].t
      BY <2>4, <2>5, <2>6 DEF Sorted
    <2>10. heap[1].t \in Nat /\ heap[j].t \in Nat
      BY <2>4, <2>5 DEF Timed, Range
    <2>. QED BY <2>1, <2>5, <2>8, <2>9, <2>10
  <1>2. Init => Booked
    BY InitBooked
  <1>3. IInv /\ Booked /\ [Next]_vars => Booked'
    BY NextBooks
  <1>4. Spec => []IInv
    BY Holds
  <1>. QED BY <1>1, <1>2, <1>3, <1>4, PTL DEF Spec, BoundaryWinsTies

===============================================================================
