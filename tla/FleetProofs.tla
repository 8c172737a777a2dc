----------------------------- MODULE FleetProofs -----------------------------
(***************************************************************************)
(* Proofs about Fleet: what the console shows of any number of agents and  *)
(* sessions, whatever they write.                                          *)
(*                                                                         *)
(* The runs of a session are a function of its log, so what holds of them  *)
(* holds of every log; only that a settled run stays settled is about two  *)
(* states.  The handoffs are a greedy matching, defined by recursion over  *)
(* the calls: that it exists is proved first, by taking a smallest set of  *)
(* calls that has none, and the properties follow from what it says of one *)
(* call, of the first call that breaks them if need be.                    *)
(***************************************************************************)
EXTENDS Fleet, FiniteSetTheorems, TLAPS

(***************************************************************************)
(* Firsts and lasts.                                                       *)
(***************************************************************************)
\* A finite set has a first element in any strict total order.
LEMMA LeastOf ==
  ASSUME NEW S, IsFiniteSet(S), S # {}, NEW R,
         \A x, y \in S : x # y => <<x, y>> \in R \/ <<y, x>> \in R,
         \A x, y \in S : <<x, y>> \in R => <<y, x>> \notin R,
         \A x, y, z \in S : <<x, y>> \in R /\ <<y, z>> \in R => <<x, z>> \in R
  PROVE  \E x \in S : \A y \in S \ {x} : <<x, y>> \in R
<1> DEFINE Down(x) == {y \in S : <<y, x>> \in R}
           T == {Down(x) : x \in S}
<1>1. IsWellFoundedOn(StrictSubsetOrdering(S), FiniteSubsetsOf(S))
  BY FS_StrictSubsetOrderingWellFounded
<1>2. T \subseteq FiniteSubsetsOf(S) /\ T # {}
  <2>1. FiniteSubsetsOf(S) = SUBSET S
    BY FS_FiniteSubsetsOfFinite
  <2>2. \A x \in S : Down(x) \subseteq S
    OBVIOUS
  <2> HIDE DEF Down
  <2>3. PICK x \in S : Down(x) \in T
    OBVIOUS
  <2>4. \A D \in T : D \subseteq S
    BY <2>2
  <2> HIDE DEF T
  <2> QED BY <2>1, <2>3, <2>4
<1>3. PICK D \in T : \A E \in T : <<E, D>> \notin StrictSubsetOrdering(S)
  <2> HIDE DEF T
  <2> QED BY <1>1, <1>2, WFMin
<1>4. PICK x \in S : D = Down(x)
  BY <1>3
<1>5. ASSUME NEW y \in S \ {x} PROVE <<x, y>> \in R
  <2>1. SUFFICES ASSUME <<y, x>> \in R PROVE FALSE
    BY <1>5
  <2>2. Down(y) \subseteq Down(x) /\ y \in Down(x) /\ y \notin Down(y)
    BY <2>1
  <2>3. <<Down(y), D>> \in StrictSubsetOrdering(S)
    BY <1>4, <2>2 DEF StrictSubsetOrdering
  <2> QED BY <1>3, <2>3
<1> QED BY <1>5

\* And a last one.
LEMMA GreatestOf ==
  ASSUME NEW S, IsFiniteSet(S), S # {}, NEW R,
         \A x, y \in S : x # y => <<x, y>> \in R \/ <<y, x>> \in R,
         \A x, y \in S : <<x, y>> \in R => <<y, x>> \notin R,
         \A x, y, z \in S : <<x, y>> \in R /\ <<y, z>> \in R => <<x, z>> \in R
  PROVE  \E x \in S : \A y \in S \ {x} : <<y, x>> \in R
<1> DEFINE Q == {p \in S \X S : <<p[2], p[1]>> \in R}
<1>1. \A x, y \in S : <<x, y>> \in Q <=> <<y, x>> \in R
  OBVIOUS
<1> HIDE DEF Q
<1>2. \E x \in S : \A y \in S \ {x} : <<x, y>> \in Q
  <2>1. \A x, y \in S : x # y => <<x, y>> \in Q \/ <<y, x>> \in Q
    BY <1>1
  <2>2. \A x, y \in S : <<x, y>> \in Q => <<y, x>> \notin Q
    BY <1>1
  <2>3. \A x, y, z \in S : <<x, y>> \in Q /\ <<y, z>> \in Q => <<x, z>> \in Q
    BY <1>1
  <2> QED BY <2>1, <2>2, <2>3, LeastOf
<1> QED BY <1>1, <1>2

\* So has every set of natural numbers, finite or not.
LEMMA LeastNat ==
  ASSUME NEW S \in SUBSET Nat, S # {}
  PROVE  \E t \in S : \A u \in S : t <= u
<1>1. PICK n \in S : TRUE
  OBVIOUS
<1> DEFINE T == {u \in S : u <= n}
           R == {p \in Nat \X Nat : p[1] < p[2]}
<1>2. IsFiniteSet(T) /\ T # {}
  BY FS_BoundedSetOfNaturals
<1>3. \A x, y \in Nat : <<x, y>> \in R <=> x < y
  OBVIOUS
<1>4. T \subseteq Nat /\ n \in Nat
  OBVIOUS
<1>5. \E t \in T : \A u \in T \ {t} : <<t, u>> \in R
  <2> HIDE DEF T, R
  <2>1. \A x, y \in T : x # y => <<x, y>> \in R \/ <<y, x>> \in R
    BY <1>3, <1>4
  <2>2. \A x, y \in T : <<x, y>> \in R => <<y, x>> \notin R
    BY <1>3, <1>4
  <2>3. \A x, y, z \in T : <<x, y>> \in R /\ <<y, z>> \in R => <<x, z>> \in R
    BY <1>3, <1>4
  <2> QED BY <1>2, <2>1, <2>2, <2>3, LeastOf
<1>6. PICK t \in T : \A u \in T \ {t} : t < u
  BY <1>3, <1>4, <1>5
<1> QED BY <1>4, <1>6

(***************************************************************************)
(* Logs, and the order of their events.                                    *)
(***************************************************************************)
\* The events of a session, at some places of its file.
Log == {log \in UNION {[D -> Event] : D \in SUBSET Nat} : IsFiniteSet(DOMAIN log)}

\* What a log has at its places.
LEMMA LogType ==
  ASSUME NEW log \in Log
  PROVE  /\ DOMAIN log \subseteq Nat /\ IsFiniteSet(DOMAIN log)
         /\ \A i \in DOMAIN log : log[i] \in Event /\ log[i].ts \in Times
<1>1. PICK D \in SUBSET Nat : log \in [D -> Event]
  BY DEF Log
<1>2. \A e \in Event : e.ts \in Times
  BY DEF Event
<1> QED BY <1>1, <1>2 DEF Log

\* A file, with all its events, is a log.
LEMMA SeqIsLog == \A log \in Seq(Event) : log \in Log /\ DOMAIN log = 1..Len(log)
<1> SUFFICES ASSUME NEW log \in Seq(Event) PROVE log \in Log /\ DOMAIN log = 1..Len(log)
  OBVIOUS
<1>1. Len(log) \in Nat /\ DOMAIN log = 1..Len(log) /\ log \in [1..Len(log) -> Event]
  OBVIOUS
<1>2. IsFiniteSet(1..Len(log)) /\ 1..Len(log) \in SUBSET Nat
  BY <1>1, FS_Interval
<1> QED BY <1>1, <1>2 DEF Log

\* A time is a moment, or nothing that counts as one.
LEMMA TimesAre ==
  /\ \A ts \in Times : Millis(ts) \in Nat
  /\ \A ts \in Times : ts \in Nat => ts >= 1 /\ Millis(ts) = ts
  /\ \A ts \in Times : ts \notin Nat => ts \in {None, Unreadable} /\ Millis(ts) = 0
  /\ None \notin Nat /\ Unreadable \notin Nat
<1>1. None \notin Nat /\ Unreadable \notin Nat
  BY FleetAssumption
<1>2. \A ts \in Times : (ts \in Nat /\ ts >= 1) \/ ts \in {None, Unreadable}
  BY FleetAssumption DEF Times
<1> QED BY <1>1, <1>2 DEF Millis

\* The order that events are sorted in is a strict total order.
LEMMA BeforeOrders ==
  ASSUME NEW log \in Log, NEW i \in DOMAIN log, NEW j \in DOMAIN log
  PROVE  /\ i # j => Before(log, i, j) \/ Before(log, j, i)
         /\ Before(log, i, j) => ~Before(log, j, i)
         /\ \A k \in DOMAIN log : Before(log, i, j) /\ Before(log, j, k) => Before(log, i, k)
<1>1. \A k \in DOMAIN log : k \in Nat /\ Millis(log[k].ts) \in Nat
  BY LogType, TimesAre
<1> DEFINE at(k) == Millis(log[k].ts)
<1>2. i \in Nat /\ j \in Nat /\ at(i) \in Nat /\ at(j) \in Nat
  BY <1>1
<1>3. i # j => Before(log, i, j) \/ Before(log, j, i)
  BY <1>2 DEF Before
<1>4. Before(log, i, j) => ~Before(log, j, i)
  BY <1>2 DEF Before
<1>5. ASSUME NEW k \in DOMAIN log, Before(log, i, j), Before(log, j, k) PROVE Before(log, i, k)
  BY <1>1, <1>2, <1>5 DEF Before
<1> QED BY <1>3, <1>4, <1>5

\* The first and the last of some events are there, and no event is before or after them.
LEMMA Ends ==
  ASSUME NEW log \in Log, NEW I \in SUBSET DOMAIN log, I # {}
  PROVE  /\ EarliestOf(log, I) \in I /\ LatestOf(log, I) \in I
         /\ \A j \in I : /\ Millis(log[EarliestOf(log, I)].ts) <= Millis(log[j].ts)
                         /\ Millis(log[j].ts) <= Millis(log[LatestOf(log, I)].ts)
<1> DEFINE R == {p \in I \X I : Before(log, p[1], p[2])}
<1>1. \A i, j \in I : <<i, j>> \in R <=> Before(log, i, j)
  OBVIOUS
<1>2. IsFiniteSet(I)
  BY LogType, FS_Subset
<1>3. \A i, j \in I : i # j => Before(log, i, j) \/ Before(log, j, i)
  BY BeforeOrders
<1>4. \A i, j \in I : Before(log, i, j) => ~Before(log, j, i)
  BY BeforeOrders
<1>5. \A i, j, k \in I : Before(log, i, j) /\ Before(log, j, k) => Before(log, i, k)
  BY BeforeOrders
<1> HIDE DEF R
<1>6. \A i, j \in I : i # j => <<i, j>> \in R \/ <<j, i>> \in R
  BY <1>1, <1>3
<1>7. \A i, j \in I : <<i, j>> \in R => <<j, i>> \notin R
  BY <1>1, <1>4
<1>8. \A i, j, k \in I : <<i, j>> \in R /\ <<j, k>> \in R => <<i, k>> \in R
  BY <1>1, <1>5
<1>9. \E i \in I : \A j \in I \ {i} : Before(log, i, j)
  BY <1>1, <1>2, <1>6, <1>7, <1>8, LeastOf
<1>10. \E i \in I : \A j \in I \ {i} : Before(log, j, i)
  BY <1>1, <1>2, <1>6, <1>7, <1>8, GreatestOf
<1>11. /\ EarliestOf(log, I) \in I
       /\ \A j \in I \ {EarliestOf(log, I)} : Before(log, EarliestOf(log, I), j)
  BY <1>9 DEF EarliestOf
<1>12. /\ LatestOf(log, I) \in I
       /\ \A j \in I \ {LatestOf(log, I)} : Before(log, j, LatestOf(log, I))
  BY <1>10 DEF LatestOf
<1>13. \A i \in I : Millis(log[i].ts) \in Nat
  BY LogType, TimesAre
<1>14. \A i, j \in I : Before(log, i, j) => Millis(log[i].ts) <= Millis(log[j].ts)
  BY <1>13 DEF Before
<1>15. \A i \in I : Millis(log[i].ts) <= Millis(log[i].ts)
  BY <1>13
<1> QED BY <1>11, <1>12, <1>14, <1>15

(***************************************************************************)
(* Positions, in the order of a scan and by time.                          *)
(***************************************************************************)
Logs   == [Sessions -> Log]
Orders == {order \in [Sessions -> Int] : IsInjective(order)}

\* What there is at a position.
LEMMA PositionType ==
  ASSUME NEW L \in Logs, NEW p \in Positions(L)
  PROVE  /\ p[1] \in Sessions /\ p[2] \in DOMAIN L[p[1]] /\ p[2] \in Nat /\ p = <<p[1], p[2]>>
         /\ At(L, p) \in Event /\ At(L, p).ts \in Times /\ Millis(At(L, p).ts) \in Nat
<1>1. p[1] \in Sessions /\ p[2] \in DOMAIN L[p[1]] /\ p = <<p[1], p[2]>>
  BY DEF Positions
<1>2. L[p[1]] \in Log
  BY <1>1 DEF Logs
<1> QED BY <1>1, <1>2, LogType, TimesAre DEF At

\* A place in the file of a session is a position.
LEMMA PositionsAre ==
  ASSUME NEW L \in Logs, NEW s \in Sessions, NEW i \in DOMAIN L[s]
  PROVE  <<s, i>> \in Positions(L) /\ At(L, <<s, i>>) = L[s][i]
BY DEF Positions, At

\* There are finitely many of them, as there are finitely many sessions.
LEMMA PositionsFinite == \A L \in Logs : IsFiniteSet(Positions(L))
<1> SUFFICES ASSUME NEW L \in Logs PROVE IsFiniteSet(Positions(L))
  OBVIOUS
<1> DEFINE T == {{s} \X DOMAIN L[s] : s \in Sessions}
           f == [s \in Sessions |-> {s} \X DOMAIN L[s]]
<1>1. \A s \in Sessions : IsFiniteSet({s} \X DOMAIN L[s])
  <2> SUFFICES ASSUME NEW s \in Sessions PROVE IsFiniteSet({s} \X DOMAIN L[s])
    OBVIOUS
  <2>1. IsFiniteSet({s}) /\ IsFiniteSet(DOMAIN L[s])
    BY FS_Singleton, LogType DEF Logs
  <2> QED BY <2>1, FS_Product
<1>2. f \in Surjection(Sessions, T)
  BY DEF Surjection
<1>3. IsFiniteSet(T)
  <2> HIDE DEF T, f
  <2> QED BY <1>2, FleetAssumption, FS_Surjection
<1>4. \A S \in T : IsFiniteSet(S)
  BY <1>1
<1>5. IsFiniteSet(UNION T)
  <2> HIDE DEF T
  <2> QED BY <1>3, <1>4, FS_UNION
<1> QED BY <1>5 DEF Positions

\* A scan comes by every position once, in a strict total order.
LEMMA FoundOrders ==
  ASSUME NEW L \in Logs, NEW order \in Orders, NEW p \in Positions(L), NEW q \in Positions(L)
  PROVE  /\ p # q => Found(order, p, q) \/ Found(order, q, p)
         /\ Found(order, p, q) => ~Found(order, q, p)
         /\ \A r \in Positions(L) :
              Found(order, p, q) /\ Found(order, q, r) => Found(order, p, r)
<1>1. \A r \in Positions(L) : order[r[1]] \in Int /\ r[2] \in Nat
  BY PositionType DEF Orders
<1>2. \A s, t \in Sessions : order[s] = order[t] => s = t
  BY DEF Orders, IsInjective
<1>3. p[1] \in Sessions /\ q[1] \in Sessions /\ p = <<p[1], p[2]>> /\ q = <<q[1], q[2]>>
  BY PositionType
<1>4. p # q => Found(order, p, q) \/ Found(order, q, p)
  BY <1>1, <1>2, <1>3 DEF Found
<1>5. Found(order, p, q) => ~Found(order, q, p)
  BY <1>1, <1>2, <1>3 DEF Found
<1>6. ASSUME NEW r \in Positions(L), Found(order, p, q), Found(order, q, r)
      PROVE  Found(order, p, r)
  BY <1>1, <1>6 DEF Found
<1> QED BY <1>4, <1>5, <1>6

\* So does one that sorts them by time.
LEMMA SoonerOrders ==
  ASSUME NEW L \in Logs, NEW order \in Orders, NEW p \in Positions(L), NEW q \in Positions(L)
  PROVE  /\ p # q => Sooner(L, order, p, q) \/ Sooner(L, order, q, p)
         /\ Sooner(L, order, p, q) => ~Sooner(L, order, q, p) /\ p # q
         /\ Sooner(L, order, p, q) => Millis(At(L, p).ts) <= Millis(At(L, q).ts)
         /\ \A r \in Positions(L) :
              Sooner(L, order, p, q) /\ Sooner(L, order, q, r) => Sooner(L, order, p, r)
<1> DEFINE ms(r) == Millis(At(L, r).ts)
<1>1. \A r \in Positions(L) : ms(r) \in Nat
  BY PositionType
<1>2. \A r, v \in Positions(L) :
        Sooner(L, order, r, v) <=> ms(r) < ms(v) \/ (ms(r) = ms(v) /\ Found(order, r, v))
  BY DEF Sooner
<1> HIDE DEF ms
<1>3. p # q => Sooner(L, order, p, q) \/ Sooner(L, order, q, p)
  BY <1>1, <1>2, FoundOrders
<1>4. Sooner(L, order, p, q) => ~Sooner(L, order, q, p) /\ p # q
  <2>1. ~Found(order, p, p) /\ (Found(order, p, q) => ~Found(order, q, p))
    BY FoundOrders
  <2> QED BY <1>1, <1>2, <2>1
<1>5. Sooner(L, order, p, q) => ms(p) <= ms(q)
  BY <1>1, <1>2
<1>6. ASSUME NEW r \in Positions(L), Sooner(L, order, p, q), Sooner(L, order, q, r)
      PROVE  Sooner(L, order, p, r)
  <2>1. Found(order, p, q) /\ Found(order, q, r) => Found(order, p, r)
    BY FoundOrders
  <2> QED BY <1>1, <1>2, <1>6, <2>1
<1> QED BY <1>3, <1>4, <1>5, <1>6 DEF ms

\* Among some positions one comes first, and one comes last.
LEMMA FirstIs ==
  ASSUME NEW L \in Logs, NEW order \in Orders, NEW P \in SUBSET Positions(L), P # {}
  PROVE  /\ First(L, order, P) \in P
         /\ \A q \in P \ {First(L, order, P)} : Sooner(L, order, First(L, order, P), q)
         /\ \E p \in P : \A q \in P \ {p} : Sooner(L, order, q, p)
<1> DEFINE R == {r \in P \X P : Sooner(L, order, r[1], r[2])}
<1>1. \A p, q \in P : <<p, q>> \in R <=> Sooner(L, order, p, q)
  OBVIOUS
<1>2. IsFiniteSet(P)
  BY PositionsFinite, FS_Subset
<1> HIDE DEF R
<1>3. \A p, q \in P : p # q => <<p, q>> \in R \/ <<q, p>> \in R
  BY <1>1, SoonerOrders
<1>4. \A p, q \in P : <<p, q>> \in R => <<q, p>> \notin R
  BY <1>1, SoonerOrders
<1>5. \A p, q, r \in P : <<p, q>> \in R /\ <<q, r>> \in R => <<p, r>> \in R
  BY <1>1, SoonerOrders
<1>6. \E p \in P : \A q \in P \ {p} : Sooner(L, order, p, q)
  <2>1. \E p \in P : \A q \in P \ {p} : <<p, q>> \in R
    BY <1>2, <1>3, <1>4, <1>5, LeastOf
  <2> QED BY <1>1, <2>1
<1>7. \E p \in P : \A q \in P \ {p} : Sooner(L, order, q, p)
  <2>1. \E p \in P : \A q \in P \ {p} : <<q, p>> \in R
    BY <1>2, <1>3, <1>4, <1>5, GreatestOf
  <2> QED BY <1>1, <2>1
<1> QED BY <1>6, <1>7 DEF First

\* No other position comes before all of them.
LEMMA FirstIsOne ==
  ASSUME NEW L \in Logs, NEW order \in Orders, NEW P \in SUBSET Positions(L),
         NEW p \in P, \A q \in P \ {p} : Sooner(L, order, p, q)
  PROVE  First(L, order, P) = p
BY FirstIs, SoonerOrders

(***************************************************************************)
(* Orders, and what is retained.                                           *)
(***************************************************************************)
\* The sessions can be put in an order, and turned around it is one again.
LEMMA ScansAreOrders == AnyOrder \in Orders /\ OtherOrder \in Orders
<1> DEFINE n == Cardinality(Sessions)
<1>1. n \in Nat /\ \E f : f \in Bijection(1..n, Sessions)
  BY FleetAssumption, FS_CardinalityType DEF ExistsBijection
<1>2. PICK f : f \in Bijection(1..n, Sessions)
  BY <1>1
<1> DEFINE g == [s \in Sessions |-> CHOOSE k \in 1..n : f[k] = s]
<1> HIDE DEF n
<1>3. \A s \in Sessions : \E k \in 1..n : f[k] = s
  BY <1>2 DEF Bijection, Surjection
<1>4. \A s \in Sessions : g[s] \in 1..n /\ f[g[s]] = s
  BY <1>3
<1>5. g \in [Sessions -> 1..n]
  BY <1>4
<1> HIDE DEF g
<1>6. IsInjective(g)
  BY <1>4, <1>5 DEF IsInjective
<1>7. AnyOrder \in [Sessions -> 1..n] /\ IsInjective(AnyOrder)
  BY <1>5, <1>6 DEF AnyOrder, n
<1>8. OtherOrder = [s \in Sessions |-> n + 1 - AnyOrder[s]]
  BY DEF OtherOrder, n
<1>9. \A s \in Sessions : AnyOrder[s] \in 1..n /\ OtherOrder[s] = n + 1 - AnyOrder[s]
  BY <1>7, <1>8
<1> HIDE DEF n
<1>10. \A s, t \in Sessions : AnyOrder[s] = AnyOrder[t] => s = t
  BY <1>7 DEF IsInjective
<1>11. \A s \in Sessions : AnyOrder[s] \in Int /\ OtherOrder[s] \in Int
  BY <1>1, <1>9
<1>12. \A s, t \in Sessions : OtherOrder[s] = OtherOrder[t] => s = t
  BY <1>1, <1>9, <1>10
<1>13. AnyOrder \in [Sessions -> Int]
  BY <1>7, <1>11
<1>14. OtherOrder \in [Sessions -> Int] /\ DOMAIN OtherOrder = Sessions
  BY <1>8, <1>11
<1>15. IsInjective(OtherOrder)
  BY <1>12, <1>14 DEF IsInjective
<1> QED BY <1>7, <1>13, <1>14, <1>15 DEF Orders

\* The events that a scan keeps are the same events, in the same places.
LEMMA RetainedAre ==
  ASSUME NEW L \in [Sessions -> Seq(Event)]
  PROVE  /\ L \in Logs /\ Retained(L) \in Logs
         /\ \A s \in Sessions :
              /\ Retained(L)[s] = RetainForAnalysis(L[s])
              /\ \A i : i \in DOMAIN Retained(L)[s] <=>
                   /\ i \in DOMAIN L[s]
                   /\ L[s][i].type \in {"session.started", "prompt.submitted", "tool.call"}
              /\ \A i \in DOMAIN Retained(L)[s] : Retained(L)[s][i] = L[s][i]
<1>1. L \in Logs
  BY SeqIsLog DEF Logs
<1>2. ASSUME NEW s \in Sessions
      PROVE  /\ Retained(L)[s] = RetainForAnalysis(L[s])
             /\ \A i : i \in DOMAIN Retained(L)[s] <=>
                  /\ i \in DOMAIN L[s]
                  /\ L[s][i].type \in {"session.started", "prompt.submitted", "tool.call"}
             /\ \A i \in DOMAIN Retained(L)[s] : Retained(L)[s][i] = L[s][i]
  BY DEF Retained, RetainForAnalysis, Restrict
<1>3. ASSUME NEW s \in Sessions PROVE Retained(L)[s] \in Log
  <2> DEFINE K == DOMAIN Retained(L)[s]
  <2>1. L[s] \in Log
    BY SeqIsLog
  <2>2. K \subseteq DOMAIN L[s]
    BY <1>2
  <2>3. IsFiniteSet(K) /\ K \in SUBSET Nat
    BY <2>1, <2>2, LogType, FS_Subset
  <2>4. \A i \in K : Retained(L)[s][i] \in Event
    BY <1>2, <2>1, <2>2, LogType
  <2>5. Retained(L)[s] = [i \in K |-> Retained(L)[s][i]]
    BY DEF Retained, RetainForAnalysis, Restrict
  <2>6. Retained(L)[s] \in [K -> Event]
    <3> HIDE DEF K
    <3> QED BY <2>4, <2>5
  <2> QED BY <2>3, <2>6 DEF Log
<1>4. Retained(L) \in Logs
  <2>1. Retained(L) = [s \in Sessions |-> Retained(L)[s]]
    BY DEF Retained
  <2> QED BY <1>3, <2>1 DEF Logs
<1> QED BY <1>1, <1>2, <1>4

\* They hold every start, every call and every prompt.
LEMMA RetainedPositions ==
  ASSUME NEW L \in [Sessions -> Seq(Event)]
  PROVE  /\ \A p : p \in Positions(Retained(L)) <=>
              /\ p \in Positions(L)
              /\ At(L, p).type \in {"session.started", "prompt.submitted", "tool.call"}
         /\ \A p \in Positions(Retained(L)) : At(Retained(L), p) = At(L, p)
         /\ Starts(Retained(L)) = Starts(L) /\ Calls(Retained(L)) = Calls(L)
<1> DEFINE R == Retained(L)
<1>1. /\ L \in Logs /\ R \in Logs
      /\ \A s \in Sessions :
           /\ \A i : i \in DOMAIN R[s] <=>
                /\ i \in DOMAIN L[s]
                /\ L[s][i].type \in {"session.started", "prompt.submitted", "tool.call"}
           /\ \A i \in DOMAIN R[s] : R[s][i] = L[s][i]
  BY RetainedAre
<1> HIDE DEF R
<1>2. \A p \in Positions(R) : /\ p \in Positions(L) /\ At(R, p) = At(L, p)
                              /\ At(L, p).type \in {"session.started", "prompt.submitted", "tool.call"}
  <2> SUFFICES ASSUME NEW p \in Positions(R)
               PROVE  /\ p \in Positions(L) /\ At(R, p) = At(L, p)
                      /\ At(L, p).type \in {"session.started", "prompt.submitted", "tool.call"}
    OBVIOUS
  <2>1. p[1] \in Sessions /\ p[2] \in DOMAIN R[p[1]] /\ p = <<p[1], p[2]>>
    BY <1>1, PositionType
  <2>2. p[2] \in DOMAIN L[p[1]] /\ R[p[1]][p[2]] = L[p[1]][p[2]]
    BY <1>1, <2>1
  <2>3. p \in Positions(L) /\ At(L, p) = L[p[1]][p[2]]
    BY <1>1, <2>1, <2>2, PositionsAre
  <2> QED BY <1>1, <2>1, <2>2, <2>3 DEF At
<1>3. ASSUME NEW p \in Positions(L),
             At(L, p).type \in {"session.started", "prompt.submitted", "tool.call"}
      PROVE  p \in Positions(R)
  <2>1. p[1] \in Sessions /\ p[2] \in DOMAIN L[p[1]] /\ p = <<p[1], p[2]>>
    BY <1>1, PositionType
  <2>2. p[2] \in DOMAIN R[p[1]]
    BY <1>1, <1>3, <2>1 DEF At
  <2> QED BY <1>1, <2>1, <2>2, PositionsAre
<1>4. Starts(R) = Starts(L)
  BY <1>2, <1>3 DEF Starts
<1>5. Calls(R) = Calls(L)
  BY <1>2, <1>3 DEF Calls
<1> QED BY <1>2, <1>3, <1>4, <1>5 DEF R

(***************************************************************************)
(* What holds of the files at every moment.                                *)
(***************************************************************************)
TypeOK ==
  /\ logs \in [Sessions -> Seq(Event)]
  /\ clock \in Nat \ {0}
  /\ shown \subseteq Sessions
  /\ scope \in Scopes

\* Nothing is stamped with a time to come.
NothingAhead ==
  \A s \in Sessions : \A i \in DOMAIN logs[s] : logs[s][i].ts \in Nat => logs[s][i].ts <= clock

\* A file begins with the start of its session, and with its time.
BeginsWithStart ==
  \A s \in Sessions : logs[s] # <<>> =>
    logs[s][1].type = "session.started" /\ logs[s][1].ts \in Nat

EdgesAreFound == edges = FindHandoffs(Retained(Seen), AnyOrder)

FleetInv == TypeOK /\ NothingAhead /\ BeginsWithStart /\ EdgesAreFound

\* An event is written at the end of one file, and those before it stay.
LEMMA WriteIs ==
  ASSUME FleetInv, NEW s \in Sessions, Write(s)
  PROVE  \E e \in Event :
           /\ logs' = [logs EXCEPT ![s] = Append(logs[s], e)]
           /\ e.ts \in Nat => e.ts <= clock
           /\ logs[s] = <<>> => e.type = "session.started" /\ e.ts = clock
           /\ edges' = FindHandoffs(Retained(Seen'), AnyOrder)
           /\ clock' = clock /\ scope' = scope /\ shown' = shown
<1>1. PICK shape \in scope.may[s], ts \in Times :
        /\ ts \in Nat => ts <= clock
        /\ ts = clock \/ (scope.late /\ logs[s] # <<>>)
        /\ logs[s] = <<>> => shape.type = "session.started"
        /\ logs' = [logs EXCEPT ![s] = Append(@, Stamp(shape, ts))]
        /\ edges' = FindHandoffs(Retained(Seen'), AnyOrder)
        /\ UNCHANGED <<clock, scope>> /\ shown' = shown
  BY DEF Write
<1> DEFINE e == Stamp(shape, ts)
<1>2. shape \in Shape
  BY FleetAssumption DEF FleetInv, TypeOK
<1>3. e \in Event /\ e.ts = ts /\ e.type = shape.type
  BY <1>2 DEF Shape, Event, Stamp
<1>4. logs' = [logs EXCEPT ![s] = Append(logs[s], e)]
  BY <1>1 DEF FleetInv, TypeOK
<1> HIDE DEF e
<1> QED BY <1>1, <1>3, <1>4

\* The files after one event more.
LEMMA Appended ==
  ASSUME NEW L \in [Sessions -> Seq(Event)], NEW s \in Sessions, NEW e \in Event,
         NEW M, M = [L EXCEPT ![s] = Append(L[s], e)]
  PROVE  /\ M \in [Sessions -> Seq(Event)]
         /\ \A t \in Sessions \ {s} : M[t] = L[t]
         /\ \A t \in Sessions : /\ DOMAIN L[t] \subseteq DOMAIN M[t]
                                /\ \A i \in DOMAIN L[t] : M[t][i] = L[t][i]
         /\ Len(L[s]) + 1 \in Nat /\ Len(L[s]) + 1 \notin DOMAIN L[s]
         /\ DOMAIN M[s] = DOMAIN L[s] \cup {Len(L[s]) + 1} /\ M[s][Len(L[s]) + 1] = e
         /\ \A i \in DOMAIN L[s] : i < Len(L[s]) + 1
<1>1. M[s] = Append(L[s], e) /\ L[s] \in Seq(Event) /\ Append(L[s], e) \in Seq(Event)
  OBVIOUS
<1>2. DOMAIN L[s] = 1..Len(L[s]) /\ Len(L[s]) \in Nat
  BY <1>1
<1>3. DOMAIN M[s] = 1..(Len(L[s]) + 1)
  BY <1>1, <1>2
<1>4. \A i \in DOMAIN L[s] : M[s][i] = L[s][i]
  BY <1>1, <1>2
<1>5. M[s][Len(L[s]) + 1] = e
  BY <1>1, <1>2
<1>6. \A t \in Sessions \ {s} : M[t] = L[t]
  OBVIOUS
<1>7. M \in [Sessions -> Seq(Event)]
  BY <1>1
<1> QED BY <1>2, <1>3, <1>4, <1>5, <1>6, <1>7

\* Where there are no events there are no handoffs.
LEMMA NoEventsNoHandoffs ==
  ASSUME NEW L, Positions(L) = {}, NEW order
  PROVE  FindHandoffs(L, order) = {}
<1>1. DeclaredHandoffs(L, order) = {}
  BY DEF DeclaredHandoffs
<1>2. Calls(L) = {}
  BY DEF Calls
<1>3. \A claimed : InferHandoffs(L, order, claimed) = {}
  BY <1>2 DEF InferHandoffs
<1> QED BY <1>1, <1>3 DEF FindHandoffs

\* With every event the files keep their beginnings, and the edges are worked out anew.
LEMMA InvariantStep == FleetInv /\ [Next]_vars => FleetInv'
<1> SUFFICES ASSUME FleetInv, [Next]_vars PROVE FleetInv'
  OBVIOUS
<1> USE DEF FleetInv
<1>1. CASE Tick
  <2>1. /\ logs' = logs /\ shown' = shown /\ edges' = edges /\ scope' = scope
        /\ clock' = clock + 1
    BY <1>1 DEF Tick
  <2>2. clock \in Nat
        /\ \A s \in Sessions : \A i \in DOMAIN logs[s] :
             logs[s][i].ts \in Nat => logs[s][i].ts <= clock
    BY DEF TypeOK, NothingAhead
  <2>3. NothingAhead'
    BY <2>1, <2>2 DEF NothingAhead
  <2>4. TypeOK' /\ BeginsWithStart'
    BY <2>1 DEF TypeOK, BeginsWithStart
  <2>5. EdgesAreFound'
    BY <2>1 DEF EdgesAreFound, Seen
  <2> QED BY <2>3, <2>4, <2>5
<1>2. CASE \E s \in Sessions : Write(s)
  <2>1. PICK s \in Sessions : Write(s)
    BY <1>2
  <2>2. PICK e \in Event :
          /\ logs' = [logs EXCEPT ![s] = Append(logs[s], e)]
          /\ e.ts \in Nat => e.ts <= clock
          /\ logs[s] = <<>> => e.type = "session.started" /\ e.ts = clock
          /\ edges' = FindHandoffs(Retained(Seen'), AnyOrder)
          /\ clock' = clock /\ scope' = scope /\ shown' = shown
    BY <2>1, WriteIs
  <2> DEFINE n == Len(logs[s]) + 1
  <2>3. /\ logs' \in [Sessions -> Seq(Event)]
        /\ \A t \in Sessions \ {s} : logs'[t] = logs[t]
        /\ \A t \in Sessions : \A i \in DOMAIN logs[t] : logs'[t][i] = logs[t][i]
        /\ n \in Nat /\ n \notin DOMAIN logs[s]
        /\ DOMAIN logs'[s] = DOMAIN logs[s] \cup {n} /\ logs'[s][n] = e
    BY <2>2, Appended DEF TypeOK
  <2>4. \A t \in Sessions : logs[t] \in Seq(Event) /\ DOMAIN logs[t] = 1..Len(logs[t])
    BY SeqIsLog DEF TypeOK
  <2> HIDE DEF n
  <2>5. TypeOK'
    BY <2>2, <2>3 DEF TypeOK
  <2>6. NothingAhead'
    BY <2>2, <2>3 DEF NothingAhead
  <2>7. BeginsWithStart'
    <3> SUFFICES ASSUME NEW t \in Sessions, logs'[t] # <<>>
                 PROVE  logs'[t][1].type = "session.started" /\ logs'[t][1].ts \in Nat
      BY DEF BeginsWithStart
    <3>1. CASE logs[t] # <<>>
      <4>1. 1 \in DOMAIN logs[t]
        BY <2>4, <3>1
      <4> QED BY <2>3, <3>1, <4>1 DEF BeginsWithStart
    <3>2. CASE logs[t] = <<>>
      <4>1. t = s
        BY <2>3, <3>2
      <4>2. n = 1
        BY <3>2, <4>1 DEF n
      <4> QED BY <2>2, <2>3, <3>2, <4>1, <4>2 DEF TypeOK
    <3> QED BY <3>1, <3>2
  <2>8. EdgesAreFound'
    BY <2>2 DEF EdgesAreFound
  <2> QED BY <2>5, <2>6, <2>7, <2>8
<1>3. CASE UNCHANGED vars
  BY <1>3 DEF vars, TypeOK, NothingAhead, BeginsWithStart, EdgesAreFound, Seen
<1>4. ASSUME NEW sessions \in SUBSET Sessions, Scan(sessions) PROVE FleetInv'
  <2>1. /\ UNCHANGED <<logs, clock, scope>> /\ shown' = sessions
        /\ edges' = FindHandoffs(Retained(Seen'), AnyOrder)
    BY <1>4 DEF Scan
  <2> QED BY <2>1 DEF TypeOK, NothingAhead, BeginsWithStart, EdgesAreFound
<1> QED BY <1>1, <1>2, <1>3, <1>4 DEF Next

\* So the invariant holds at every moment.
THEOREM FleetInvariant == Spec => []FleetInv
<1>1. Init => FleetInv
  <2> SUFFICES ASSUME Init PROVE FleetInv
    OBVIOUS
  <2>1. /\ logs \in [Sessions -> Seq(Event)]
        /\ \A s \in Sessions : logs[s] = <<>> /\ DOMAIN logs[s] = {}
    BY DEF Init
  <2>2. TypeOK /\ NothingAhead /\ BeginsWithStart
    BY <2>1 DEF Init, TypeOK, NothingAhead, BeginsWithStart
  <2>3. /\ Seen \in [Sessions -> Seq(Event)]
        /\ \A s \in Sessions : DOMAIN Seen[s] = {}
    BY <2>1 DEF Init, Seen
  <2>4. Positions(Retained(Seen)) = {}
    <3>1. Positions(Seen) = {}
      BY <2>3 DEF Positions
    <3> QED BY <2>3, <3>1, RetainedPositions
  <2>5. EdgesAreFound
    BY <2>4, NoEventsNoHandoffs DEF Init, EdgesAreFound
  <2> QED BY <2>2, <2>5 DEF FleetInv
<1> QED BY <1>1, InvariantStep, PTL DEF Spec

(***************************************************************************)
(* Runs.                                                                   *)
(***************************************************************************)
\* The events of a run, and what there is to say of it.
Events(log, r) == {i \in DOMAIN log : log[i].run = r}

\* There is a run for each run id, made from the events that carry it.
LEMMA RunIsOf ==
  ASSUME NEW log, NEW now
  PROVE  /\ DOMAIN DeriveRuns(log, now) = RunIds(log)
         /\ \A r \in RunIds(log) :
              LET run == DeriveRuns(log, now)[r] IN
              /\ Events(log, r) # {} /\ run = RunOf(log, Events(log, r), now)
              /\ run.steps = Cardinality(Events(log, r))
              /\ run.outcome = Outcome(log, Events(log, r), now)
BY DEF DeriveRuns, RunIds, RunOf, Events

\* One by one, the steps of the runs are the events of the file.
LEMMA EventsCounted ==
  ASSUME NEW log \in Seq(Event)
  PROVE  Cardinality(UNION {{r} \X (1..Cardinality(Events(log, r))) : r \in RunIds(log)}) = Len(log)
<1> DEFINE n(r) == Cardinality(Events(log, r))
           steps == UNION {{r} \X (1..n(r)) : r \in RunIds(log)}
           b == [r \in RunIds(log) |-> CHOOSE f : f \in Bijection(1..n(r), Events(log, r))]
           at == [p \in steps |-> b[p[1]][p[2]]]
<1>1. DOMAIN log = 1..Len(log) /\ Len(log) \in Nat /\ IsFiniteSet(DOMAIN log)
  BY SeqIsLog, LogType
<1>2. ASSUME NEW r \in RunIds(log)
      PROVE  b[r] \in Bijection(1..n(r), Events(log, r)) /\ n(r) \in Nat
  <2>1. IsFiniteSet(Events(log, r))
    BY <1>1, FS_Subset DEF Events
  <2>2. n(r) \in Nat /\ \E f : f \in Bijection(1..n(r), Events(log, r))
    BY <2>1, FS_CardinalityType DEF ExistsBijection
  <2> QED BY <2>2
<1>3. ASSUME NEW p \in steps
      PROVE  /\ p[1] \in RunIds(log) /\ p[2] \in 1..n(p[1]) /\ p = <<p[1], p[2]>>
             /\ at[p] = b[p[1]][p[2]]
  OBVIOUS
<1>4. ASSUME NEW r \in RunIds(log), NEW k \in 1..n(r) PROVE <<r, k>> \in steps
  OBVIOUS
<1> HIDE DEF steps, at, b, n
<1>5. ASSUME NEW p \in steps PROVE at[p] \in 1..Len(log) /\ log[at[p]].run = p[1]
  <2>1. b[p[1]] \in [1..n(p[1]) -> Events(log, p[1])]
    BY <1>2, <1>3 DEF Bijection, Injection
  <2>2. at[p] \in Events(log, p[1])
    BY <1>3, <2>1
  <2> QED BY <1>1, <2>2 DEF Events
<1>6. at \in [steps -> 1..Len(log)]
  BY <1>5 DEF at
<1>7. ASSUME NEW p \in steps, NEW q \in steps, at[p] = at[q] PROVE p = q
  <2>1. p[1] = q[1]
    BY <1>5, <1>7
  <2>2. /\ b[p[1]] \in [1..n(p[1]) -> Events(log, p[1])]
        /\ \A k, l \in DOMAIN b[p[1]] : b[p[1]][k] = b[p[1]][l] => k = l
    BY <1>2, <1>3 DEF Bijection, Injection, IsInjective
  <2>3. p[2] = q[2]
    <3>1. p[2] \in 1..n(p[1]) /\ q[2] \in 1..n(p[1])
      BY <1>3, <2>1
    <3>2. b[p[1]][p[2]] = b[p[1]][q[2]]
      BY <1>3, <1>7, <2>1
    <3>3. DOMAIN b[p[1]] = 1..n(p[1])
      BY <2>2
    <3> QED BY <2>2, <3>1, <3>2, <3>3
  <2> QED BY <1>3, <2>1, <2>3
<1>8. at \in Injection(steps, 1..Len(log))
  BY <1>6, <1>7 DEF Injection, IsInjective
<1>9. ASSUME NEW i \in 1..Len(log) PROVE \E p \in steps : at[p] = i
  <2> DEFINE r == log[i].run
  <2>1. r \in RunIds(log) /\ i \in Events(log, r)
    BY <1>1 DEF RunIds, Events
  <2>2. PICK k \in 1..n(r) : b[r][k] = i
    BY <1>2, <2>1 DEF Bijection, Surjection
  <2>3. <<r, k>> \in steps
    BY <1>4, <2>1
  <2> QED BY <1>3, <2>2, <2>3
<1>10. at \in Surjection(steps, 1..Len(log))
  BY <1>6, <1>9 DEF Surjection
<1>11. IsFiniteSet(1..Len(log)) /\ Cardinality(1..Len(log)) = Len(log)
  BY <1>1, FS_Interval
<1>12. Cardinality(steps) = Len(log)
  BY <1>8, <1>10, <1>11, FS_Injection
<1> QED BY <1>12 DEF steps, n

\* The times of a run are those of its first and its last event that have one.
LEMMA RunTimes ==
  ASSUME NEW log \in Log, NEW r \in RunIds(log), NEW now,
         \A i \in Events(log, r) : log[i].ts # Unreadable,
         NEW times, times = {log[i].ts : i \in Events(log, r)} \cap Nat, times # {}
  PROVE  LET run == RunOf(log, Events(log, r), now) IN
         /\ {run.startedAt, run.lastEventAt} \subseteq times
         /\ \A t \in times : run.startedAt <= t /\ t <= run.lastEventAt
<1> DEFINE I == Events(log, r)
           timed == {i \in I : log[i].ts # None}
           run == RunOf(log, I, now)
<1>1. I \subseteq DOMAIN log
  BY DEF Events
<1>2. \A i \in I : i \in timed <=> log[i].ts \in Nat
  BY <1>1, LogType, TimesAre
<1>3. timed \in SUBSET DOMAIN log /\ timed # {}
  BY <1>1, <1>2
<1>4. \A i \in timed : log[i].ts \in times /\ Millis(log[i].ts) = log[i].ts
  BY <1>1, <1>2, LogType, TimesAre
<1>5. run.startedAt = log[EarliestOf(log, timed)].ts /\ run.lastEventAt = log[LatestOf(log, timed)].ts
  BY <1>3 DEF RunOf
<1>6. \A t \in times : \E i \in timed : log[i].ts = t
  BY <1>2
<1> HIDE DEF timed, I, run
<1>7. EarliestOf(log, timed) \in timed /\ LatestOf(log, timed) \in timed
  BY <1>3, Ends
<1>8. \A i \in timed : /\ log[EarliestOf(log, timed)].ts <= log[i].ts
                       /\ log[i].ts <= log[LatestOf(log, timed)].ts
  BY <1>3, <1>4, <1>7, Ends
<1>9. {run.startedAt, run.lastEventAt} \subseteq times
  BY <1>4, <1>5, <1>7
<1>10. \A t \in times : run.startedAt <= t /\ t <= run.lastEventAt
  BY <1>5, <1>6, <1>8
<1> QED BY <1>9, <1>10 DEF run, I

\* A run that has not finished is running while some event of it is recent.
LEMMA RunOutcome ==
  ASSUME NEW log \in Log, NEW r \in RunIds(log), NEW now \in Nat,
         NEW times, times = {log[i].ts : i \in Events(log, r)} \cap Nat,
         NEW over, over <=> \E i \in Events(log, r) : log[i].type \in {"model.completed", "session.ended"}
  PROVE  LET outcome == Outcome(log, Events(log, r), now) IN
         /\ outcome = "error" => over
         /\ ~over => (outcome = "running" <=> \E t \in times : now <= t + StaleAfter)
<1> DEFINE I == Events(log, r)
           last == Millis(log[LatestOf(log, I)].ts)
           outcome == Outcome(log, I, now)
<1>1. I \in SUBSET DOMAIN log /\ I # {}
  BY DEF Events, RunIds
<1>2. LatestOf(log, I) \in I /\ \A i \in I : Millis(log[i].ts) <= last
  BY <1>1, Ends
<1>3. outcome = "error" => over
  BY DEF Outcome
<1>4. ASSUME ~over PROVE outcome = "running" <=> last # 0 /\ now <= last + StaleAfter
  BY <1>4 DEF Outcome
<1>5. StaleAfter \in Nat /\ \A t \in times : t \in Nat /\ t >= 1
  BY <1>1, FleetAssumption, LogType, TimesAre
<1>6. \A i \in I : /\ log[i].ts \in Nat => log[i].ts \in times /\ Millis(log[i].ts) = log[i].ts
                   /\ log[i].ts \notin Nat => Millis(log[i].ts) = 0
                   /\ Millis(log[i].ts) \in Nat
  BY <1>1, LogType, TimesAre
<1>7. \A t \in times : \E i \in I : log[i].ts = t
  OBVIOUS
<1> HIDE DEF I, outcome
<1>8. last # 0 => last \in times
  BY <1>2, <1>6
<1>9. \A t \in times : t <= last /\ last \in Nat
  BY <1>2, <1>5, <1>6, <1>7
<1>10. (last # 0 /\ now <= last + StaleAfter) <=> \E t \in times : now <= t + StaleAfter
  <2> HIDE DEF last
  <2>1. ASSUME last # 0, now <= last + StaleAfter PROVE \E t \in times : now <= t + StaleAfter
    BY <1>8, <2>1
  <2>2. ASSUME NEW t \in times, now <= t + StaleAfter PROVE last # 0 /\ now <= last + StaleAfter
    BY <1>5, <1>9, <2>2
  <2> QED BY <2>1, <2>2
<1> QED BY <1>3, <1>4, <1>10 DEF outcome, I

\* The runs account for every event, and their times and outcomes are those that their
\* events bear out.
THEOREM EveryRunFits == Spec => []RunsFitTheirEvents
<1>1. ASSUME FleetInv PROVE RunsFitTheirEvents
  <2>1. ASSUME NEW s \in Sessions
        PROVE  /\ logs[s] \in Seq(Event) /\ logs[s] \in Log
               /\ DOMAIN RunsOf(s) = RunIds(logs[s])
               /\ \A r \in RunIds(logs[s]) :
                    /\ EventsOf(s, r) = Events(logs[s], r)
                    /\ RunsOf(s)[r] = RunOf(logs[s], Events(logs[s], r), clock)
                    /\ RunsOf(s)[r].steps = Cardinality(Events(logs[s], r))
                    /\ RunsOf(s)[r].outcome = Outcome(logs[s], Events(logs[s], r), clock)
    <3>1. logs[s] \in Seq(Event) /\ logs[s] \in Log
      BY <1>1, SeqIsLog DEF FleetInv, TypeOK
    <3>2. RunsOf(s) = DeriveRuns(logs[s], clock)
      BY DEF RunsOf
    <3>3. \A r : EventsOf(s, r) = Events(logs[s], r)
      BY DEF EventsOf, Events
    <3> QED BY <3>1, <3>2, <3>3, RunIsOf
  <2>2. ASSUME NEW s \in Sessions
        PROVE  Cardinality(UNION {{r} \X (1..RunsOf(s)[r].steps) : r \in DOMAIN RunsOf(s)}) = Len(logs[s])
    <3>1. UNION {{r} \X (1..RunsOf(s)[r].steps) : r \in DOMAIN RunsOf(s)}
            = UNION {{r} \X (1..Cardinality(Events(logs[s], r))) : r \in RunIds(logs[s])}
      BY <2>1
    <3> QED BY <2>1, <3>1, EventsCounted
  <2>3. ASSUME NEW s \in Sessions, NEW r \in RunIds(logs[s])
        PROVE  LET run    == RunsOf(s)[r]
                   events == {logs[s][i] : i \in EventsOf(s, r)}
                   times  == {e.ts : e \in events} \cap Nat
                   over   == \E e \in events : e.type \in {"model.completed", "session.ended"}
               IN /\ (\A e \in events : e.ts # Unreadable) /\ times # {} =>
                       /\ {run.startedAt, run.lastEventAt} \subseteq times
                       /\ \A t \in times : run.startedAt <= t /\ t <= run.lastEventAt
                  /\ run.outcome = "error" => over
                  /\ ~over => (run.outcome = "running" <=> \E t \in times : clock <= t + StaleAfter)
    <3> DEFINE log    == logs[s]
               run    == RunsOf(s)[r]
               events == {log[i] : i \in EventsOf(s, r)}
               times  == {e.ts : e \in events} \cap Nat
               over   == \E e \in events : e.type \in {"model.completed", "session.ended"}
    <3>1. /\ log \in Log /\ run = RunOf(log, Events(log, r), clock)
          /\ run.outcome = Outcome(log, Events(log, r), clock)
      BY <2>1
    <3>2. events = {log[i] : i \in Events(log, r)}
      BY <2>1
    <3> HIDE DEF events
    <3>3. times = {log[i].ts : i \in Events(log, r)} \cap Nat
      BY <3>2
    <3>4. over <=> \E i \in Events(log, r) : log[i].type \in {"model.completed", "session.ended"}
      BY <3>2
    <3>5. (\A e \in events : e.ts # Unreadable) => \A i \in Events(log, r) : log[i].ts # Unreadable
      BY <3>2
    <3>6. clock \in Nat
      BY <1>1 DEF FleetInv, TypeOK
    <3> HIDE DEF run, log, times, over
    <3>7. /\ run.outcome = "error" => over
          /\ ~over => (run.outcome = "running" <=> \E t \in times : clock <= t + StaleAfter)
      BY <3>1, <3>3, <3>4, <3>6, RunOutcome DEF log
    <3>8. (\A e \in events : e.ts # Unreadable) /\ times # {} =>
             /\ {run.startedAt, run.lastEventAt} \subseteq times
             /\ \A t \in times : run.startedAt <= t /\ t <= run.lastEventAt
      BY <3>1, <3>3, <3>5, <3>6, RunTimes DEF log
    <3> QED BY <3>7, <3>8 DEF run, log, times, over, events
  <2> QED BY <2>2, <2>3 DEF RunsFitTheirEvents
<1> QED BY <1>1, FleetInvariant, PTL

\* A settled run stays settled: what settles it is that some event is there, and events
\* stay.
THEOREM SettledForGood == Spec => OutcomeSettles
<1>1. ASSUME FleetInv, [Next]_vars, NEW s \in Sessions, NEW r \in DOMAIN RunsOf(s)
      PROVE  /\ RunsOf(s)[r].outcome \in {"ok", "error"} => RunsOf(s)'[r].outcome \in {"ok", "error"}
             /\ RunsOf(s)[r].outcome = "error" => RunsOf(s)'[r].outcome = "error"
  <2> DEFINE over(log)   == \E i \in Events(log, r) : log[i].type \in {"model.completed", "session.ended"}
             failed(log) == \E i \in Events(log, r) : IsError(log[i])
  <2>1. ASSUME NEW log, NEW now, r \in RunIds(log)
        PROVE  /\ over(log) => DeriveRuns(log, now)[r].outcome = IF failed(log) THEN "error" ELSE "ok"
               /\ ~over(log) => DeriveRuns(log, now)[r].outcome \in {"running", "stale"}
    <3>1. DeriveRuns(log, now)[r].outcome = Outcome(log, Events(log, r), now)
      BY <2>1, RunIsOf
    <3> QED BY <3>1 DEF Outcome
  <2>2. \A i \in DOMAIN logs[s] : i \in DOMAIN logs'[s] /\ logs'[s][i] = logs[s][i]
    <3>1. CASE \E t \in Sessions : Write(t)
      <4>1. PICK t \in Sessions, e \in Event : logs' = [logs EXCEPT ![t] = Append(logs[t], e)]
        BY <1>1, <3>1, WriteIs
      <4> QED BY <1>1, <4>1, Appended DEF FleetInv, TypeOK
    <3>2. CASE UNCHANGED logs
      BY <3>2
    <3> QED BY <1>1, <3>1, <3>2 DEF Next, Tick, Scan, vars
  <2>3. Events(logs[s], r) \subseteq Events(logs'[s], r)
    BY <2>2 DEF Events
  <2>4. (over(logs[s]) => over(logs'[s])) /\ (failed(logs[s]) => failed(logs'[s]))
    BY <2>2, <2>3 DEF Events
  <2>5. r \in RunIds(logs[s]) /\ r \in RunIds(logs'[s])
    <3>1. r \in RunIds(logs[s])
      <4>1. DOMAIN DeriveRuns(logs[s], clock) = RunIds(logs[s])
        BY DEF DeriveRuns
      <4> QED BY <1>1, <4>1 DEF RunsOf
    <3> QED BY <2>2, <3>1 DEF RunIds
  <2>6. RunsOf(s) = DeriveRuns(logs[s], clock) /\ RunsOf(s)' = DeriveRuns(logs'[s], clock')
    BY DEF RunsOf
  <2> HIDE DEF over, failed
  <2>7. /\ over(logs[s]) => RunsOf(s)[r].outcome = IF failed(logs[s]) THEN "error" ELSE "ok"
        /\ ~over(logs[s]) => RunsOf(s)[r].outcome \in {"running", "stale"}
    BY <2>1, <2>5, <2>6
  <2>8. over(logs'[s]) => RunsOf(s)'[r].outcome = IF failed(logs'[s]) THEN "error" ELSE "ok"
    BY <2>1, <2>5, <2>6
  <2> QED BY <2>4, <2>7, <2>8
<1>2. FleetInv /\ [Next]_vars =>
        [\A s \in Sessions : \A r \in DOMAIN RunsOf(s) :
           LET before == RunsOf(s)[r].outcome
               after  == RunsOf(s)'[r].outcome
           IN /\ before \in {"ok", "error"} => after \in {"ok", "error"}
              /\ before = "error" => after = "error"]_vars
  BY <1>1
<1> QED BY <1>2, FleetInvariant, PTL DEF Spec, OutcomeSettles

(***************************************************************************)
(* The matching.                                                           *)
(***************************************************************************)
\* g gives the calls D their children, each call in its turn.
Matches(g, D, L, order, claimed) ==
  g = [c \in D |-> Child(L, order, c,
                         claimed \cup {g[d] : d \in {d \in D : Sooner(L, order, d, c)}})]

\* There is such a g: of the sets of calls without one a smallest would have a last call,
\* and its child follows from the children of the others.
LEMMA MatchingExists ==
  ASSUME NEW L \in Logs, NEW order \in Orders, NEW claimed
  PROVE  \E g : Matches(g, Calls(L), L, order, claimed)
<1> DEFINE C == Calls(L)
           T == {D \in SUBSET C : ~ \E g : Matches(g, D, L, order, claimed)}
<1>1. C \subseteq Positions(L) /\ IsFiniteSet(C)
  <2>1. C \subseteq Positions(L)
    BY DEF Calls
  <2> QED BY <2>1, PositionsFinite, FS_Subset
<1> HIDE DEF C
<1>2. SUFFICES ASSUME T # {} PROVE FALSE
  BY DEF C
<1>3. PICK D \in T : \A E \in T : <<E, D>> \notin StrictSubsetOrdering(C)
  <2>1. IsWellFoundedOn(StrictSubsetOrdering(C), FiniteSubsetsOf(C))
    BY FS_StrictSubsetOrderingWellFounded
  <2>2. T \subseteq FiniteSubsetsOf(C)
    BY <1>1, FS_FiniteSubsetsOfFinite
  <2> HIDE DEF T
  <2> QED BY <1>2, <2>1, <2>2, WFMin
<1>4. D \in SUBSET C /\ ~ \E g : Matches(g, D, L, order, claimed)
  BY <1>3
<1>5. D # {}
  <2>1. Matches([c \in {} |-> None], {}, L, order, claimed)
    BY DEF Matches
  <2> QED BY <1>4, <2>1
<1>6. PICK c \in D : \A d \in D \ {c} : Sooner(L, order, d, c)
  BY <1>1, <1>4, <1>5, FirstIs
<1> DEFINE E == D \ {c}
<1>7. PICK g : Matches(g, E, L, order, claimed)
  <2>1. <<E, D>> \in StrictSubsetOrdering(C)
    BY <1>4, <1>6 DEF StrictSubsetOrdering
  <2> QED BY <1>3, <1>4, <2>1
<1> DEFINE before(h, F, d) == claimed \cup {h[e] : e \in {e \in F : Sooner(L, order, e, d)}}
           h == [d \in D |-> IF d = c THEN Child(L, order, c, before(g, E, c)) ELSE g[d]]
<1>8. \A d \in E : h[d] = g[d]
  BY <1>6
<1>9. \A d \in D : {e \in D : Sooner(L, order, e, d)} = {e \in E : Sooner(L, order, e, d)}
  <2>1. \A d \in D : ~Sooner(L, order, c, d)
    BY <1>1, <1>4, <1>6, SoonerOrders
  <2> QED BY <2>1
<1>10. \A d \in D : before(h, D, d) = before(g, E, d)
  <2> HIDE DEF h
  <2> QED BY <1>8, <1>9
<1>11. \A d \in E : g[d] = Child(L, order, d, before(g, E, d))
  BY <1>7 DEF Matches
<1>12. \A d \in D : h[d] = Child(L, order, d, before(h, D, d))
  <2> SUFFICES ASSUME NEW d \in D PROVE h[d] = Child(L, order, d, before(g, E, d))
    BY <1>10
  <2> QED BY <1>6, <1>8, <1>11
<1>13. h = [d \in D |-> h[d]]
  OBVIOUS
<1>14. Matches(h, D, L, order, claimed)
  <2> HIDE DEF h
  <2> QED BY <1>12, <1>13 DEF Matches
<1> QED BY <1>4, <1>14

\* What a call may not take: the claimed, and what the calls before it have taken.
Taken(L, order, claimed, c) ==
  claimed \cup {Children(L, order, claimed)[d] : d \in {d \in Calls(L) : Sooner(L, order, d, c)}}

\* What Children defines is such a g.
LEMMA ChildrenAre ==
  ASSUME NEW L \in Logs, NEW order \in Orders, NEW claimed, NEW c \in Calls(L)
  PROVE  Children(L, order, claimed)[c] = Child(L, order, c, Taken(L, order, claimed, c))
<1> DEFINE child == Children(L, order, claimed)
<1>1. child = CHOOSE g : Matches(g, Calls(L), L, order, claimed)
  BY DEF Children, Matches
<1>2. Matches(child, Calls(L), L, order, claimed)
  BY <1>1, MatchingExists
<1> QED BY <1>2 DEF Matches, Taken

\* A call takes the first of the starts that are free, if there are any.
LEMMA ChildIs ==
  ASSUME NEW L \in Logs, NEW order \in Orders, NEW claimed, NEW c \in Calls(L)
  PROVE  LET child == Children(L, order, claimed)[c]
             free  == Free(L, c, Taken(L, order, claimed, c))
         IN  /\ free = {} => child = None
             /\ free # {} => /\ First(L, order, free) \in free
                             /\ child = First(L, order, free)[1] /\ child \in Sessions
                             /\ child \notin Taken(L, order, claimed, c)
             /\ free \subseteq Positions(L)
<1> DEFINE free == Free(L, c, Taken(L, order, claimed, c))
<1>1. free \subseteq Starts(L) /\ \A p \in free : p[1] \notin Taken(L, order, claimed, c)
  BY DEF Free
<1>2. Starts(L) \subseteq Positions(L)
  BY DEF Starts
<1> HIDE DEF free
<1>3. free # {} => First(L, order, free) \in free
  BY <1>1, <1>2, FirstIs
<1> QED BY <1>1, <1>2, <1>3, ChildrenAre, PositionType DEF free, Child

\* A call takes one of the free starts, if it takes any, and none of them is sooner.
LEMMA CallTakes ==
  ASSUME NEW L \in Logs, NEW order \in Orders, NEW claimed, NEW c \in Calls(L)
  PROVE  LET child == Children(L, order, claimed)[c]
             free  == Free(L, c, Taken(L, order, claimed, c))
         IN  /\ child # None <=> free # {}
             /\ child # None =>
                  /\ child \in Sessions \ Taken(L, order, claimed, c)
                  /\ \E p \in free : /\ p[1] = child
                                     /\ \A q \in free \ {p} : Sooner(L, order, p, q)
<1> DEFINE child == Children(L, order, claimed)[c]
           free  == Free(L, c, Taken(L, order, claimed, c))
<1>1. /\ free = {} => child = None
      /\ free # {} => /\ First(L, order, free) \in free
                      /\ child = First(L, order, free)[1] /\ child \in Sessions
                      /\ child \notin Taken(L, order, claimed, c)
      /\ free \subseteq Positions(L)
  BY ChildIs
<1>2. None \notin Sessions
  BY FleetAssumption
<1> HIDE DEF child, free
<1>3. free # {} => \A q \in free \ {First(L, order, free)} : Sooner(L, order, First(L, order, free), q)
  BY <1>1, FirstIs
<1> QED BY <1>1, <1>2, <1>3 DEF child, free

\* No two calls take one session.
LEMMA OneParent ==
  ASSUME NEW L \in Logs, NEW order \in Orders, NEW claimed,
         NEW c \in Calls(L), NEW d \in Calls(L),
         Children(L, order, claimed)[c] # None,
         Children(L, order, claimed)[c] = Children(L, order, claimed)[d]
  PROVE  c = d
<1> DEFINE child == Children(L, order, claimed)
<1>1. ASSUME NEW x \in Calls(L), NEW y \in Calls(L), Sooner(L, order, x, y), child[y] # None
      PROVE  child[x] # child[y]
  <2>1. child[x] \in Taken(L, order, claimed, y)
    BY <1>1 DEF Taken
  <2> QED BY <1>1, <2>1, CallTakes
<1>2. c \in Positions(L) /\ d \in Positions(L)
  BY DEF Calls
<1>3. c # d => Sooner(L, order, c, d) \/ Sooner(L, order, d, c)
  BY <1>2, SoonerOrders
<1> QED BY <1>1, <1>3

\* Two logs in which the calls and the starts agree are matched alike.
LEMMA SameChildren ==
  ASSUME NEW L \in Logs, NEW M \in Logs, NEW o \in Orders, NEW u \in Orders, NEW claimed,
         Calls(L) = Calls(M), Starts(L) = Starts(M),
         \A c, d \in Calls(L) : Sooner(L, o, c, d) <=> Sooner(M, u, c, d),
         \A p, q \in Starts(L) : Sooner(L, o, p, q) <=> Sooner(M, u, p, q),
         \A c \in Calls(L), p \in Starts(L) : Fits(L, c, p) <=> Fits(M, c, p)
  PROVE  \A c \in Calls(L) : Children(L, o, claimed)[c] = Children(M, u, claimed)[c]
<1> DEFINE f == Children(L, o, claimed)
           g == Children(M, u, claimed)
           B == {c \in Calls(L) : f[c] # g[c]}
<1>1. Calls(L) \subseteq Positions(L) /\ Starts(L) \subseteq Positions(L)
      /\ Calls(M) \subseteq Positions(M) /\ Starts(M) \subseteq Positions(M)
  BY DEF Calls, Starts
<1>2. \A c \in Calls(L) : \A X : Free(L, c, X) = Free(M, c, X) /\ Free(L, c, X) \subseteq Starts(L)
  BY DEF Free
<1>3. ASSUME NEW P \in SUBSET Starts(L), P # {} PROVE First(L, o, P) = First(M, u, P)
  <2>1. P \in SUBSET Positions(L) /\ P \in SUBSET Positions(M)
    BY <1>1, <1>3
  <2>2. First(L, o, P) \in P /\ \A q \in P \ {First(L, o, P)} : Sooner(L, o, First(L, o, P), q)
    BY <1>3, <2>1, FirstIs
  <2>3. \A q \in P \ {First(L, o, P)} : Sooner(M, u, First(L, o, P), q)
    BY <2>2
  <2> QED BY <2>1, <2>2, <2>3, FirstIsOne
<1>4. \A c \in Calls(L) : \A X : Child(L, o, c, X) = Child(M, u, c, X)
  <2> SUFFICES ASSUME NEW c \in Calls(L), NEW X PROVE Child(L, o, c, X) = Child(M, u, c, X)
    OBVIOUS
  <2>1. Free(L, c, X) = Free(M, c, X) /\ Free(L, c, X) \subseteq Starts(L)
    BY <1>2
  <2>2. Free(L, c, X) # {} => First(L, o, Free(L, c, X)) = First(M, u, Free(M, c, X))
    BY <1>3, <2>1
  <2> QED BY <2>1, <2>2 DEF Child
<1>5. SUFFICES ASSUME B # {} PROVE FALSE
  OBVIOUS
<1>6. PICK c \in B : \A d \in B \ {c} : Sooner(L, o, c, d)
  <2>1. B \in SUBSET Positions(L)
    BY <1>1
  <2> HIDE DEF B
  <2> QED BY <1>5, <2>1, FirstIs
<1>7. \A d \in Calls(L) : Sooner(L, o, d, c) => f[d] = g[d]
  <2>1. \A d \in B : d \in Positions(L) /\ c \in Positions(L)
    BY <1>1
  <2>2. \A d \in B : ~Sooner(L, o, d, c)
    BY <1>6, <2>1, SoonerOrders
  <2> QED BY <2>2
<1>8. Taken(L, o, claimed, c) = Taken(M, u, claimed, c)
  BY <1>7 DEF Taken
<1>9. /\ f[c] = Child(L, o, c, Taken(L, o, claimed, c))
      /\ g[c] = Child(M, u, c, Taken(M, u, claimed, c))
  BY ChildrenAre
<1> HIDE DEF f, g
<1>10. f[c] = g[c]
  BY <1>4, <1>8, <1>9
<1> QED BY <1>10

\* The edge of a call.
Spawned(L, order, claimed, c) ==
  [fromAgent |-> AgentOf[c[1]], fromSession |-> c[1], fromRun |-> At(L, c).run,
   to |-> Children(L, order, claimed)[c], ts |-> At(L, c).ts, declared |-> FALSE]

\* The inferred handoffs are the edges of the calls that have a child.
LEMMA InferredAre ==
  ASSUME NEW L, NEW order, NEW claimed
  PROVE  InferHandoffs(L, order, claimed)
           = {Spawned(L, order, claimed, c) :
                c \in {c \in Calls(L) : Children(L, order, claimed)[c] # None}}
BY DEF InferHandoffs, Spawned

\* So the same handoffs are inferred from them.
LEMMA SameInferred ==
  ASSUME NEW L \in Logs, NEW M \in Logs, NEW o \in Orders, NEW u \in Orders, NEW claimed,
         Calls(L) = Calls(M), Starts(L) = Starts(M),
         \A c, d \in Calls(L) : Sooner(L, o, c, d) <=> Sooner(M, u, c, d),
         \A p, q \in Starts(L) : Sooner(L, o, p, q) <=> Sooner(M, u, p, q),
         \A p \in Calls(L) \cup Starts(L) : At(L, p) = At(M, p)
  PROVE  InferHandoffs(L, o, claimed) = InferHandoffs(M, u, claimed)
<1>1. \A c \in Calls(L), p \in Starts(L) : Fits(L, c, p) <=> Fits(M, c, p)
  BY DEF Fits
<1>2. \A c \in Calls(L) : Children(L, o, claimed)[c] = Children(M, u, claimed)[c]
  BY <1>1, SameChildren
<1>3. \A c \in Calls(L) : Spawned(L, o, claimed, c) = Spawned(M, u, claimed, c)
  BY <1>2 DEF Spawned
<1> QED BY <1>2, <1>3, InferredAre

\* One event more, and later than all calls and starts if it is one.
Later(L, M, n) ==
  /\ Positions(M) = Positions(L) \cup {n} /\ n \notin Positions(L)
  /\ \A p \in Positions(L) : At(M, p) = At(L, p)
  /\ \A P \in {Calls(M), Starts(M)} : n \in P =>
       \A p \in P \ {n} : Millis(At(M, p).ts) < Millis(At(M, n).ts)

\* A call keeps its child; one that had none may find one, in the session that now started.
LEMMA ChildrenStay ==
  ASSUME NEW L \in Logs, NEW M \in Logs, NEW order \in Orders, NEW claimed,
         NEW n, Later(L, M, n), NEW c \in Calls(L)
  PROVE  LET child == Children(L, order, claimed)
             after == Children(M, order, claimed)
         IN \/ after[c] = child[c]
            \/ child[c] = None /\ after[c] = n[1] /\ n \in Starts(M) /\ Fits(M, c, n)
<1> DEFINE child == Children(L, order, claimed)
           after == Children(M, order, claimed)
           ms(p) == Millis(At(M, p).ts)
           Stays(x) == \/ after[x] = child[x]
                       \/ child[x] = None /\ after[x] = n[1] /\ n \in Starts(M) /\ Fits(M, x, n)
           B == {x \in Calls(L) : ~Stays(x)}
<1>1. /\ Positions(M) = Positions(L) \cup {n} /\ n \notin Positions(L)
      /\ \A p \in Positions(L) : At(M, p) = At(L, p)
      /\ n \in Calls(M) => \A p \in Calls(M) \ {n} : ms(p) < ms(n)
      /\ n \in Starts(M) => \A p \in Starts(M) \ {n} : ms(p) < ms(n)
  BY DEF Later
<1>2. \A p \in Positions(M) : ms(p) \in Nat /\ p[1] \in Sessions
  BY PositionType
<1>3. /\ Calls(L) \subseteq Positions(L) /\ Starts(L) \subseteq Positions(L)
      /\ Calls(M) \subseteq Positions(M) /\ Starts(M) \subseteq Positions(M)
      /\ Calls(L) = Calls(M) \ {n} /\ Starts(L) = Starts(M) \ {n}
  <2>1. /\ Calls(L) \subseteq Positions(L) /\ Starts(L) \subseteq Positions(L)
        /\ Calls(M) \subseteq Positions(M) /\ Starts(M) \subseteq Positions(M)
    BY DEF Calls, Starts
  <2>2. Calls(L) = Calls(M) \ {n}
    BY <1>1 DEF Calls
  <2>3. Starts(L) = Starts(M) \ {n}
    BY <1>1 DEF Starts
  <2> QED BY <2>1, <2>2, <2>3
<1>4. \A p, q \in Positions(L) : Sooner(M, order, p, q) <=> Sooner(L, order, p, q)
  BY <1>1 DEF Sooner
<1>5. \A x \in Calls(L), p \in Starts(L) : Fits(M, x, p) <=> Fits(L, x, p)
  BY <1>1, <1>3 DEF Fits
<1>6. Window \in Nat /\ None \notin Sessions
  BY FleetAssumption
<1> HIDE DEF child, after, ms
<1>7. \A x \in Calls(L) : ~ (n \in Calls(M) /\ Sooner(M, order, n, x))
  <2> SUFFICES ASSUME NEW x \in Calls(L), n \in Calls(M), Sooner(M, order, n, x) PROVE FALSE
    OBVIOUS
  <2>1. x \in Positions(M) /\ n \in Positions(M) /\ ms(x) < ms(n)
    BY <1>1, <1>3
  <2>2. ms(n) <= ms(x)
    BY <2>1, SoonerOrders DEF ms
  <2> QED BY <1>2, <2>1, <2>2
<1>8. \A x \in Calls(L) :
        {d \in Calls(M) : Sooner(M, order, d, x)} = {d \in Calls(L) : Sooner(L, order, d, x)}
  BY <1>3, <1>4, <1>7
<1>9. SUFFICES ASSUME B # {} PROVE FALSE
  BY DEF child, after
<1>10. PICK x \in B : \A d \in B \ {x} : Sooner(L, order, x, d)
  <2>1. B \in SUBSET Positions(L)
    BY <1>3
  <2> HIDE DEF B
  <2> QED BY <1>9, <2>1, FirstIs
<1> DEFINE before == {d \in Calls(L) : Sooner(L, order, d, x)}
           taken  == Taken(L, order, claimed, x)
           taken2 == Taken(M, order, claimed, x)
           free   == Free(L, x, taken)
           free2  == Free(M, x, taken2)
<1>11. x \in Calls(L) /\ x \in Calls(M) /\ ~Stays(x)
  BY <1>3, <1>10
<1>12. \A d \in before : d \in Calls(L) /\ Stays(d)
  <2>1. \A d \in B : d \in Positions(L) /\ x \in Positions(L)
    BY <1>3
  <2>2. \A d \in B : ~Sooner(L, order, d, x)
    BY <1>10, <2>1, SoonerOrders
  <2> QED BY <2>2
<1>13. /\ taken = claimed \cup {child[d] : d \in before}
       /\ taken2 = claimed \cup {after[d] : d \in before}
  BY <1>8, <1>11 DEF Taken, child, after
<1>14. /\ free = {p \in Starts(L) : Fits(L, x, p) /\ p[1] \notin taken}
       /\ free2 = {p \in Starts(M) : Fits(M, x, p) /\ p[1] \notin taken2}
  BY DEF Free
<1>15. /\ child[x] # None <=> free # {}
       /\ child[x] # None => \E p \in free : p[1] = child[x] /\ \A q \in free \ {p} : Sooner(L, order, p, q)
       /\ after[x] # None <=> free2 # {}
       /\ after[x] # None => \E p \in free2 : p[1] = after[x] /\ \A q \in free2 \ {p} : Sooner(M, order, p, q)
  BY <1>11, CallTakes DEF child, after
<1>16. ASSUME free2 = free PROVE FALSE
  <2>1. free \subseteq Positions(L) /\ free \subseteq Positions(M)
    BY <1>1, <1>3, <1>14
  <2>2. CASE free = {}
    BY <1>11, <1>15, <1>16, <2>2
  <2>3. CASE free # {}
    <3>1. PICK p \in free : p[1] = child[x] /\ \A q \in free \ {p} : Sooner(L, order, p, q)
      BY <1>15, <2>3
    <3>2. PICK q \in free : q[1] = after[x] /\ \A r \in free \ {q} : Sooner(L, order, q, r)
      BY <1>4, <1>15, <1>16, <2>1, <2>3
    <3>3. p = q
      BY <2>1, <3>1, <3>2, SoonerOrders
    <3> QED BY <1>11, <3>1, <3>2, <3>3
  <2> QED BY <2>2, <2>3
<1>17. CASE \A d \in before : after[d] = child[d]
  <2>1. taken2 = taken
    BY <1>13, <1>17
  <2>2. free2 \ {n} = free
    BY <1>3, <1>5, <1>11, <1>14, <2>1
  <2>3. n \in free2 /\ n \in Starts(M) /\ Fits(M, x, n)
    BY <1>14, <1>16, <2>2
  <2>4. CASE free = {}
    <3>1. free2 = {n}
      BY <2>2, <2>3, <2>4
    <3>2. child[x] = None /\ after[x] = n[1]
      BY <1>15, <2>4, <3>1
    <3> QED BY <1>11, <2>3, <3>2
  <2>5. CASE free # {}
    <3>1. PICK p \in free : p[1] = child[x] /\ \A q \in free \ {p} : Sooner(L, order, p, q)
      BY <1>15, <2>5
    <3>2. PICK q \in free2 : q[1] = after[x] /\ \A r \in free2 \ {q} : Sooner(M, order, q, r)
      BY <1>15, <2>3
    <3>3. p \in free2 /\ p \in Positions(L) /\ p \in Positions(M) /\ n \in Positions(M) /\ p # n
      BY <1>1, <1>3, <1>14, <2>2
    <3>4. q # n
      <4> SUFFICES ASSUME q = n PROVE FALSE
        OBVIOUS
      <4>1. Sooner(M, order, n, p)
        BY <3>2, <3>3
      <4>2. ms(n) <= ms(p)
        BY <3>3, <4>1, SoonerOrders DEF ms
      <4>3. p \in Starts(M) /\ ms(p) < ms(n)
        BY <1>1, <1>14, <2>3, <3>3
      <4> QED BY <1>2, <3>3, <4>2, <4>3
    <3>5. q \in free /\ q \in Positions(L)
      BY <1>3, <1>14, <2>2, <3>2, <3>4
    <3>6. q # p => Sooner(L, order, q, p) /\ Sooner(L, order, p, q)
      BY <1>4, <3>1, <3>2, <3>3, <3>5
    <3>7. q = p
      BY <3>3, <3>5, <3>6, SoonerOrders
    <3> QED BY <1>11, <3>1, <3>2, <3>7
  <2> QED BY <2>4, <2>5
<1>18. CASE \E d \in before : after[d] # child[d]
  <2>1. PICK d \in before : after[d] # child[d]
    BY <1>18
  <2>2. /\ d \in Calls(L) /\ Sooner(L, order, d, x)
        /\ child[d] = None /\ after[d] = n[1] /\ n \in Starts(M) /\ Fits(M, d, n)
    BY <1>12, <2>1
  <2>3. n[1] \in taken2
    BY <1>13, <2>1, <2>2
  <2>4. \A s \in Sessions \ {n[1]} : s \in taken2 <=> s \in taken
    <3>1. \A e \in before : after[e] = child[e] \/ (child[e] = None /\ after[e] = n[1])
      BY <1>12
    <3> QED BY <1>6, <1>13, <3>1
  <2>5. ASSUME NEW p \in free PROVE p[1] # n[1]
    <3> SUFFICES ASSUME p[1] = n[1] PROVE FALSE
      OBVIOUS
    <3>1. p \in Starts(L) /\ Fits(L, x, p) /\ p[1] \notin taken
      BY <1>14
    <3>2. /\ p \in Positions(M) /\ n \in Positions(M) /\ d \in Positions(M) /\ x \in Positions(M)
          /\ d \in Positions(L) /\ x \in Positions(L)
      BY <1>1, <1>3, <1>11, <2>2, <3>1
    <3>3. ms(d) <= ms(x)
      BY <1>4, <2>2, <3>2, SoonerOrders DEF ms
    <3>4. ms(x) <= ms(p)
      BY <1>5, <1>11, <3>1 DEF Fits, ms
    <3>5. ms(p) < ms(n)
      BY <1>1, <1>3, <2>2, <3>1
    <3>6. ms(n) <= ms(d) + Window /\ AgentOf[n[1]] = At(M, d).target
      BY <2>2 DEF Fits, ms
    <3>7. ms(d) \in Nat /\ ms(x) \in Nat /\ ms(p) \in Nat /\ ms(n) \in Nat
      BY <1>2, <3>2
    <3>8. ms(d) <= ms(p) /\ ms(p) <= ms(d) + Window
      BY <1>6, <3>3, <3>4, <3>5, <3>6, <3>7
    <3>9. Fits(M, d, p) /\ Fits(L, d, p)
      <4>1. Fits(M, d, p)
        BY <3>6, <3>8 DEF Fits, ms
      <4> QED BY <1>5, <2>2, <3>1, <4>1
    <3>10. p[1] \notin Taken(L, order, claimed, d)
      <4>1. \A e \in Calls(L) : Sooner(L, order, e, d) => Sooner(L, order, e, x)
        BY <1>3, <2>2, <3>2, SoonerOrders
      <4> QED BY <1>13, <3>1, <4>1 DEF Taken, child
    <3>11. p \in Free(L, d, Taken(L, order, claimed, d))
      BY <3>1, <3>9, <3>10 DEF Free
    <3> QED BY <2>2, <3>11, CallTakes DEF child
  <2>6. \A p \in Starts(M) : p[1] \in Sessions
    BY <1>2, <1>3
  <2>7. free2 \subseteq free
    BY <1>3, <1>5, <1>11, <1>14, <2>3, <2>4, <2>6
  <2>8. free \subseteq free2
    BY <1>3, <1>5, <1>11, <1>14, <2>4, <2>5, <2>6
  <2> QED BY <1>16, <2>7, <2>8
<1> QED BY <1>17, <1>18

(***************************************************************************)
(* Declared handoffs.                                                      *)
(***************************************************************************)
\* A session's start is the earliest of the times its events have.
LEMMA StartIs ==
  ASSUME NEW log \in Log
  PROVE  /\ StartMs(log) \in Nat
         /\ \A i \in DOMAIN log : log[i].ts \in Nat => 1 <= StartMs(log) /\ StartMs(log) <= log[i].ts
         /\ \A i \in DOMAIN log :
              log[i].ts \in Nat /\ (\A j \in DOMAIN log : log[j].ts \in Nat => log[i].ts <= log[j].ts)
                => StartMs(log) = log[i].ts
<1> DEFINE times == {Millis(log[i].ts) : i \in DOMAIN log} \ {0}
<1>1. \A i \in DOMAIN log : /\ Millis(log[i].ts) \in Nat
                            /\ log[i].ts \in Nat => Millis(log[i].ts) = log[i].ts /\ log[i].ts >= 1
                            /\ log[i].ts \notin Nat => Millis(log[i].ts) = 0
  BY LogType, TimesAre
<1>2. times \in SUBSET Nat /\ \A t \in times : t \in Nat /\ t >= 1
  BY <1>1
<1>3. StartMs(log) = IF times = {} THEN 0 ELSE CHOOSE t \in times : \A u \in times : t <= u
  BY DEF StartMs
<1>4. \A i \in DOMAIN log : log[i].ts \in Nat => log[i].ts \in times
  BY <1>1
<1>5. \A t \in times : \E i \in DOMAIN log : log[i].ts \in Nat /\ log[i].ts = t
  BY <1>1
<1> HIDE DEF times
<1>6. times # {} => StartMs(log) \in times /\ \A u \in times : StartMs(log) <= u
  <2>1. times # {} => \E t \in times : \A u \in times : t <= u
    BY <1>2, LeastNat
  <2> QED BY <1>3, <2>1
<1>7. StartMs(log) \in Nat
  <2>1. CASE times = {}
    BY <1>3, <2>1
  <2>2. CASE times # {}
    BY <1>2, <1>6, <2>2
  <2> QED BY <2>1, <2>2
<1>8. \A i \in DOMAIN log : log[i].ts \in Nat => 1 <= StartMs(log) /\ StartMs(log) <= log[i].ts
  <2> SUFFICES ASSUME NEW i \in DOMAIN log, log[i].ts \in Nat
               PROVE  1 <= StartMs(log) /\ StartMs(log) <= log[i].ts
    OBVIOUS
  <2>1. log[i].ts \in times /\ times # {}
    BY <1>4
  <2> QED BY <1>2, <1>6, <2>1
<1>9. ASSUME NEW i \in DOMAIN log, log[i].ts \in Nat,
             \A j \in DOMAIN log : log[j].ts \in Nat => log[i].ts <= log[j].ts
      PROVE  StartMs(log) = log[i].ts
  <2>1. log[i].ts \in times
    BY <1>4, <1>9
  <2>2. StartMs(log) \in times /\ StartMs(log) <= log[i].ts
    BY <1>6, <2>1
  <2>3. PICK j \in DOMAIN log : log[j].ts \in Nat /\ log[j].ts = StartMs(log)
    BY <1>5, <2>2
  <2>4. log[i].ts <= StartMs(log)
    BY <1>9, <2>3
  <2> QED BY <1>7, <1>9, <2>2, <2>4
<1> QED BY <1>7, <1>8, <1>9

\* The sessions of a key are sorted in a strict total order.
LEMMA EarlierOrders ==
  ASSUME NEW L \in Logs, NEW order \in Orders, NEW s \in Sessions, NEW t \in Sessions
  PROVE  /\ s # t => Earlier(L, order, s, t) \/ Earlier(L, order, t, s)
         /\ Earlier(L, order, s, t) => ~Earlier(L, order, t, s)
         /\ Earlier(L, order, s, t) => StartMs(L[s]) <= StartMs(L[t])
         /\ \A x \in Sessions :
              Earlier(L, order, s, t) /\ Earlier(L, order, t, x) => Earlier(L, order, s, x)
<1>1. \A x \in Sessions : StartMs(L[x]) \in Nat /\ order[x] \in Int
  BY StartIs DEF Logs, Orders
<1>2. \A x, y \in Sessions : order[x] = order[y] => x = y
  BY DEF Orders, IsInjective
<1>3. s # t => Earlier(L, order, s, t) \/ Earlier(L, order, t, s)
  BY <1>1, <1>2 DEF Earlier
<1>4. Earlier(L, order, s, t) => ~Earlier(L, order, t, s)
  BY <1>1 DEF Earlier
<1>5. Earlier(L, order, s, t) => StartMs(L[s]) <= StartMs(L[t])
  BY <1>1 DEF Earlier
<1>6. ASSUME NEW x \in Sessions, Earlier(L, order, s, t), Earlier(L, order, t, x)
      PROVE  Earlier(L, order, s, x)
  BY <1>1, <1>6 DEF Earlier
<1> QED BY <1>3, <1>4, <1>5, <1>6

\* Of some sessions one is the newest and one the oldest, and no other is.
LEMMA NewestIs ==
  ASSUME NEW L \in Logs, NEW order \in Orders, NEW S \in SUBSET Sessions, S # {}
  PROVE  /\ Newest(L, order, S) \in S
         /\ \A t \in S \ {Newest(L, order, S)} : Earlier(L, order, t, Newest(L, order, S))
         /\ Oldest(L, order, S) \in S
         /\ \A t \in S \ {Oldest(L, order, S)} : Earlier(L, order, Oldest(L, order, S), t)
         /\ \A s \in S : (\A t \in S \ {s} : Earlier(L, order, t, s)) => Newest(L, order, S) = s
         /\ \A s \in S : (\A t \in S \ {s} : Earlier(L, order, s, t)) => Oldest(L, order, S) = s
<1> DEFINE R == {p \in S \X S : Earlier(L, order, p[1], p[2])}
<1>1. \A s, t \in S : <<s, t>> \in R <=> Earlier(L, order, s, t)
  OBVIOUS
<1>2. IsFiniteSet(S)
  BY FleetAssumption, FS_Subset
<1> HIDE DEF R
<1>3. \A s, t \in S : s # t => <<s, t>> \in R \/ <<t, s>> \in R
  BY <1>1, EarlierOrders
<1>4. \A s, t \in S : <<s, t>> \in R => <<t, s>> \notin R
  BY <1>1, EarlierOrders
<1>5. \A s, t, x \in S : <<s, t>> \in R /\ <<t, x>> \in R => <<s, x>> \in R
  BY <1>1, EarlierOrders
<1>6. \E s \in S : \A t \in S \ {s} : Earlier(L, order, s, t)
  <2>1. \E s \in S : \A t \in S \ {s} : <<s, t>> \in R
    BY <1>2, <1>3, <1>4, <1>5, LeastOf
  <2> QED BY <1>1, <2>1
<1>7. \E s \in S : \A t \in S \ {s} : Earlier(L, order, t, s)
  <2>1. \E s \in S : \A t \in S \ {s} : <<t, s>> \in R
    BY <1>2, <1>3, <1>4, <1>5, GreatestOf
  <2> QED BY <1>1, <2>1
<1>8. /\ Newest(L, order, S) \in S
      /\ \A t \in S \ {Newest(L, order, S)} : Earlier(L, order, t, Newest(L, order, S))
  BY <1>7 DEF Newest
<1>9. /\ Oldest(L, order, S) \in S
      /\ \A t \in S \ {Oldest(L, order, S)} : Earlier(L, order, Oldest(L, order, S), t)
  BY <1>6 DEF Oldest
<1>10. \A s, t \in S : Earlier(L, order, s, t) => ~Earlier(L, order, t, s)
  BY EarlierOrders
<1> QED BY <1>8, <1>9, <1>10

\* A message comes from one session, whichever log and order tell which came earlier.
LEMMA SameSource ==
  ASSUME NEW L \in Logs, NEW M \in Logs, NEW o \in Orders, NEW u \in Orders, NEW key, NEW ms,
         ByKey(L, key) = ByKey(M, key),
         \A s \in ByKey(L, key) : StartMs(L[s]) = StartMs(M[s]),
         \A s, t \in ByKey(L, key) : s # t => (Earlier(L, o, s, t) <=> Earlier(M, u, s, t))
  PROVE  ResolveSource(L, o, key, ms) = ResolveSource(M, u, key, ms)
<1> DEFINE found      == ByKey(L, key)
           started(N) == {s \in found : StartMs(N[s]) <= ms \/ ms = 0}
<1>1. found \subseteq Sessions
  BY DEF ByKey
<1>2. ASSUME NEW S \in SUBSET found, S # {}
      PROVE  Newest(L, o, S) = Newest(M, u, S) /\ Oldest(L, o, S) = Oldest(M, u, S)
  <2> HIDE DEF found
  <2>1. S \in SUBSET Sessions
    BY <1>1
  <2>2. /\ Newest(L, o, S) \in S
        /\ \A t \in S \ {Newest(L, o, S)} : Earlier(L, o, t, Newest(L, o, S))
        /\ Oldest(L, o, S) \in S
        /\ \A t \in S \ {Oldest(L, o, S)} : Earlier(L, o, Oldest(L, o, S), t)
    BY <1>2, <2>1, NewestIs
  <2>3. \A t \in S \ {Newest(L, o, S)} : Earlier(M, u, t, Newest(L, o, S))
    BY <1>2, <2>2 DEF found
  <2>4. \A t \in S \ {Oldest(L, o, S)} : Earlier(M, u, Oldest(L, o, S), t)
    BY <1>2, <2>2 DEF found
  <2> QED BY <2>1, <2>2, <2>3, <2>4, NewestIs
<1>3. started(L) = started(M) /\ started(L) \subseteq found
  OBVIOUS
<1>4. /\ ResolveSource(L, o, key, ms) = IF started(L) # {} THEN Newest(L, o, started(L))
                                        ELSE IF found # {} THEN Oldest(L, o, found) ELSE KeyId[key]
      /\ ResolveSource(M, u, key, ms) = IF started(M) # {} THEN Newest(M, u, started(M))
                                        ELSE IF found # {} THEN Oldest(M, u, found) ELSE KeyId[key]
  BY DEF ResolveSource
<1> HIDE DEF found, started
<1> QED BY <1>2, <1>3, <1>4

\* The edge of a message.
Sent(L, order, p) ==
  [fromAgent |-> KeyAgent[At(L, p).source],
   fromSession |-> ResolveSource(L, order, At(L, p).source, Millis(At(L, p).ts)),
   fromRun |-> None, to |-> p[1], ts |-> At(L, p).ts, declared |-> TRUE]

\* Every message has its edge: that of the first message it counts as one with.
LEMMA DeclaredAre ==
  ASSUME NEW L \in Logs, NEW order \in Orders
  PROVE  DeclaredHandoffs(L, order)
           = {Sent(L, order, p) : p \in {p \in Positions(L) : IsMessage(L, order, p)}}
<1> DEFINE messages == {p \in Positions(L) : IsMessage(L, order, p)}
           firsts   == {p \in messages : \A q \in messages :
                          Found(order, q, p) => ~SameMessage(L, q, p)}
<1>1. DeclaredHandoffs(L, order) = {Sent(L, order, p) : p \in firsts}
  BY DEF DeclaredHandoffs, Sent
<1>2. messages \subseteq Positions(L) /\ firsts \subseteq messages
  OBVIOUS
<1>3. \A p, q \in messages : SameMessage(L, p, q) => Sent(L, order, p) = Sent(L, order, q)
  BY DEF SameMessage, Sent
<1>4. ASSUME NEW p \in messages PROVE \E q \in firsts : SameMessage(L, q, p)
  <2> DEFINE S == {q \in messages : SameMessage(L, q, p)}
             R == {x \in S \X S : Found(order, x[1], x[2])}
  <2>1. S \subseteq messages /\ p \in S
    BY DEF SameMessage
  <2>2. IsFiniteSet(S) /\ S \subseteq Positions(L)
    <3> HIDE DEF S, messages
    <3> QED BY <1>2, <2>1, PositionsFinite, FS_Subset
  <2>3. \A x, y \in S : <<x, y>> \in R <=> Found(order, x, y)
    OBVIOUS
  <2>4. PICK q \in S : \A x \in S \ {q} : <<q, x>> \in R
    <3> HIDE DEF S, R
    <3>1. \A x, y \in S : x # y => <<x, y>> \in R \/ <<y, x>> \in R
      BY <2>2, <2>3, FoundOrders
    <3>2. \A x, y \in S : <<x, y>> \in R => <<y, x>> \notin R
      BY <2>2, <2>3, FoundOrders
    <3>3. \A x, y, z \in S : <<x, y>> \in R /\ <<y, z>> \in R => <<x, z>> \in R
      BY <2>2, <2>3, FoundOrders
    <3> QED BY <2>1, <2>2, <3>1, <3>2, <3>3, LeastOf
  <2>5. \A x \in S : ~Found(order, x, q)
    <3> HIDE DEF S, R
    <3> QED BY <2>2, <2>3, <2>4, FoundOrders
  <2>6. SameMessage(L, q, p) /\ q \in messages
    OBVIOUS
  <2>7. \A x \in messages : SameMessage(L, x, q) => x \in S
    BY <2>6 DEF SameMessage
  <2> QED BY <2>5, <2>6, <2>7
<1> HIDE DEF messages, firsts
<1>5. {Sent(L, order, p) : p \in firsts} = {Sent(L, order, p) : p \in messages}
  <2>1. \A p \in messages : \E q \in firsts : Sent(L, order, p) = Sent(L, order, q)
    BY <1>2, <1>3, <1>4
  <2> QED BY <1>2, <2>1
<1> QED BY <1>1, <1>5 DEF messages

\* Logs with the same prompts from the same sessions declare the same handoffs.
LEMMA SameDeclared ==
  ASSUME NEW L \in Logs, NEW M \in Logs, NEW o \in Orders, NEW u \in Orders,
         \A key \in Keys, ms \in Nat : ResolveSource(L, o, key, ms) = ResolveSource(M, u, key, ms),
         \A p : /\ p \in Positions(L) /\ At(L, p).type = "prompt.submitted"
                     <=> p \in Positions(M) /\ At(M, p).type = "prompt.submitted"
                /\ p \in Positions(L) /\ p \in Positions(M) => At(L, p) = At(M, p)
  PROVE  DeclaredHandoffs(L, o) = DeclaredHandoffs(M, u)
<1> DEFINE messages(N, order) == {p \in Positions(N) : IsMessage(N, order, p)}
<1>1. ASSUME NEW p, p \in Positions(L), p \in Positions(M), At(L, p).source # None
      PROVE  /\ At(L, p) = At(M, p)
             /\ ResolveSource(L, o, At(L, p).source, Millis(At(L, p).ts))
                  = ResolveSource(M, u, At(M, p).source, Millis(At(M, p).ts))
  <2>1. At(L, p) = At(M, p) /\ At(L, p) \in Event /\ Millis(At(L, p).ts) \in Nat
    BY <1>1, PositionType
  <2>2. At(L, p).source \in Keys
    BY <1>1, <2>1 DEF Event
  <2> QED BY <2>1, <2>2
<1>2. \A p : p \in messages(L, o) => p \in Positions(L) /\ p \in Positions(M) /\ At(L, p).source # None
  BY DEF IsMessage
<1>3. \A p : p \in messages(M, u) => p \in Positions(L) /\ p \in Positions(M) /\ At(L, p).source # None
  BY DEF IsMessage
<1>4. \A p : p \in messages(L, o) <=> p \in messages(M, u)
  BY <1>1, <1>2, <1>3 DEF IsMessage
<1>5. \A p \in messages(L, o) : Sent(L, o, p) = Sent(M, u, p)
  BY <1>1, <1>2 DEF Sent
<1>6. DeclaredHandoffs(L, o) = {Sent(L, o, p) : p \in messages(L, o)}
  BY DeclaredAre
<1>7. DeclaredHandoffs(M, u) = {Sent(M, u, p) : p \in messages(M, u)}
  BY DeclaredAre
<1> HIDE DEF messages
<1>8. messages(L, o) = messages(M, u)
  BY <1>4
<1> QED BY <1>5, <1>6, <1>7, <1>8

(***************************************************************************)
(* What the console shows.                                                 *)
(***************************************************************************)
\* A scan has the files as they are, or not at all.
LEMMA SeenIs ==
  ASSUME FleetInv
  PROVE  /\ Seen \in [Sessions -> Seq(Event)]
         /\ \A s \in Sessions : \A i \in DOMAIN Seen[s] :
              Seen[s][i].ts \in Nat => Seen[s][i].ts <= clock
         /\ \A s \in Sessions : Seen[s] # <<>> =>
              Seen[s][1].type = "session.started" /\ Seen[s][1].ts \in Nat
<1>1. <<>> \in Seq(Event) /\ DOMAIN <<>> = {}
  OBVIOUS
<1>2. \A s \in Sessions : Seen[s] = IF s \in shown THEN logs[s] ELSE <<>>
  BY DEF Seen
<1>3. Seen \in [Sessions -> Seq(Event)]
  BY <1>1 DEF Seen, FleetInv, TypeOK
<1> QED
  BY <1>1, <1>2, <1>3 DEF FleetInv, NothingAhead, BeginsWithStart

\* The declared edges are the declared handoffs of the retained events, and the inferred
\* ones are inferred from them.
LEMMA EdgesAre ==
  ASSUME FleetInv
  PROVE  /\ Seen \in Logs /\ Retained(Seen) \in Logs /\ AnyOrder \in Orders
         /\ Declared = DeclaredHandoffs(Retained(Seen), AnyOrder)
         /\ Inferred = InferHandoffs(Retained(Seen), AnyOrder, Claimed)
<1> DEFINE R == Retained(Seen)
           D == DeclaredHandoffs(R, AnyOrder)
           I == InferHandoffs(R, AnyOrder, {e.to : e \in D})
<1>1. Seen \in Logs /\ R \in Logs /\ AnyOrder \in Orders
  BY RetainedAre, ScansAreOrders, SeenIs
<1>2. edges = D \cup I
  BY DEF FleetInv, EdgesAreFound, FindHandoffs
<1>3. \A e \in D : e.declared
  BY DEF DeclaredHandoffs
<1>4. \A e \in I : ~e.declared
  <2>1. \A claimed, c : Spawned(R, AnyOrder, claimed, c).declared = FALSE
    BY DEF Spawned
  <2> QED BY <2>1, InferredAre
<1> HIDE DEF D, I
<1>5. Declared = D /\ Inferred = I
  BY <1>2, <1>3, <1>4 DEF Declared, Inferred
<1>6. Claimed = {e.to : e \in D}
  BY <1>5 DEF Claimed
<1> QED BY <1>1, <1>5, <1>6 DEF D, I

\* And so they are after a step.
LEMMA EdgesAreNext ==
  FleetInv' => Inferred' = InferHandoffs(Retained(Seen'), AnyOrder, Claimed')
<1>1. FleetInv => Inferred = InferHandoffs(Retained(Seen), AnyOrder, Claimed)
  BY EdgesAre
<1>2. (FleetInv => Inferred = InferHandoffs(Retained(Seen), AnyOrder, Claimed))'
  BY <1>1, PTL
<1> QED BY <1>2

\* An edge is inferred from each call of the files that has a child, and from nothing else.
LEMMA InferredEdges ==
  ASSUME FleetInv
  PROVE  LET child == Children(Retained(Seen), AnyOrder, Claimed) IN
         /\ \A e \in Inferred : \E c \in Calls(Seen) :
              /\ child[c] # None /\ e = Spawned(Retained(Seen), AnyOrder, Claimed, c)
              /\ e.fromSession = c[1] /\ e.to = child[c] /\ e.ts = At(Seen, c).ts
         /\ \A c \in Calls(Seen) : child[c] # None =>
              \E e \in Inferred : e.fromSession = c[1] /\ e.to = child[c] /\ e.ts = At(Seen, c).ts
<1> DEFINE R == Retained(Seen)
           edge(c) == Spawned(R, AnyOrder, Claimed, c)
           child == Children(R, AnyOrder, Claimed)
<1>1. Inferred = {edge(c) : c \in {c \in Calls(R) : child[c] # None}}
  BY EdgesAre, InferredAre
<1>2. Calls(R) = Calls(Seen) /\ Calls(R) \subseteq Positions(R)
  BY RetainedPositions, SeenIs DEF Calls
<1>3. \A c \in Calls(Seen) : At(R, c) = At(Seen, c)
  BY <1>2, RetainedPositions, SeenIs
<1>4. \A c \in Calls(Seen) :
        edge(c).fromSession = c[1] /\ edge(c).to = child[c] /\ edge(c).ts = At(Seen, c).ts
  BY <1>3 DEF Spawned
<1> HIDE DEF edge, child
<1>5. \A e \in Inferred : \E c \in Calls(Seen) :
        child[c] # None /\ e = edge(c) /\ e.fromSession = c[1] /\ e.to = child[c] /\ e.ts = At(Seen, c).ts
  BY <1>1, <1>2, <1>4
<1>6. \A c \in Calls(Seen) : child[c] # None =>
        \E e \in Inferred : e.fromSession = c[1] /\ e.to = child[c] /\ e.ts = At(Seen, c).ts
  BY <1>1, <1>2, <1>4
<1> QED BY <1>5, <1>6 DEF edge, child

\* No session has two parents, and no call and session that fit could both do better.
THEOREM StableMatching == Spec => []MatchingIsStable
<1>1. ASSUME FleetInv PROVE MatchingIsStable
  <2> DEFINE R == Retained(Seen)
             child == Children(R, AnyOrder, Claimed)
             ms(p) == Millis(At(Seen, p).ts)
             free(c) == Free(R, c, Taken(R, AnyOrder, Claimed, c))
  <2>1. /\ R \in Logs /\ AnyOrder \in Orders
        /\ Calls(R) = Calls(Seen) /\ Starts(R) = Starts(Seen)
    BY <1>1, EdgesAre, RetainedPositions, SeenIs
  <2>2. \A p \in Calls(Seen) \cup Starts(Seen) : p \in Positions(R) /\ At(R, p) = At(Seen, p)
    <3>1. Calls(R) \subseteq Positions(R) /\ Starts(R) \subseteq Positions(R)
      BY DEF Calls, Starts
    <3> QED BY <1>1, <2>1, <3>1, RetainedPositions, SeenIs
  <2>3. \A c \in Calls(Seen), p \in Starts(Seen) : Fits(R, c, p) <=> Fits(Seen, c, p)
    BY <2>2 DEF Fits
  <2>4. \A e \in Inferred : \E c \in Calls(Seen) :
          child[c] # None /\ e = Spawned(R, AnyOrder, Claimed, c)
            /\ e.to = child[c] /\ e.ts = At(Seen, c).ts /\ e.fromSession = c[1]
    BY <1>1, InferredEdges
  <2>5. \A c \in Calls(Seen) : child[c] # None =>
          \E e \in Inferred : e.fromSession = c[1] /\ e.to = child[c] /\ e.ts = At(Seen, c).ts
    BY <1>1, InferredEdges
  <2>6. ASSUME NEW e \in Inferred, NEW f \in Inferred, e.to = f.to PROVE e = f
    <3>1. PICK c \in Calls(Seen) :
            child[c] # None /\ e = Spawned(R, AnyOrder, Claimed, c) /\ e.to = child[c]
      BY <2>4
    <3>2. PICK d \in Calls(Seen) :
            child[d] # None /\ f = Spawned(R, AnyOrder, Claimed, d) /\ f.to = child[d]
      BY <2>4
    <3>3. c = d
      BY <2>1, <2>6, <3>1, <3>2, OneParent
    <3> QED BY <3>1, <3>2, <3>3
  <2>7. ASSUME NEW e \in Inferred PROVE e.to \notin Claimed
    <3>1. PICK c \in Calls(Seen) : child[c] # None /\ e.to = child[c]
      BY <2>4
    <3>2. child[c] \notin Taken(R, AnyOrder, Claimed, c)
      BY <2>1, <3>1, CallTakes
    <3> QED BY <3>1, <3>2 DEF Taken
  <2>8. ASSUME NEW c \in Calls(Seen), NEW q \in Starts(Seen), Fits(Seen, c, q), q[1] \notin Claimed
        PROVE  \/ \E e \in Inferred : e.to = q[1] /\ Millis(e.ts) <= ms(c)
               \/ \E e \in Inferred, p \in Starts(Seen) :
                    /\ e.fromSession = c[1] /\ e.ts = At(Seen, c).ts
                    /\ e.to = p[1] /\ Fits(Seen, c, p) /\ ms(p) <= ms(q)
    <3>1. q \in Positions(R) /\ q[1] \in Sessions /\ None \notin Sessions /\ q[1] # None
      BY <2>1, <2>2, FleetAssumption, PositionType
    <3>2. CASE q[1] \in Taken(R, AnyOrder, Claimed, c)
      <4>1. PICK d \in Calls(Seen) : Sooner(R, AnyOrder, d, c) /\ child[d] = q[1]
        BY <2>1, <2>8, <3>2 DEF Taken
      <4>2. PICK e \in Inferred : e.to = q[1] /\ e.ts = At(Seen, d).ts
        BY <2>5, <3>1, <4>1
      <4>3. ms(d) <= ms(c)
        BY <2>1, <2>2, <4>1, SoonerOrders
      <4> QED BY <4>2, <4>3
    <3>3. CASE q[1] \notin Taken(R, AnyOrder, Claimed, c)
      <4>1. q \in free(c)
        BY <2>1, <2>3, <2>8, <3>3 DEF Free
      <4>2. PICK p \in free(c) :
              child[c] = p[1] /\ child[c] # None /\ \A x \in free(c) \ {p} : Sooner(R, AnyOrder, p, x)
        BY <2>1, <4>1, CallTakes
      <4>3. p \in Starts(Seen) /\ Fits(Seen, c, p)
        BY <2>1, <2>3, <4>2 DEF Free
      <4>4. ms(p) <= ms(q)
        <5>1. CASE p = q
          <6>1. ms(q) \in Nat
            BY <2>1, <2>2, PositionType
          <6> QED BY <5>1, <6>1
        <5>2. CASE p # q
          BY <2>1, <2>2, <4>1, <4>2, <4>3, <5>2, SoonerOrders
        <5> QED BY <5>1, <5>2
      <4> QED BY <2>5, <4>2, <4>3, <4>4
    <3> QED BY <3>2, <3>3
  <2> HIDE DEF R, child
  <2> QED BY <2>6, <2>7, <2>8 DEF MatchingIsStable
<1> QED BY <1>1, FleetInvariant, PTL

\* Every prompt that another agent's session sent has an edge, from the newest session of
\* its key that had started, and nothing else has.
THEOREM EveryMessageAttributed == Spec => []MessagesAreAttributed
<1>1. ASSUME FleetInv PROVE MessagesAreAttributed
  <2> DEFINE R == Retained(Seen)
             startOf(t) == StartMs(R[t])
  <2>1. /\ Seen \in [Sessions -> Seq(Event)] /\ Seen \in Logs /\ R \in Logs /\ AnyOrder \in Orders
        /\ Declared = {Sent(R, AnyOrder, p) : p \in {p \in Positions(R) : IsMessage(R, AnyOrder, p)}}
    BY <1>1, EdgesAre, DeclaredAre, SeenIs
  <2>2. \A p \in Positions(R) : p \in Positions(Seen) /\ At(R, p) = At(Seen, p)
    BY <2>1, RetainedPositions
  <2>3. \A t \in Sessions : /\ DOMAIN R[t] # {} <=> Seen[t] # <<>>
                            /\ Seen[t] # <<>> => startOf(t) >= 1
                            /\ startOf(t) \in Nat
    <3> SUFFICES ASSUME NEW t \in Sessions
                 PROVE  /\ DOMAIN R[t] # {} <=> Seen[t] # <<>>
                        /\ Seen[t] # <<>> => startOf(t) >= 1
                        /\ startOf(t) \in Nat
      OBVIOUS
    <3>1. R[t] \in Log /\ Seen[t] \in Seq(Event) /\ DOMAIN Seen[t] = 1..Len(Seen[t])
      BY <2>1, SeqIsLog DEF Logs
    <3>2. ASSUME Seen[t] # <<>> PROVE 1 \in DOMAIN R[t] /\ R[t][1].ts \in Nat
      <4>1. 1 \in DOMAIN Seen[t]
        BY <3>1, <3>2
      <4>2. Seen[t][1].type = "session.started" /\ Seen[t][1].ts \in Nat
        BY <1>1, <3>2, SeenIs
      <4> QED BY <2>1, <4>1, <4>2, RetainedAre
    <3>3. ASSUME Seen[t] = <<>> PROVE DOMAIN R[t] = {}
      <4>1. DOMAIN Seen[t] = {}
        BY <3>3
      <4> QED BY <2>1, <4>1, RetainedAre
    <3> QED BY <3>1, <3>2, <3>3, StartIs
  <2>4. ASSUME NEW d \in Declared
        PROVE  \E i \in DOMAIN Seen[d.to] : Seen[d.to][i].ts = d.ts /\ Seen[d.to][i].source # None
    <3>1. PICK p \in Positions(R) : IsMessage(R, AnyOrder, p) /\ d = Sent(R, AnyOrder, p)
      BY <2>1
    <3>2. d.to = p[1] /\ d.ts = At(Seen, p).ts /\ At(Seen, p).source # None
      BY <2>2, <3>1 DEF Sent, IsMessage
    <3>3. p[2] \in DOMAIN Seen[p[1]]
      BY <2>1, <2>2, PositionType
    <3> QED BY <3>2, <3>3 DEF At
  <2>5. ASSUME NEW s \in Sessions, NEW i \in DOMAIN Seen[s],
               Seen[s][i].type = "prompt.submitted", Seen[s][i].source # None,
               KeyAgent[Seen[s][i].source] \in Agents \ {AgentOf[s]}
        PROVE  LET e       == Seen[s][i]
                   started == {t \in Sessions : KeyOf[t] = e.source /\ Seen[t] # <<>>
                                                  /\ startOf(t) <= Millis(e.ts)}
               IN \E d \in Declared :
                    /\ d.to = s /\ d.ts = e.ts /\ d.fromAgent = KeyAgent[e.source]
                    /\ started # {} =>
                         /\ d.fromSession \in started
                         /\ \A t \in started : startOf(t) <= startOf(d.fromSession)
    <3> DEFINE e       == Seen[s][i]
               p       == <<s, i>>
               found   == ByKey(R, e.source)
               known   == {t \in found : startOf(t) <= Millis(e.ts) \/ Millis(e.ts) = 0}
               started == {t \in Sessions : KeyOf[t] = e.source /\ Seen[t] # <<>>
                                              /\ startOf(t) <= Millis(e.ts)}
               source  == ResolveSource(R, AnyOrder, e.source, Millis(e.ts))
    <3>1. p \in Positions(Seen) /\ At(Seen, p) = e
      BY <2>1, PositionsAre
    <3>2. p \in Positions(R) /\ At(R, p) = e
      BY <2>1, <2>2, <2>5, <3>1, RetainedPositions
    <3>3. e.source \in Keys /\ Millis(e.ts) \in Nat
      BY <2>1, <2>5, <3>2, PositionType DEF Event
    <3>4. found = {t \in Sessions : KeyOf[t] = e.source /\ Seen[t] # <<>>}
      BY <2>3 DEF ByKey
    <3>5. known \subseteq found /\ found \subseteq Sessions
      BY <3>4
    <3>6. source = IF known # {} THEN Newest(R, AnyOrder, known)
                   ELSE IF found # {} THEN Oldest(R, AnyOrder, found) ELSE KeyId[e.source]
      BY DEF ResolveSource
    <3>7. started # {} => known = started
      <4> SUFFICES ASSUME NEW x \in started PROVE known = started
        OBVIOUS
      <4>1. 1 <= startOf(x) /\ startOf(x) <= Millis(e.ts)
        BY <2>3
      <4>2. Millis(e.ts) # 0
        BY <2>3, <3>3, <4>1
      <4> QED BY <3>4, <4>2
    <3> HIDE DEF source, known, found, started, e
    <3>8. /\ known # {} => Newest(R, AnyOrder, known) \in known
          /\ found # {} => Oldest(R, AnyOrder, found) \in found
      BY <2>1, <3>5, NewestIs
    <3>9. source # s
      <4>1. \A t \in found : AgentOf[t] # AgentOf[s]
        <5>1. \A t \in found : t \in Sessions /\ KeyAgent[e.source] = AgentOf[t]
          BY <3>4, FleetAssumption
        <5> QED BY <2>5, <5>1 DEF e
      <4>2. KeyId[e.source] # s
        BY <2>5, <3>3, FleetAssumption DEF e
      <4> QED BY <3>5, <3>6, <3>8, <4>1, <4>2
    <3>10. IsMessage(R, AnyOrder, p)
      BY <2>5, <3>2, <3>9 DEF IsMessage, e, source
    <3> DEFINE d == Sent(R, AnyOrder, p)
    <3>11. d \in Declared
      BY <2>1, <3>2, <3>10
    <3>12. d.to = s /\ d.ts = e.ts /\ d.fromAgent = KeyAgent[e.source] /\ d.fromSession = source
      BY <3>2 DEF Sent, source
    <3> HIDE DEF d
    <3>13. ASSUME started # {}
           PROVE  source \in started /\ \A t \in started : startOf(t) <= startOf(source)
      <4>1. source \in started /\ source = Newest(R, AnyOrder, started)
        BY <3>6, <3>7, <3>8, <3>13
      <4>2. started \in SUBSET Sessions
        BY <3>5, <3>7, <3>13
      <4>3. \A t \in started \ {source} : Earlier(R, AnyOrder, t, source)
        BY <2>1, <3>13, <4>1, <4>2, NewestIs
      <4>4. \A t \in started \ {source} : startOf(t) <= startOf(source)
        BY <2>1, <4>1, <4>2, <4>3, EarlierOrders
      <4>5. startOf(source) <= startOf(source)
        <5>1. source \in Sessions
          BY <4>1, <4>2
        <5>2. startOf(source) \in Nat
          BY <2>3, <5>1
        <5> QED BY <5>2
      <4> QED BY <4>1, <4>4, <4>5
    <3> QED BY <3>11, <3>12, <3>13 DEF started, e
  <2> QED BY <2>4, <2>5 DEF MessagesAreAttributed
<1> QED BY <1>1, FleetInvariant, PTL

\* Edges found on two Seen, or in two orders, are the same if nothing that they depend on
\* tells the Seen and the orders apart.
LEMMA SameHandoffs ==
  ASSUME NEW L, NEW o, NEW M, NEW u,
         DeclaredHandoffs(L, o) = DeclaredHandoffs(M, u),
         \A claimed : InferHandoffs(L, o, claimed) = InferHandoffs(M, u, claimed)
  PROVE  FindHandoffs(L, o) = FindHandoffs(M, u)
BY DEF FindHandoffs

\* The calls and the starts of all events are those of the retained ones.
LEMMA RetentionKeepsInferred ==
  ASSUME NEW L \in [Sessions -> Seq(Event)], NEW order \in Orders, NEW claimed
  PROVE  InferHandoffs(Retained(L), order, claimed) = InferHandoffs(L, order, claimed)
<1> DEFINE R == Retained(L)
<1>1. L \in Logs /\ R \in Logs
  BY RetainedAre
<1>2. Calls(R) = Calls(L) /\ Starts(R) = Starts(L)
  BY RetainedPositions
<1>3. Calls(R) \subseteq Positions(R) /\ Starts(R) \subseteq Positions(R)
  BY DEF Calls, Starts
<1>4. \A p \in Calls(R) \cup Starts(R) : At(R, p) = At(L, p)
  BY <1>3, RetainedPositions
<1> HIDE DEF R
<1>5. /\ \A c, d \in Calls(R) : Sooner(R, order, c, d) <=> Sooner(L, order, c, d)
      /\ \A p, q \in Starts(R) : Sooner(R, order, p, q) <=> Sooner(L, order, p, q)
  BY <1>4 DEF Sooner
<1>6. InferHandoffs(R, order, claimed) = InferHandoffs(L, order, claimed)
  BY <1>1, <1>2, <1>4, <1>5, SameInferred
<1> QED BY <1>6 DEF R

\* If no event is stamped before its session started, a session starts with its first
\* event, which is retained, and so are the calls, the starts and the prompts.
THEOREM RetentionIsEnough == Spec => []RetentionKeepsEdges
<1>1. ASSUME FleetInv, InTime PROVE edges = FindHandoffs(Seen, AnyOrder)
  <2> DEFINE R == Retained(Seen)
  <2>1. Seen \in [Sessions -> Seq(Event)] /\ Seen \in Logs /\ R \in Logs /\ AnyOrder \in Orders
    BY <1>1, EdgesAre, SeenIs
  <2>2. ASSUME NEW s \in Sessions
        PROVE  /\ DOMAIN R[s] = {} <=> DOMAIN Seen[s] = {}
               /\ StartMs(R[s]) = StartMs(Seen[s])
    <3>1. /\ R[s] \in Log /\ Seen[s] \in Log
          /\ Seen[s] \in Seq(Event) /\ DOMAIN Seen[s] = 1..Len(Seen[s])
      BY <2>1, SeqIsLog DEF Logs
    <3>2. /\ \A i \in DOMAIN R[s] : i \in DOMAIN Seen[s] /\ R[s][i] = Seen[s][i]
          /\ \A i \in DOMAIN Seen[s] : Seen[s][i].type = "session.started" => i \in DOMAIN R[s]
      BY <2>1, RetainedAre
    <3>3. CASE Seen[s] = <<>>
      <4>1. DOMAIN Seen[s] = {} /\ DOMAIN R[s] = {}
        BY <3>2, <3>3
      <4>2. StartMs(R[s]) = 0 /\ StartMs(Seen[s]) = 0
        BY <4>1 DEF StartMs
      <4> QED BY <4>1, <4>2
    <3>4. CASE Seen[s] # <<>>
      <4>1. 1 \in DOMAIN Seen[s]
        BY <3>1, <3>4
      <4>2. Seen[s][1].type = "session.started" /\ Seen[s][1].ts \in Nat
        BY <1>1, <3>4, SeenIs
      <4>3. 1 \in DOMAIN R[s] /\ R[s][1] = Seen[s][1]
        BY <3>2, <4>1, <4>2
      <4>4. \A i \in DOMAIN Seen[s] : Seen[s][i].ts \in Nat => Seen[s][1].ts <= Seen[s][i].ts
        BY <1>1 DEF InTime
      <4>5. StartMs(Seen[s]) = Seen[s][1].ts
        BY <3>1, <4>1, <4>2, <4>4, StartIs
      <4>6. \A i \in DOMAIN R[s] : R[s][i].ts \in Nat => R[s][1].ts <= R[s][i].ts
        BY <3>2, <4>3, <4>4
      <4>7. StartMs(R[s]) = R[s][1].ts
        BY <3>1, <4>2, <4>3, <4>6, StartIs
      <4> QED BY <4>1, <4>3, <4>5, <4>7
    <3> QED BY <3>3, <3>4
  <2>3. \A key \in Keys, ms \in Nat :
          ResolveSource(R, AnyOrder, key, ms) = ResolveSource(Seen, AnyOrder, key, ms)
    <3> SUFFICES ASSUME NEW key \in Keys, NEW ms \in Nat
                 PROVE  ResolveSource(R, AnyOrder, key, ms) = ResolveSource(Seen, AnyOrder, key, ms)
      OBVIOUS
    <3> HIDE DEF R
    <3>1. ByKey(R, key) = ByKey(Seen, key) /\ ByKey(R, key) \subseteq Sessions
      BY <2>2 DEF ByKey
    <3>2. \A s, t \in ByKey(R, key) : Earlier(R, AnyOrder, s, t) <=> Earlier(Seen, AnyOrder, s, t)
      BY <2>2, <3>1 DEF Earlier
    <3>3. \A s \in ByKey(R, key) : StartMs(R[s]) = StartMs(Seen[s])
      BY <2>2, <3>1
    <3> QED BY <2>1, <3>1, <3>2, <3>3, SameSource
  <2>4. \A p : /\ p \in Positions(R) /\ At(R, p).type = "prompt.submitted"
                    <=> p \in Positions(Seen) /\ At(Seen, p).type = "prompt.submitted"
               /\ p \in Positions(R) /\ p \in Positions(Seen) => At(R, p) = At(Seen, p)
    BY <2>1, RetainedPositions
  <2>5. DeclaredHandoffs(R, AnyOrder) = DeclaredHandoffs(Seen, AnyOrder)
    <3> HIDE DEF R
    <3> QED BY <2>1, <2>3, <2>4, SameDeclared
  <2>6. \A claimed : InferHandoffs(R, AnyOrder, claimed) = InferHandoffs(Seen, AnyOrder, claimed)
    BY <2>1, RetentionKeepsInferred
  <2>7. FindHandoffs(R, AnyOrder) = FindHandoffs(Seen, AnyOrder)
    BY <2>5, <2>6, SameHandoffs
  <2> QED BY <1>1, <2>7 DEF FleetInv, EdgesAreFound
<1>2. FleetInv => RetentionKeepsEdges
  BY <1>1 DEF RetentionKeepsEdges
<1> QED BY <1>2, FleetInvariant, PTL

\* Two scans find the same edges, in whatever orders they go through the agents, unless two
\* calls, two starts or two sessions of a key have the same time.
LEMMA AnyOrderWillDo ==
  ASSUME FleetInv, Untied, UntiedKeys, NEW o \in Orders, NEW u \in Orders
  PROVE  FindHandoffs(Retained(Seen), o) = FindHandoffs(Retained(Seen), u)
<1> DEFINE R == Retained(Seen)
<1>1. Seen \in [Sessions -> Seq(Event)] /\ R \in Logs
  BY EdgesAre, SeenIs
<1>2. /\ Calls(R) = Calls(Seen) /\ Starts(R) = Starts(Seen)
      /\ \A p \in Positions(R) : At(R, p) = At(Seen, p)
  BY <1>1, RetainedPositions
<1>3. Calls(R) \subseteq Positions(R) /\ Starts(R) \subseteq Positions(R)
  BY DEF Calls, Starts
<1>4. \A s \in Sessions : DOMAIN R[s] # {} => Seen[s] # <<>>
  <2> SUFFICES ASSUME NEW s \in Sessions, Seen[s] = <<>> PROVE DOMAIN R[s] = {}
    OBVIOUS
  <2>1. DOMAIN Seen[s] = {}
    OBVIOUS
  <2> QED BY <1>1, <2>1, RetainedAre
<1>5. ASSUME NEW P, P = Calls(R) \/ P = Starts(R)
      PROVE  \A p, q \in P : Sooner(R, o, p, q) <=> Sooner(R, u, p, q)
  <2> SUFFICES ASSUME NEW p \in P, NEW q \in P PROVE Sooner(R, o, p, q) <=> Sooner(R, u, p, q)
    OBVIOUS
  <2>1. p \in Positions(R) /\ q \in Positions(R)
    BY <1>3, <1>5
  <2>2. CASE p = q
    BY <1>1, <2>1, <2>2, SoonerOrders
  <2>3. CASE p # q
    <3>1. Millis(At(Seen, p).ts) # Millis(At(Seen, q).ts)
      BY <1>2, <1>5, <2>3 DEF Untied
    <3>2. Millis(At(R, p).ts) # Millis(At(R, q).ts)
      BY <1>2, <2>1, <3>1
    <3> QED BY <3>2 DEF Sooner
  <2> QED BY <2>2, <2>3
<1>6. \A claimed : InferHandoffs(R, o, claimed) = InferHandoffs(R, u, claimed)
  <2> HIDE DEF R
  <2> QED BY <1>1, <1>5, SameInferred
<1>7. \A key \in Keys, ms \in Nat : ResolveSource(R, o, key, ms) = ResolveSource(R, u, key, ms)
  <2> SUFFICES ASSUME NEW key \in Keys, NEW ms \in Nat
               PROVE  ResolveSource(R, o, key, ms) = ResolveSource(R, u, key, ms)
    OBVIOUS
  <2>1. \A s, t \in ByKey(R, key) : s # t => (Earlier(R, o, s, t) <=> Earlier(R, u, s, t))
    <3> SUFFICES ASSUME NEW s \in ByKey(R, key), NEW t \in ByKey(R, key), s # t
                 PROVE  Earlier(R, o, s, t) <=> Earlier(R, u, s, t)
      OBVIOUS
    <3>1. /\ s \in Sessions /\ t \in Sessions /\ KeyOf[s] = KeyOf[t]
          /\ Seen[s] # <<>> /\ Seen[t] # <<>>
      BY <1>4 DEF ByKey
    <3>2. StartMs(R[s]) # StartMs(R[t])
      BY <3>1 DEF UntiedKeys
    <3> QED BY <3>2 DEF Earlier
  <2> HIDE DEF R
  <2> QED BY <1>1, <2>1, SameSource
<1>8. DeclaredHandoffs(R, o) = DeclaredHandoffs(R, u)
  <2> HIDE DEF R
  <2> QED BY <1>1, <1>7, SameDeclared
<1>9. FindHandoffs(R, o) = FindHandoffs(R, u)
  BY <1>6, <1>8, SameHandoffs
<1> QED BY <1>9

\* So no order that the agents may be scanned in shows other edges.
THEOREM NoOrderMatters ==
  Spec => [](Untied /\ UntiedKeys => \A order \in Orders : edges = FindHandoffs(Retained(Seen), order))
<1>1. FleetInv =>
        (Untied /\ UntiedKeys => \A order \in Orders : edges = FindHandoffs(Retained(Seen), order))
  BY AnyOrderWillDo, ScansAreOrders DEF FleetInv, EdgesAreFound
<1> QED BY <1>1, FleetInvariant, PTL

\* Nor does the one turned around.
THEOREM OrderDoesNotMatter == Spec => []OrderIndependent
<1>1. (Untied /\ UntiedKeys => \A order \in Orders : edges = FindHandoffs(Retained(Seen), order))
        => OrderIndependent
  BY ScansAreOrders DEF OrderIndependent
<1> QED BY <1>1, NoOrderMatters, PTL

\* An inferred edge stays when a call or a session comes later: the new session can only
\* have what every earlier call has left, the new call what they have not taken.
THEOREM EdgesStay == Spec => EdgesOnlyGrow
<1>1. ASSUME FleetInv, [Next]_vars, shown' = shown, Claimed' = Claimed, Untied', OnTime
      PROVE  Inferred \subseteq Inferred'
  <2>1. CASE \E s \in Sessions : Write(s)
    <3>1. PICK s \in Sessions : Write(s)
      BY <2>1
    <3>0. PICK e \in Event :
            /\ logs' = [logs EXCEPT ![s] = Append(logs[s], e)] /\ shown' = shown
            /\ edges' = FindHandoffs(Retained(Seen'), AnyOrder)
      BY <1>1, <3>1, WriteIs
    <3> SUFFICES ASSUME s \in shown PROVE Inferred \subseteq Inferred'
      <4>1. ASSUME s \notin shown PROVE Seen' = Seen
        BY <3>0, <4>1 DEF Seen, FleetInv, TypeOK
      <4>2. ASSUME s \notin shown PROVE edges' = edges
        BY <1>1, <3>0, <4>1, <4>2 DEF FleetInv, EdgesAreFound
      <4> QED BY <4>2 DEF Inferred, Declared
    <3>2. /\ Seen' = [Seen EXCEPT ![s] = Append(Seen[s], e)]
          /\ edges' = FindHandoffs(Retained(Seen'), AnyOrder)
      <4>1. logs \in [Sessions -> Seq(Event)]
        BY <1>1 DEF FleetInv, TypeOK
      <4> QED BY <3>0, <4>1 DEF Seen
    <3> DEFINE n == <<s, Len(Seen[s]) + 1>>
               L == Seen
               M == Seen'
    <3>3. /\ L \in [Sessions -> Seq(Event)] /\ M \in [Sessions -> Seq(Event)]
          /\ L \in Logs /\ M \in Logs /\ AnyOrder \in Orders
          /\ \A t \in Sessions \ {s} : M[t] = L[t]
          /\ \A t \in Sessions : \A i \in DOMAIN L[t] : M[t][i] = L[t][i]
          /\ n[2] \notin DOMAIN L[s] /\ DOMAIN M[s] = DOMAIN L[s] \cup {n[2]}
      <4>1. L \in [Sessions -> Seq(Event)]
        BY <1>1, SeenIs
      <4>2. /\ M \in [Sessions -> Seq(Event)]
            /\ \A t \in Sessions \ {s} : M[t] = L[t]
            /\ \A t \in Sessions : \A i \in DOMAIN L[t] : M[t][i] = L[t][i]
            /\ n[2] \notin DOMAIN L[s] /\ DOMAIN M[s] = DOMAIN L[s] \cup {n[2]}
        BY <3>2, <4>1, Appended
      <4> QED BY <4>1, <4>2, RetainedAre, ScansAreOrders
    <3>4. n = <<s, n[2]>> /\ n[1] = s
      OBVIOUS
    <3> HIDE DEF n
    <3>5. Positions(M) = Positions(L) \cup {n} /\ n \notin Positions(L)
      <4>1. \A t \in Sessions : \A i : i \in DOMAIN M[t] <=> i \in DOMAIN L[t] \/ (t = s /\ i = n[2])
        BY <3>3
      <4>2. \A t, i : <<t, i>> \in Positions(M) <=> t \in Sessions /\ i \in DOMAIN M[t]
        BY DEF Positions
      <4>3. \A t, i : <<t, i>> \in Positions(L) <=> t \in Sessions /\ i \in DOMAIN L[t]
        BY DEF Positions
      <4>4. \A p \in Positions(M) : p = <<p[1], p[2]>>
        BY <3>3, PositionType
      <4>5. \A p \in Positions(L) : p = <<p[1], p[2]>>
        BY <3>3, PositionType
      <4>6. \A p \in Positions(M) : p \in Positions(L) \/ p = n
        BY <3>4, <4>1, <4>2, <4>3, <4>4
      <4>7. \A p \in Positions(L) : p \in Positions(M)
        BY <4>1, <4>2, <4>3, <4>5
      <4>8. n \in Positions(M) /\ n \notin Positions(L)
        BY <3>3, <3>4, <4>1, <4>2, <4>3
      <4> QED BY <4>6, <4>7, <4>8
    <3>6. \A p \in Positions(L) : At(M, p) = At(L, p)
      BY <3>3, PositionType DEF At
    <3>7. clock \in Nat /\ clock >= 1 /\ \A p \in Positions(L) : Millis(At(L, p).ts) <= clock
      <4>1. clock \in Nat /\ clock >= 1
        BY <1>1 DEF FleetInv, TypeOK
      <4>2. \A p \in Positions(L) : At(L, p).ts \in Times /\ (At(L, p).ts \in Nat => At(L, p).ts <= clock)
        BY <1>1, <3>3, PositionType, SeenIs DEF At
      <4> QED BY <4>1, <4>2, TimesAre
    <3>8. Millis(At(M, n).ts) = clock
      <4>1. At(M, n).ts = clock
        BY <1>1, <3>5 DEF OnTime
      <4> QED BY <3>7, <4>1 DEF Millis
    <3>9. Calls(M) \subseteq Positions(M) /\ Starts(M) \subseteq Positions(M)
      BY DEF Calls, Starts
    <3>10. ASSUME NEW P, P \in {Calls(M), Starts(M)}, n \in P, NEW p \in P \ {n}
           PROVE  Millis(At(M, p).ts) < Millis(At(M, n).ts)
      <4>1. Millis(At(M, p).ts) # Millis(At(M, n).ts)
        BY <1>1, <3>10 DEF Untied
      <4>2. p \in Positions(L) /\ p \in Positions(M)
        BY <3>5, <3>9, <3>10
      <4>3. Millis(At(M, p).ts) <= clock /\ Millis(At(M, p).ts) \in Nat
        BY <3>3, <3>6, <3>7, <4>2, PositionType
      <4> QED BY <3>7, <3>8, <4>1, <4>3
    <3>11. Later(L, M, n)
      BY <3>5, <3>6, <3>10 DEF Later
    <3>12. Calls(L) \subseteq Positions(L) /\ Calls(L) \subseteq Calls(M)
      BY <3>5, <3>6 DEF Calls
    <3>13. Inferred = InferHandoffs(L, AnyOrder, Claimed)
      BY <1>1, <3>3, EdgesAre, RetentionKeepsInferred
    <3>14. Inferred' = InferHandoffs(M, AnyOrder, Claimed)
      <4>1. FleetInv'
        BY <1>1, InvariantStep
      <4>2. Inferred' = InferHandoffs(Retained(M), AnyOrder, Claimed')
        BY <4>1, EdgesAreNext
      <4> QED BY <1>1, <3>3, <4>2, RetentionKeepsInferred
    <3> DEFINE child == Children(L, AnyOrder, Claimed)
               after == Children(M, AnyOrder, Claimed)
    <3>15. ASSUME NEW c \in Calls(L), child[c] # None
           PROVE  /\ c \in Calls(M) /\ after[c] # None
                  /\ Spawned(L, AnyOrder, Claimed, c) = Spawned(M, AnyOrder, Claimed, c)
      <4>1. after[c] = child[c]
        BY <3>3, <3>11, <3>15, ChildrenStay
      <4>2. At(M, c) = At(L, c)
        BY <3>6, <3>12
      <4> QED BY <3>12, <3>15, <4>1, <4>2 DEF Spawned
    <3>16. Inferred = {Spawned(L, AnyOrder, Claimed, c) : c \in {c \in Calls(L) : child[c] # None}}
      BY <3>13, InferredAre
    <3>17. Inferred' = {Spawned(M, AnyOrder, Claimed, c) : c \in {c \in Calls(M) : after[c] # None}}
      BY <3>14, InferredAre
    <3> HIDE DEF child, after, L, M
    <3> QED BY <3>15, <3>16, <3>17
  <2>2. CASE Tick \/ UNCHANGED vars
    <3>1. edges' = edges
      BY <2>2 DEF Tick, vars
    <3> QED BY <3>1 DEF Inferred, Declared
  <2>3. CASE \E sessions \in SUBSET Sessions : Scan(sessions)
    BY <1>1, <2>3 DEF Scan
  <2> QED BY <1>1, <2>1, <2>2, <2>3 DEF Next
<1>2. FleetInv /\ [Next]_vars =>
        [shown' = shown /\ Claimed' = Claimed /\ Untied' /\ OnTime => Inferred \subseteq Inferred']_vars
  BY <1>1
<1> QED BY <1>2, FleetInvariant, PTL DEF Spec, EdgesOnlyGrow
=============================================================================
