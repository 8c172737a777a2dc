--------------------------- MODULE ConsolePageProofs ---------------------------
(***************************************************************************)
(* Proofs about ConsolePage, for any Claws, sessions, limits and bounds.   *)
(***************************************************************************)
EXTENDS ConsolePage, SequenceTheorems, FiniteSetTheorems, TLAPS

(***************************************************************************)
(* Sequences.                                                              *)
(***************************************************************************)
LEMMA PrefixMeans ==
  ASSUME NEW S, NEW s \in Seq(S), NEW t \in Seq(S)
  PROVE  IsPrefix(s, t) <=> Len(s) <= Len(t) /\ \A i \in 1..Len(s) : s[i] = t[i]
<1>1. Len(s) \in Nat /\ Len(t) \in Nat
  BY LenProperties
<1>2. SubSeq(s, 1, Len(s)) = s
  BY SubSeqFull
<1>3. ASSUME Len(s) <= Len(t)
      PROVE  /\ SubSeq(t, 1, Len(s)) \in Seq(S) /\ Len(SubSeq(t, 1, Len(s))) = Len(s)
             /\ \A i \in 1..Len(s) : SubSeq(t, 1, Len(s))[i] = t[i]
  <2>1. \A i \in 1..Len(s) : t[i] \in S
    BY <1>1, <1>3, ElementOfSeq
  <2> DEFINE u == SubSeq(t, 1, Len(s))
  <2>2. /\ u \in Seq(S) /\ Len(u) = IF 1 <= Len(s) THEN Len(s) - 1 + 1 ELSE 0
        /\ \A i \in 1..(Len(s) - 1 + 1) : u[i] = t[1 + i - 1]
    BY <1>1, <2>1, SubSeqProperties
  <2> HIDE DEF u
  <2>3. Len(u) = Len(s) /\ \A i \in 1..Len(s) : u[i] = t[i]
    BY <1>1, <2>2
  <2> QED
    BY <2>2, <2>3 DEF u
<1>4. CASE Len(s) <= Len(t)
  BY <1>2, <1>3, <1>4, SeqEqual DEF IsPrefix
<1>5. CASE ~(Len(s) <= Len(t))
  BY <1>5 DEF IsPrefix
<1> QED
  BY <1>4, <1>5

\* An insertion leaves what is before it.
LEMMA InsertMeans ==
  ASSUME NEW S, NEW s \in Seq(S), NEW e \in S, NEW p \in 1..(Len(s) + 1)
  PROVE  /\ InsertAt(s, p, e) \in Seq(S) /\ Len(InsertAt(s, p, e)) = Len(s) + 1
         /\ \A i \in 1..(p - 1) : InsertAt(s, p, e)[i] = s[i]
<1> DEFINE a == SubSeq(s, 1, p - 1)
           b == SubSeq(s, p, Len(s))
<1>0. Len(s) \in Nat /\ p \in Int /\ p - 1 \in Int
  BY LenProperties
<1>1. a \in Seq(S) /\ Len(a) = p - 1 /\ \A i \in 1..(p - 1) : a[i] = s[i]
  <2>1. \A i \in 1..(p - 1) : s[i] \in S
    BY <1>0, ElementOfSeq
  <2>2. /\ a \in Seq(S) /\ Len(a) = IF 1 <= p - 1 THEN p - 1 - 1 + 1 ELSE 0
        /\ \A i \in 1..(p - 1 - 1 + 1) : a[i] = s[1 + i - 1]
    BY <1>0, <2>1, SubSeqProperties
  <2> HIDE DEF a
  <2> QED
    BY <1>0, <2>2
<1>2. b \in Seq(S) /\ Len(b) = Len(s) - p + 1
  <2>1. \A i \in p..Len(s) : s[i] \in S
    BY <1>0, ElementOfSeq
  <2>2. b \in Seq(S) /\ Len(b) = IF p <= Len(s) THEN Len(s) - p + 1 ELSE 0
    BY <1>0, <2>1, SubSeqProperties
  <2> HIDE DEF b
  <2> QED
    BY <1>0, <2>2
<1>3. <<e>> \in Seq(S) /\ Len(<<e>>) = 1
  OBVIOUS
<1> HIDE DEF a, b
<1>4. /\ a \o <<e>> \in Seq(S) /\ Len(a \o <<e>>) = p
      /\ \A i \in 1..(p - 1) : (a \o <<e>>)[i] = s[i]
  BY <1>0, <1>1, <1>3, ConcatProperties
<1> DEFINE c == a \o <<e>>
<1> HIDE DEF c
<1>5. c \in Seq(S) /\ Len(c) = p /\ \A i \in 1..(p - 1) : c[i] = s[i]
  BY <1>4 DEF c
<1>6. /\ c \o b \in Seq(S) /\ Len(c \o b) = Len(c) + Len(b)
      /\ \A i \in 1..(Len(c) + Len(b)) : (c \o b)[i] = IF i <= Len(c) THEN c[i] ELSE b[i - Len(c)]
  BY <1>2, <1>5, ConcatProperties
<1>7. \A i \in 1..(p - 1) : (c \o b)[i] = s[i]
  BY <1>0, <1>2, <1>5, <1>6
<1>8. Len(c \o b) = Len(s) + 1
  BY <1>0, <1>2, <1>5, <1>6
<1> QED
  BY <1>6, <1>7, <1>8 DEF InsertAt, a, b, c

\* An insertion behind a prefix leaves it one.
LEMMA InsertKeeps ==
  ASSUME NEW S, NEW s \in Seq(S), NEW f \in Seq(S), IsPrefix(s, f), NEW e \in S,
         NEW p \in 1..(Len(f) + 1), ~(p <= Len(s))
  PROVE  IsPrefix(s, InsertAt(f, p, e))
<1> DEFINE g == InsertAt(f, p, e)
<1>1. Len(s) \in Nat /\ Len(f) \in Nat /\ p \in Int
  BY LenProperties
<1>2. Len(s) <= Len(f) /\ \A i \in 1..Len(s) : s[i] = f[i]
  BY PrefixMeans
<1>3. g \in Seq(S) /\ Len(g) = Len(f) + 1 /\ \A i \in 1..(p - 1) : g[i] = f[i]
  BY InsertMeans
<1> HIDE DEF g
<1>4. Len(s) <= Len(g) /\ \A i \in 1..Len(s) : s[i] = g[i]
  BY <1>1, <1>2, <1>3
<1>5. IsPrefix(s, g)
  BY <1>3, <1>4, PrefixMeans
<1> QED
  BY <1>5 DEF g

LEMMA RemoveTyped ==
  ASSUME NEW S, NEW s \in Seq(S), NEW i \in DOMAIN s
  PROVE  RemoveAt(s, i) \in Seq(S) /\ Len(RemoveAt(s, i)) = Len(s) - 1
<1> DEFINE a == SubSeq(s, 1, i - 1)
           b == SubSeq(s, i + 1, Len(s))
<1>0. Len(s) \in Nat /\ i \in 1..Len(s)
  BY LenProperties
<1>1. a \in Seq(S) /\ Len(a) = i - 1
  <2>1. \A j \in 1..(i - 1) : s[j] \in S
    BY <1>0, ElementOfSeq
  <2>2. a \in Seq(S) /\ Len(a) = IF 1 <= i - 1 THEN i - 1 - 1 + 1 ELSE 0
    BY <1>0, <2>1, SubSeqProperties
  <2> HIDE DEF a
  <2> QED
    BY <1>0, <2>2
<1>2. b \in Seq(S) /\ Len(b) = Len(s) - i
  <2>1. \A j \in (i + 1)..Len(s) : s[j] \in S
    BY <1>0, ElementOfSeq
  <2>2. b \in Seq(S) /\ Len(b) = IF i + 1 <= Len(s) THEN Len(s) - (i + 1) + 1 ELSE 0
    BY <1>0, <2>1, SubSeqProperties
  <2> HIDE DEF b
  <2> QED
    BY <1>0, <2>2
<1> HIDE DEF a, b
<1>3. a \o b \in Seq(S) /\ Len(a \o b) = Len(s) - 1
  BY <1>0, <1>1, <1>2, ConcatProperties
<1> QED
  BY <1>3 DEF RemoveAt, a, b

(***************************************************************************)
(* Slices of a session's events.                                           *)
(***************************************************************************)
\* A slice has the events after `after`.
LEMMA SliceMeans ==
  ASSUME TypeOK, NEW k \in Keys, NEW after \in Nat
  PROVE  /\ Slice(k, after) \in Seq(Written)
         /\ after <= Len(file[k]) => after + Len(Slice(k, after)) <= Len(file[k])
         /\ \A i \in 1..Len(Slice(k, after)) : Slice(k, after)[i] = file[k][after + i]
<1> DEFINE n == Len(file[k])
           m == IF after + PageLimit > n THEN n ELSE after + PageLimit
           s == SubSeq(file[k], after + 1, m)
<1>1. file[k] \in Seq(Written) /\ n \in Nat /\ PageLimit \in Nat
  BY PageAssumption, LenProperties DEF TypeOK
<1>2. m \in Nat /\ m <= n
  BY <1>1
<1>3. \A i \in (after + 1)..m : file[k][i] \in Written
  BY <1>1, <1>2, ElementOfSeq
<1> HIDE DEF m, n
<1>4. /\ s \in Seq(Written) /\ Len(s) = IF after + 1 <= m THEN m - (after + 1) + 1 ELSE 0
      /\ \A i \in 1..(m - (after + 1) + 1) : s[i] = file[k][after + 1 + i - 1]
  BY <1>2, <1>3, SubSeqProperties
<1> HIDE DEF s
<1>5. after <= n => after + Len(s) <= n
  BY <1>1, <1>2, <1>4
<1>6. \A i \in 1..Len(s) : s[i] = file[k][after + i]
  BY <1>1, <1>2, <1>4
<1> QED
  BY <1>4, <1>5, <1>6 DEF Slice, s, m, n

\* Events that are the first of a file, and the slice after them, are its first.
LEMMA SliceExtends ==
  ASSUME TypeOK, NEW k \in Keys, NEW events \in Seq(Written), IsPrefix(events, file[k])
  PROVE  /\ events \o Slice(k, Len(events)) \in Seq(Written)
         /\ IsPrefix(events \o Slice(k, Len(events)), file[k])
<1> DEFINE after == Len(events)
           s     == Slice(k, after)
           both  == events \o s
<1>1. after \in Nat /\ file[k] \in Seq(Written) /\ Len(file[k]) \in Nat
  BY LenProperties DEF TypeOK
<1>2. after <= Len(file[k]) /\ \A i \in 1..after : events[i] = file[k][i]
  BY <1>1, PrefixMeans
<1>3. /\ s \in Seq(Written) /\ after + Len(s) <= Len(file[k])
      /\ \A i \in 1..Len(s) : s[i] = file[k][after + i]
  BY <1>1, <1>2, SliceMeans
<1>4. Len(s) \in Nat
  BY <1>3, LenProperties
<1> HIDE DEF s
<1>5. /\ both \in Seq(Written) /\ Len(both) = after + Len(s)
      /\ \A i \in 1..(after + Len(s)) : both[i] = IF i <= after THEN events[i] ELSE s[i - after]
  BY <1>3, ConcatProperties
<1> HIDE DEF both
<1>6. \A i \in 1..Len(both) : both[i] = file[k][i]
  <2> SUFFICES ASSUME NEW i \in 1..Len(both) PROVE both[i] = file[k][i]
    OBVIOUS
  <2>1. CASE i <= after
    BY <1>1, <1>2, <1>4, <1>5, <2>1
  <2>2. CASE i > after
    <3>1. i - after \in 1..Len(s) /\ after + (i - after) = i
      BY <1>1, <1>4, <1>5, <2>2
    <3>2. s[i - after] = file[k][after + (i - after)]
      BY <1>3, <3>1
    <3> QED
      BY <1>1, <1>4, <1>5, <2>2, <3>1, <3>2
  <2> QED
    BY <1>1, <1>4, <1>5, <2>1, <2>2
<1>7. IsPrefix(both, file[k])
  BY <1>1, <1>3, <1>4, <1>5, <1>6, PrefixMeans
<1> QED
  BY <1>5, <1>7 DEF both, s

(***************************************************************************)
(* Types.                                                                  *)
(***************************************************************************)
\* What a tick that has asked, or been answered, holds.
AskInv ==
  \A t \in Ticks : /\ ticks[t].at \in {"asked", "answered"} => ticks[t].claw \in Claws
                   /\ ticks[t].at = "answered" => ticks[t].answer \in Answer

\* A tick that can still change the session on the page tails it.
MineInv ==
  \A t \in Ticks : ticks[t].mine =>
    /\ ticks[t].at \in {"tailing", "tailed"} /\ session # None
    /\ ticks[t].at = "tailing" => ticks[t].sent = <<>>

\* The session an opening is answered with is the one it asked for, of its own Claw.
Owned == {l \in Load : l.answer # None => l.answer.key = l.key /\ l.claw = Home[l.key]}

Shape == TypeOK /\ AskInv /\ MineInv /\ loads \in Seq(Owned)

LEMMA OwnedLoads ==
  ASSUME loads \in Seq(Owned), NEW i \in DOMAIN loads
  PROVE  loads[i] \in Owned /\ loads[i] \in Load /\ i \in 1..Len(loads) /\ Len(loads) \in Nat
<1>1. i \in 1..Len(loads) /\ Len(loads) \in Nat
  BY LenProperties
<1>2. loads[i] \in Owned
  BY <1>1, ElementOfSeq
<1> QED
  BY <1>1, <1>2 DEF Owned

LEMMA IdleTyped ==
  ASSUME NEW c \in Claws \cup {None}
  PROVE  Idle \in Tick /\ Asking(c) \in Tick /\ [Idle EXCEPT !.at = "scope"] \in Tick
<1>1. <<>> \in Seq(Written)
  BY EmptySeq
<1> QED
  BY <1>1 DEF Idle, Asking, Tick

LEMMA AsksTyped ==
  ASSUME NEW k \in Keys, NEW c \in Claws \cup {None}
  PROVE  Asks(k, c) \in Owned /\ Asks(k, c) \in Load /\ Asks(k, c).answer = None
BY DEF Asks, Load, Owned

\* An event written changes nothing of a session but that it may be spoiled.
LEMMA SpoiledTyped ==
  ASSUME NEW s \in Session \cup {None}, NEW n \in Nat, NEW k \in Keys, NEW p \in Nat
  PROVE  /\ Spoiled(s, n, k, p) \in Session \cup {None}
         /\ Spoiled(s, n, k, p) # None <=> s # None
         /\ s # None => /\ Spoiled(s, n, k, p).key = s.key
                        /\ Spoiled(s, n, k, p).late = s.late
         /\ s # None /\ ~Spoiled(s, n, k, p).spoiled =>
              Spoiled(s, n, k, p) = s /\ ~Behind(s, n, k, p)
<1> DEFINE r == [s EXCEPT !.spoiled = TRUE]
<1>1. CASE Behind(s, n, k, p)
  <2>1. s \in Session
    BY <1>1 DEF Behind
  <2>2. r \in Session /\ r.key = s.key /\ r.late = s.late /\ r.spoiled
    BY <2>1 DEF Session
  <2>3. Spoiled(s, n, k, p) = r
    BY <1>1 DEF Spoiled
  <2> HIDE DEF r
  <2> QED
    BY <2>1, <2>2, <2>3, SessionAssumption
<1>2. CASE ~Behind(s, n, k, p)
  BY <1>2 DEF Spoiled
<1> QED
  BY <1>1, <1>2

LEMMA ComingTyped == ASSUME TypeOK PROVE Coming \in Nat
<1> DEFINE tails == {t \in Ticks : ticks[t].mine}
           u     == CHOOSE t \in tails : TRUE
<1>1. CASE tails = {}
  BY <1>1 DEF Coming
<1>2. CASE tails # {}
  <2>1. u \in Ticks
    BY <1>2
  <2>2. ticks[u].sent \in Seq(Written)
    BY <2>1 DEF TypeOK, Tick
  <2>3. Coming = Len(ticks[u].sent)
    BY <1>2 DEF Coming
  <2> QED
    BY <2>2, <2>3, LenProperties
<1> QED
  BY <1>1, <1>2

LEMMA BlankTyped == Blank \in Page
BY PageAssumption DEF Blank, Page

LEMMA ForgottenTyped ==
  ASSUME TypeOK, AskInv
  PROVE  /\ Forgotten \in [Ticks -> Tick]
         /\ \A t \in Ticks : /\ Forgotten[t].at = ticks[t].at /\ Forgotten[t].claw = ticks[t].claw
                             /\ Forgotten[t].answer = ticks[t].answer /\ ~Forgotten[t].mine
<1>0. <<>> \in Seq(Written)
  OBVIOUS
<1> SUFFICES ASSUME NEW t \in Ticks
             PROVE  /\ Forgotten[t] \in Tick
                    /\ Forgotten[t].at = ticks[t].at /\ Forgotten[t].claw = ticks[t].claw
                    /\ Forgotten[t].answer = ticks[t].answer /\ ~Forgotten[t].mine
  BY DEF Forgotten
<1>1. ticks[t] \in Tick
  BY DEF TypeOK
<1> QED
  BY <1>0, <1>1 DEF Forgotten, Tick

LEMMA EventsCount == ASSUME TypeOK PROVE Cardinality(Events) \in Nat
<1>1. IsFiniteSet(Keys) /\ MaxEvents \in Int
  BY PageAssumption
<1>2. IsFiniteSet(Written)
  BY <1>1, FS_Interval DEF Written
<1>3. IsFiniteSet(Keys \X Written)
  BY <1>1, <1>2, FS_Product
<1>4. Events \subseteq Keys \X Written
  BY DEF Events
<1>5. IsFiniteSet(Events)
  BY <1>3, <1>4, FS_Subset
<1> QED
  BY <1>5, FS_CardinalityType

\* What an answer makes of the page.
LEMMA LandedTyped ==
  ASSUME TypeOK, AskInv, NEW t \in Ticks, ticks[t].at = "answered"
  PROVE  Landed(t) \in Page
<1>1. ticks[t].answer \in Answer /\ ticks[t].claw \in Claws
  BY DEF AskInv
<1>2. CASE ticks[t].answer.status = "failed"
  BY <1>2 DEF Landed, TypeOK, Page
<1>3. CASE ticks[t].answer.status # "failed"
  BY <1>1, <1>3 DEF Landed, Answer, Page
<1> QED
  BY <1>2, <1>3

\* A session found has the first of its events, and is of the Claw it was asked of.
LEMMA FoundTyped ==
  ASSUME TypeOK, NEW l \in Load
  PROVE  /\ Found(l) \in Session \cup {None}
         /\ Found(l) # None => /\ Found(l).key = l.key /\ l.claw = Home[l.key]
                              /\ Found(l).events = Slice(l.key, 0)
<1>1. Slice(l.key, 0) \in Seq(Written)
  BY SliceMeans DEF Load
<1> QED
  BY <1>1 DEF Found, Session, Load, TypeOK

LEMMA TypeInit == ASSUME Init PROVE Shape
<1> USE PageAssumption DEF Init
<1>1. file \in [Keys -> Seq(Written)]
  <2>1. <<>> \in Seq(Written) /\ <<1>> \in Seq(Written)
    BY DEF Written
  <2> QED
    BY <2>1
<1>2. ticks \in [Ticks -> Tick] /\ \A t \in Ticks : ticks[t] = Idle
  BY IdleTyped
<1>3. loads \in Seq(Load) /\ loads \in Seq(Owned) /\ Len(loads) <= MaxLoads
  <2>1. CASE route = None
    BY <2>1
  <2>2. CASE route # None
    <3>1. Asks(route, None) \in Load /\ Asks(route, None) \in Owned
      BY <2>2, AsksTyped
    <3> QED
      BY <2>2, <3>1
  <2> QED
    BY <2>1, <2>2
<1>4. page \in Page
  BY BlankTyped
<1>5. rev \in [Claws -> 0..MaxRev]
  OBVIOUS
<1>6. TypeOK
  BY <1>1, <1>2, <1>3, <1>4, <1>5 DEF TypeOK
<1> QED
  BY <1>2, <1>3, <1>6 DEF Shape, AskInv, MineInv, Idle

\* A change of one tick.
LEMMA TickChange ==
  ASSUME Shape, NEW t \in Ticks, NEW tick \in Tick, ticks' = [ticks EXCEPT ![t] = tick],
         tick.at \in {"asked", "answered"} => tick.claw \in Claws,
         tick.at = "answered" => tick.answer \in Answer,
         tick.mine => /\ tick.at \in {"tailing", "tailed"} /\ session' # None
                      /\ tick.at = "tailing" => tick.sent = <<>>,
         session # None => session' # None
  PROVE  ticks' \in [Ticks -> Tick] /\ AskInv' /\ MineInv'
BY DEF Shape, TypeOK, AskInv, MineInv

\* The ticks have lost the session, whatever it becomes.
LEMMA AllForget ==
  ASSUME Shape, ticks' = Forgotten
  PROVE  ticks' \in [Ticks -> Tick] /\ AskInv' /\ MineInv'
BY ForgottenTyped DEF Shape, TypeOK, AskInv, MineInv

\* A function on the places of a sequence is a sequence.
LEMMA SamePlaces ==
  ASSUME NEW S, NEW T, NEW s \in Seq(S), NEW r \in [DOMAIN s -> T]
  PROVE  r \in Seq(T) /\ Len(r) = Len(s)
<1>1. Len(s) \in Nat /\ DOMAIN s = 1..Len(s)
  BY LenProperties
<1> QED
  BY <1>1

LEMMA TypeStep ==
  ASSUME Shape, [Next]_vars
  PROVE  Shape'
<1> USE DEF server
<1>1. ASSUME NEW k \in Keys, EventWritten(k) PROVE Shape'
  <2> DEFINE e == Cardinality(Events) + 1
  <2>1. e \in Written
    BY <1>1, EventsCount, PageAssumption DEF EventWritten, Shape, Written
  <2>2. PICK p \in 1..(Len(file[k]) + 1) :
          /\ file' = [file EXCEPT ![k] = InsertAt(@, p, e)]
          /\ session' = Spoiled(session, Coming, k, p)
          /\ loads' = [i \in DOMAIN loads |->
                         [loads[i] EXCEPT !.answer = Spoiled(@, 0, k, p)]]
    BY <1>1 DEF EventWritten
  <2> HIDE DEF e
  <2>3. file[k] \in Seq(Written) /\ p \in Nat /\ Coming \in Nat
    BY ComingTyped, LenProperties DEF Shape, TypeOK
  <2>4. InsertAt(file[k], p, e) \in Seq(Written)
    BY <2>1, <2>3, InsertMeans
  <2>5. file' \in [Keys -> Seq(Written)]
    BY <2>2, <2>4 DEF Shape, TypeOK
  <2>6. session' \in Session \cup {None} /\ (session' # None => session'.key = sessionKey)
        /\ (session # None => session' # None)
    <3>1. session \in Session \cup {None} /\ (session # None => session.key = sessionKey)
      BY DEF Shape, TypeOK
    <3> QED
      BY <2>2, <2>3, <3>1, SpoiledTyped
  <2>7. loads' \in Seq(Load) /\ loads' \in Seq(Owned) /\ Len(loads') = Len(loads)
    <3>1. ASSUME NEW i \in DOMAIN loads
          PROVE  [loads[i] EXCEPT !.answer = Spoiled(@, 0, k, p)] \in Owned
      <4> DEFINE r == Spoiled(loads[i].answer, 0, k, p)
      <4>1. loads[i] \in Owned /\ loads[i] \in Load
        BY OwnedLoads DEF Shape
      <4>2. loads[i].answer \in Session \cup {None}
        BY <4>1 DEF Load
      <4>3. /\ r \in Session \cup {None}
            /\ r # None => loads[i].answer # None /\ r.key = loads[i].answer.key
        <5>1. 0 \in Nat
          OBVIOUS
        <5>2. ASSUME NEW a \in Session \cup {None}
              PROVE  /\ Spoiled(a, 0, k, p) \in Session \cup {None}
                     /\ Spoiled(a, 0, k, p) # None <=> a # None
                     /\ a # None => Spoiled(a, 0, k, p).key = a.key
          BY <2>3, <5>1, SpoiledTyped, Zenon
        <5> DEFINE a == loads[i].answer
        <5>3. a \in Session \cup {None}
          BY <4>2
        <5> HIDE DEF a
        <5>4. /\ Spoiled(a, 0, k, p) \in Session \cup {None}
              /\ Spoiled(a, 0, k, p) # None <=> a # None
              /\ a # None => Spoiled(a, 0, k, p).key = a.key
          BY <5>2, <5>3, Zenon
        <5> QED
          BY <5>4, Zenon DEF a
      <4> HIDE DEF r
      <4>4. [loads[i] EXCEPT !.answer = r] \in Owned
        BY <4>1, <4>3 DEF Owned, Load
      <4> QED
        BY <4>4 DEF r
    <3>2. loads' \in [DOMAIN loads -> Owned]
      BY <2>2, <3>1
    <3>3. loads' \in [DOMAIN loads -> Load]
      BY <3>2 DEF Owned
    <3> QED
      BY <3>2, <3>3, SamePlaces DEF Shape
  <2>8. Len(loads') <= MaxLoads
    BY <2>7 DEF Shape, TypeOK
  <2> QED
    BY <1>1, <2>5, <2>6, <2>7, <2>8 DEF EventWritten, Shape, TypeOK, AskInv, MineInv
<1>2. ASSUME NEW k \in Keys, SnapshotChanges(k) PROVE Shape'
  <2>1. Home[k] \in Claws /\ MaxRev \in Nat
    BY PageAssumption
  <2>2. rev' \in [Claws -> 0..MaxRev]
    BY <1>2, <2>1 DEF SnapshotChanges, Shape, TypeOK
  <2>3. outcome' \in [Keys -> Outcomes]
    BY <1>2 DEF SnapshotChanges, Shape, TypeOK
  <2> QED
    BY <1>2, <2>2, <2>3 DEF SnapshotChanges, Shape, TypeOK, AskInv, MineInv
<1>3. ASSUME NEW k \in Keys, Open(k) PROVE Shape'
  <2>1. CASE sessionKey = k
    BY <1>3, <2>1 DEF Open, Shape, TypeOK, AskInv, MineInv
  <2>2. CASE sessionKey # k
    <3>1. Asks(k, claw) \in Load /\ Asks(k, claw) \in Owned
      BY AsksTyped DEF Shape, TypeOK
    <3>2. loads' \in Seq(Load) /\ loads' \in Seq(Owned) /\ Len(loads') <= MaxLoads
      <4>1. loads' = Append(loads, Asks(k, claw)) /\ Len(loads) < MaxLoads
        BY <1>3, <2>2 DEF Open
      <4>2. loads \in Seq(Load) /\ loads \in Seq(Owned) /\ Len(loads) \in Nat /\ MaxLoads \in Nat
        BY PageAssumption, LenProperties DEF Shape, TypeOK
      <4> QED
        BY <3>1, <4>1, <4>2, AppendProperties
    <3>3. ticks' \in [Ticks -> Tick] /\ AskInv' /\ MineInv'
      BY <1>3, <2>2, AllForget DEF Open
    <3> QED
      BY <1>3, <2>2, <3>2, <3>3 DEF Open, Shape, TypeOK
  <2> QED
    BY <2>1, <2>2
<1>4. ASSUME NEW t \in Ticks, TickStarts(t) PROVE Shape'
  <2>1. claw \in Claws \cup {None} /\ UNCHANGED <<file, outcome, rev, claw, route, page, session,
                                                  sessionKey, loads>>
    BY <1>4 DEF TickStarts, Shape, TypeOK
  <2>2. ticks' \in [Ticks -> Tick] /\ AskInv' /\ MineInv'
    <3>1. CASE claw = None
      <4>1. ticks' = [ticks EXCEPT ![t] = [Idle EXCEPT !.at = "scope"]]
        BY <1>4, <3>1 DEF TickStarts
      <4> QED
        BY <2>1, <4>1, IdleTyped, TickChange DEF Idle
    <3>2. CASE claw # None
      <4>1. ticks' = [ticks EXCEPT ![t] = Asking(claw)]
        BY <1>4, <3>2 DEF TickStarts
      <4>2. Asking(claw).claw = claw /\ Asking(claw).at = "asked" /\ ~Asking(claw).mine
        BY DEF Asking, Idle
      <4> QED
        BY <2>1, <3>2, <4>1, <4>2, IdleTyped, TickChange
    <3> QED
      BY <3>1, <3>2
  <2> QED
    BY <2>1, <2>2 DEF Shape, TypeOK
<1>5. ASSUME NEW t \in Ticks, ScopeLands(t) PROVE Shape'
  <2>1. CASE \E c \in Claws : claw' = c /\ ticks' = [ticks EXCEPT ![t] = Asking(c)] /\ page' = page
    <3>1. PICK c \in Claws : claw' = c /\ ticks' = [ticks EXCEPT ![t] = Asking(c)] /\ page' = page
      BY <2>1
    <3>2. Asking(c).claw = c /\ Asking(c).at = "asked" /\ ~Asking(c).mine
      BY DEF Asking, Idle
    <3>3. ticks' \in [Ticks -> Tick] /\ AskInv' /\ MineInv'
      BY <1>5, <3>1, <3>2, IdleTyped, TickChange DEF ScopeLands
    <3> QED
      BY <1>5, <3>1, <3>3 DEF ScopeLands, Shape, TypeOK
  <2>2. CASE /\ claw' = claw /\ ticks' = [ticks EXCEPT ![t] = Idle]
             /\ page' = [page EXCEPT !.status = "denied"]
    <3>1. ticks' \in [Ticks -> Tick] /\ AskInv' /\ MineInv'
      BY <1>5, <2>2, IdleTyped, TickChange DEF ScopeLands, Idle
    <3>2. page' \in Page
      BY <2>2 DEF Shape, TypeOK, Page
    <3> QED
      BY <1>5, <2>2, <3>1, <3>2 DEF ScopeLands, Shape, TypeOK
  <2> QED
    BY <1>5, <2>1, <2>2 DEF ScopeLands
<1>6. ASSUME NEW t \in Ticks, RefreshServed(t) \/ RefreshRefused(t) PROVE Shape'
  <2>1. PICK answer \in Answer : ticks' = [ticks EXCEPT ![t].at = "answered", ![t].answer = answer]
    <3>1. CASE RefreshServed(t)
      <4> DEFINE a == [status |-> "shown", rev |-> rev[ticks[t].claw],
                       running |-> {k \in Keys : Home[k] = ticks[t].claw /\ outcome[k] = "running"}]
      <4>1. ticks[t].claw \in Claws
        BY <3>1 DEF RefreshServed, Shape, AskInv
      <4>2. a \in Answer
        BY <4>1 DEF Answer, Shape, TypeOK
      <4>3. ticks' = [ticks EXCEPT ![t].at = "answered", ![t].answer = a]
        BY <3>1 DEF RefreshServed
      <4> QED
        BY <4>2, <4>3
    <3>2. CASE RefreshRefused(t)
      <4>1. [status |-> "failed"] \in Answer
        BY DEF Answer
      <4> QED
        BY <3>2, <4>1 DEF RefreshRefused
    <3> QED
      BY <1>6, <3>1, <3>2
  <2> DEFINE tick == [ticks[t] EXCEPT !.at = "answered", !.answer = answer]
  <2>2. ticks[t] \in Tick /\ ticks[t].at = "asked" /\ ticks[t].claw \in Claws /\ ~ticks[t].mine
    BY <1>6 DEF RefreshServed, RefreshRefused, Shape, TypeOK, AskInv, MineInv
  <2>3. /\ tick \in Tick /\ tick.claw = ticks[t].claw /\ tick.answer = answer /\ tick.at = "answered"
        /\ ~tick.mine
    BY <2>2 DEF Tick
  <2>4. ticks' = [ticks EXCEPT ![t] = tick]
    BY <2>1
  <2>5. UNCHANGED <<file, outcome, rev, claw, route, page, session, sessionKey, loads>>
    BY <1>6 DEF RefreshServed, RefreshRefused
  <2> HIDE DEF tick
  <2>6. ticks' \in [Ticks -> Tick] /\ AskInv' /\ MineInv'
    BY <2>2, <2>3, <2>4, <2>5, TickChange
  <2> QED
    BY <2>5, <2>6 DEF Shape, TypeOK
<1>7. ASSUME NEW t \in Ticks, RefreshLands(t) PROVE Shape'
  <2>1. page' \in Page
    BY <1>7, LandedTyped DEF RefreshLands, Shape
  <2>2. UNCHANGED <<file, outcome, rev, claw, route, sessionKey, loads>>
    BY <1>7 DEF RefreshLands
  <2>3. session' \in Session \cup {None} /\ (session' # None => session'.key = sessionKey)
        /\ (session # None => session' # None)
    <3>1. session # None => /\ [session EXCEPT !.spoiled = TRUE] \in Session
                            /\ [session EXCEPT !.spoiled = TRUE].key = session.key
      BY DEF Shape, TypeOK, Session
    <3>2. session' = session \/ (session # None /\ session' = [session EXCEPT !.spoiled = TRUE])
      BY <1>7 DEF RefreshLands, Tails
    <3> QED
      BY <3>1, <3>2, SessionAssumption DEF Shape, TypeOK
  <2>4. ticks' \in [Ticks -> Tick] /\ AskInv' /\ MineInv'
    <3>1. CASE Tails(page')
      <4> DEFINE tick == [Idle EXCEPT !.at = "tailing", !.claw = claw,
                                      !.after = Len(session.events), !.mine = TRUE]
      <4>1. session # None /\ session \in Session
        BY <3>1 DEF Tails, Shape, TypeOK
      <4>2. Len(session.events) \in Nat
        BY <4>1, LenProperties DEF Session
      <4>3. tick \in Tick /\ tick.at = "tailing" /\ tick.sent = <<>>
        <5>1. <<>> \in Seq(Written)
          OBVIOUS
        <5> QED
          BY <4>2, <5>1 DEF Tick, Idle, Shape, TypeOK
      <4>4. ticks' = [ticks EXCEPT ![t] = tick]
        BY <1>7, <3>1 DEF RefreshLands
      <4> HIDE DEF tick
      <4> QED
        BY <2>3, <4>1, <4>3, <4>4, TickChange
    <3>2. CASE ~Tails(page')
      <4>1. ticks' = [ticks EXCEPT ![t] = Idle]
        BY <1>7, <3>2 DEF RefreshLands
      <4> QED
        BY <2>3, <4>1, IdleTyped, TickChange DEF Idle
    <3> QED
      BY <3>1, <3>2
  <2> QED
    BY <2>1, <2>2, <2>3, <2>4 DEF Shape, TypeOK
<1>8. ASSUME NEW t \in Ticks, TailLands(t) \/ TailFails(t) PROVE Shape'
  <2>1. UNCHANGED <<file, outcome, rev, claw, route, page, sessionKey, loads>>
        /\ ticks' = [ticks EXCEPT ![t] = Idle]
    BY <1>8 DEF TailLands, TailFails
  <2>2. session' \in Session \cup {None} /\ (session' # None => session'.key = sessionKey)
        /\ (session # None => session' # None)
    <3>1. CASE session' = session
      BY <3>1 DEF Shape, TypeOK
    <3>2. CASE /\ ticks[t].mine
               /\ session' = [session EXCEPT !.events = @ \o ticks[t].sent]
      <4>1. session \in Session
        BY <3>2 DEF Shape, TypeOK, MineInv
      <4>2. ticks[t].sent \in Seq(Written)
        BY DEF Shape, TypeOK, Tick
      <4>3. session.events \o ticks[t].sent \in Seq(Written)
        BY <4>1, <4>2, ConcatProperties DEF Session
      <4>4. session' \in Session /\ session'.key = session.key
        BY <3>2, <4>1, <4>3 DEF Session
      <4>5. session.key = sessionKey /\ session # None
        BY <3>2 DEF Shape, TypeOK, MineInv
      <4> QED
        BY <4>4, <4>5, SessionAssumption
    <3> QED
      BY <1>8, <3>1, <3>2 DEF TailLands, TailFails
  <2>3. ticks' \in [Ticks -> Tick] /\ AskInv' /\ MineInv'
    BY <2>1, <2>2, IdleTyped, TickChange DEF Idle
  <2> QED
    BY <2>1, <2>2, <2>3 DEF Shape, TypeOK
<1>9. ASSUME NEW c \in Claws, NEW t \in Clicks, PickClaw(c, t) PROVE Shape'
  <2>1. Asking(c) \in Tick /\ Asking(c).claw = c /\ Asking(c).at = "asked" /\ ~Asking(c).mine
    BY IdleTyped DEF Asking, Idle
  <2>2. t \in Ticks /\ ticks' = [Forgotten EXCEPT ![t] = Asking(c)]
    BY <1>9 DEF PickClaw, Ticks
  <2>3. ticks' \in [Ticks -> Tick] /\ AskInv' /\ MineInv'
    BY <2>1, <2>2, ForgottenTyped DEF Shape, TypeOK, AskInv, MineInv
  <2> QED
    BY <1>9, <2>3, BlankTyped DEF PickClaw, Shape, TypeOK
<1>10. CASE Leave
  <2>1. ticks' \in [Ticks -> Tick] /\ AskInv' /\ MineInv'
    BY <1>10, AllForget DEF Leave
  <2> QED
    BY <1>10, <2>1 DEF Leave, Shape, TypeOK
<1>11. ASSUME NEW i \in DOMAIN loads, LoadLands(i) PROVE Shape'
  <2>1. ticks' \in [Ticks -> Tick] /\ AskInv' /\ MineInv'
    BY <1>11, AllForget DEF LoadLands
  <2>2. loads[i] \in Load
    BY LenProperties, ElementOfSeq DEF Shape, TypeOK
  <2>3. session' \in Session \cup {None} /\ (session' # None => session'.key = sessionKey')
        /\ sessionKey' \in Keys
    <3>1. CASE loads[i].answer = None
      BY <1>11, <2>2, <3>1 DEF LoadLands, Load
    <3>2. CASE loads[i].answer # None
      <4>1. /\ session' = [loads[i].answer EXCEPT !.late = loads[i].claw # claw]
            /\ loads[i].answer \in Session /\ loads[i].answer.key = loads[i].key
        BY <1>11, <2>2, <3>2, OwnedLoads DEF LoadLands, Load, Owned, Shape
      <4>2. session' \in Session /\ session'.key = loads[i].key
        BY <4>1 DEF Session
      <4> QED
        BY <1>11, <2>2, <4>2 DEF LoadLands, Load
    <3> QED
      BY <3>1, <3>2
  <2>4. loads' \in Seq(Load) /\ loads' \in Seq(Owned) /\ Len(loads') <= MaxLoads
    <3>1. Len(loads) \in Nat /\ MaxLoads \in Nat
      BY PageAssumption, LenProperties DEF Shape, TypeOK
    <3> QED
      BY <1>11, <3>1, RemoveTyped DEF LoadLands, Shape, TypeOK
  <2> QED
    BY <1>11, <2>1, <2>3, <2>4 DEF LoadLands, Shape, TypeOK
<1>12. CASE UNCHANGED vars
  BY <1>12 DEF vars, Shape, TypeOK, AskInv, MineInv
<1>13. ASSUME NEW t \in Ticks, TailServed(t) PROVE Shape'
  <2> DEFINE sent == IF ticks[t].mine /\ ticks[t].claw = Home[session.key]
                     THEN Slice(session.key, ticks[t].after) ELSE <<>>
             tick == [ticks[t] EXCEPT !.at = "tailed", !.sent = sent]
  <2>1. ticks[t] \in Tick
    BY DEF Shape, TypeOK
  <2>2. sent \in Seq(Written)
    <3>1. CASE ticks[t].mine
      <4>1. session.key \in Keys
        BY <3>1 DEF Shape, TypeOK, MineInv, Session
      <4>2. Slice(session.key, ticks[t].after) \in Seq(Written)
        BY <2>1, <4>1, SliceMeans DEF Shape, Tick
      <4> QED
        BY <4>2
    <3>2. CASE ~ticks[t].mine
      BY <3>2
    <3> QED
      BY <3>1, <3>2
  <2>3. ticks' = [ticks EXCEPT ![t] = tick] /\ session' = session
    BY <1>13 DEF TailServed
  <2> HIDE DEF sent
  <2>4. tick \in Tick /\ tick.at = "tailed" /\ tick.mine = ticks[t].mine
    BY <2>1, <2>2 DEF Tick
  <2> HIDE DEF tick
  <2>5. ticks' \in [Ticks -> Tick] /\ AskInv' /\ MineInv'
    <3>1. tick.mine => session # None
      BY <2>4 DEF Shape, MineInv
    <3> QED
      BY <2>3, <2>4, <3>1, TickChange
  <2> QED
    BY <1>13, <2>5 DEF TailServed, Shape, TypeOK
<1>14. ASSUME NEW i \in DOMAIN loads, LoadServed(i) PROVE Shape'
  <2>1. /\ loads \in Seq(Load) /\ loads[i] \in Load /\ Len(loads) \in Nat /\ i \in 1..Len(loads)
        /\ loads \in Seq(Owned)
    BY OwnedLoads DEF Shape, TypeOK
  <2>2. PICK found \in {Found(loads[i]), None} :
          loads' = [loads EXCEPT ![i].answered = TRUE, ![i].answer = found]
    BY <1>14 DEF LoadServed
  <2> DEFINE load == [loads[i] EXCEPT !.answered = TRUE, !.answer = found]
  <2>3. /\ found \in Session \cup {None}
        /\ found # None => found.key = loads[i].key /\ loads[i].claw = Home[loads[i].key]
    BY <2>1, <2>2, FoundTyped DEF Shape
  <2>4. load \in Load /\ load \in Owned
    BY <2>1, <2>3 DEF Load, Owned
  <2>5. loads' = [loads EXCEPT ![i] = load]
    BY <2>2
  <2> HIDE DEF load
  <2>6. loads' \in Seq(Load) /\ loads' \in Seq(Owned) /\ Len(loads') = Len(loads)
    BY <2>1, <2>4, <2>5, ExceptSeq
  <2> QED
    BY <1>14, <2>6 DEF LoadServed, Shape, TypeOK, AskInv, MineInv
<1> QED
  BY <1>1, <1>2, <1>3, <1>4, <1>5, <1>6, <1>7, <1>8, <1>9, <1>10, <1>11, <1>12, <1>13, <1>14 DEF Next

\* Every variable keeps its type: page by page, tick by tick, and whatever lands late.
THEOREM TypeCorrect == Spec => []TypeOK
<1>1. Init => Shape
  BY TypeInit
<1>2. Shape /\ [Next]_vars => Shape'
  BY TypeStep
<1>3. Shape => TypeOK
  BY DEF Shape
<1> QED
  BY <1>1, <1>2, <1>3, PTL DEF Spec

(***************************************************************************)
(* One Claw at a time.                                                     *)
(***************************************************************************)
\* The loop alone asks for the scope, while no Claw is picked; nothing else is asked for,
\* and nothing shown, before.
ScopeInv ==
  /\ \A t \in Ticks : /\ ticks[t].at = "scope" => t = Loop /\ claw = None
                      /\ ticks[t].at \in {"asked", "answered"} => claw # None
  /\ page.status = "shown" => claw # None

LEMMA ScopeInit == ASSUME Init PROVE ScopeInv /\ OwnClaw
BY DEF Init, ScopeInv, OwnClaw, Blank, Idle

LEMMA OwnStep ==
  ASSUME Shape, ScopeInv, OwnClaw, [Next]_vars
  PROVE  ScopeInv' /\ OwnClaw'
<1> USE DEF server
<1>1. ASSUME NEW k \in Keys, EventWritten(k) PROVE ScopeInv' /\ OwnClaw'
  <2>1. UNCHANGED <<claw, page, ticks>>
    BY <1>1 DEF EventWritten
  <2>2. PICK p \in 1..(Len(file[k]) + 1) : session' = Spoiled(session, Coming, k, p)
    BY <1>1 DEF EventWritten
  <2>3. session' # None => session # None /\ session'.late = session.late /\ session'.key = session.key
    <3>1. Coming \in Nat /\ p \in Nat
      BY ComingTyped, LenProperties DEF Shape, TypeOK
    <3>2. session \in Session \cup {None}
      BY DEF Shape, TypeOK
    <3> QED
      BY <2>2, <3>1, <3>2, SpoiledTyped, Zenon
  <2> QED
    BY <2>1, <2>3 DEF ScopeInv, OwnClaw
<1>2. ASSUME NEW k \in Keys, SnapshotChanges(k) PROVE ScopeInv' /\ OwnClaw'
  BY <1>2 DEF SnapshotChanges, ScopeInv, OwnClaw
<1>3. ASSUME NEW k \in Keys, Open(k) PROVE ScopeInv' /\ OwnClaw'
  BY <1>3, ForgottenTyped DEF Open, ScopeInv, OwnClaw, Shape
<1>4. ASSUME NEW t \in Ticks, TickStarts(t) PROVE ScopeInv' /\ OwnClaw'
  <2>1. UNCHANGED <<claw, page, session>> /\ (t # Loop => page.status = "shown")
    BY <1>4 DEF TickStarts
  <2>2. CASE claw = None
    <3>1. ticks' = [ticks EXCEPT ![t] = [Idle EXCEPT !.at = "scope"]] /\ t = Loop
      BY <1>4, <2>1, <2>2 DEF TickStarts, ScopeInv
    <3> QED
      BY <2>1, <2>2, <3>1 DEF ScopeInv, OwnClaw, Idle, Shape, TypeOK
  <2>3. CASE claw # None
    <3>1. ticks' = [ticks EXCEPT ![t] = Asking(claw)] /\ Asking(claw).at = "asked"
      BY <1>4, <2>3 DEF TickStarts, Asking, Idle
    <3> QED
      BY <2>1, <2>3, <3>1 DEF ScopeInv, OwnClaw, Shape, TypeOK
  <2> QED
    BY <2>2, <2>3
<1>5. ASSUME NEW t \in Ticks, ScopeLands(t) PROVE ScopeInv' /\ OwnClaw'
  <2>1. t = Loop /\ claw = None /\ session' = session
    BY <1>5 DEF ScopeLands, ScopeInv
  <2>2. ASSUME NEW c \in Claws, claw' = c, ticks' = [ticks EXCEPT ![t] = Asking(c)], page' = page
        PROVE  ScopeInv' /\ OwnClaw'
    <3>1. c # None /\ Asking(c).at = "asked"
      BY PageAssumption DEF Asking, Idle
    <3>2. page.claw # None => page.late
      BY <2>1 DEF OwnClaw, Shape, TypeOK, Page
    <3>3. session # None => session.late
      BY <2>1, PageAssumption DEF OwnClaw, Shape, TypeOK, Session
    <3>4. \A u \in Ticks : ticks'[u].at # "scope"
      BY <2>1, <2>2, <3>1 DEF ScopeInv, Shape, TypeOK
    <3> QED
      BY <2>1, <2>2, <3>1, <3>2, <3>3, <3>4 DEF ScopeInv, OwnClaw
  <2>3. CASE /\ claw' = claw /\ ticks' = [ticks EXCEPT ![t] = Idle]
             /\ page' = [page EXCEPT !.status = "denied"]
    BY <2>1, <2>3 DEF ScopeInv, OwnClaw, Idle, Shape, TypeOK, Page
  <2> QED
    BY <1>5, <2>2, <2>3 DEF ScopeLands
<1>6. ASSUME NEW t \in Ticks, RefreshServed(t) \/ RefreshRefused(t) PROVE ScopeInv' /\ OwnClaw'
  <2>1. ticks[t].at = "asked" /\ UNCHANGED <<claw, page, session>>
    BY <1>6 DEF RefreshServed, RefreshRefused
  <2>2. \E answer : ticks' = [ticks EXCEPT ![t].at = "answered", ![t].answer = answer]
    BY <1>6 DEF RefreshServed, RefreshRefused
  <2>3. \A u \in Ticks : ticks'[u].at = IF u = t THEN "answered" ELSE ticks[u].at
    BY <2>2 DEF Shape, TypeOK, Tick
  <2> QED
    BY <2>1, <2>3 DEF ScopeInv, OwnClaw
<1>7. ASSUME NEW t \in Ticks, RefreshLands(t) PROVE ScopeInv' /\ OwnClaw'
  <2>1. claw' = claw /\ claw # None /\ page' = Landed(t)
    BY <1>7 DEF RefreshLands, ScopeInv
  <2>2. page'.claw # None /\ ~page'.late => page'.claw = claw
    BY <2>1 DEF Landed, OwnClaw, Shape, TypeOK, Page
  <2>3. session' # None => session # None /\ session'.late = session.late /\ session'.key = session.key
    <3>1. session' = session \/ (session # None /\ session' = [session EXCEPT !.spoiled = TRUE])
      BY <1>7 DEF RefreshLands, Tails
    <3> QED
      BY <3>1 DEF Shape, TypeOK, Session
  <2>4. \A u \in Ticks : ticks'[u] = ticks[u] \/ ticks'[u].at \in {"idle", "tailing"}
    <3>1. \E tick : ticks' = [ticks EXCEPT ![t] = tick] /\ tick.at \in {"idle", "tailing"}
      <4>1. /\ Idle.at = "idle"
            /\ [Idle EXCEPT !.at = "tailing", !.claw = claw,
                            !.after = Len(session.events), !.mine = TRUE].at = "tailing"
        BY DEF Idle
      <4> QED
        BY <1>7, <4>1 DEF RefreshLands
    <3> QED
      BY <3>1 DEF Shape, TypeOK
  <2> QED
    BY <2>1, <2>2, <2>3, <2>4 DEF ScopeInv, OwnClaw
<1>8. ASSUME NEW t \in Ticks, TailLands(t) \/ TailFails(t) PROVE ScopeInv' /\ OwnClaw'
  <2>1. UNCHANGED <<claw, page>> /\ ticks' = [ticks EXCEPT ![t] = Idle]
    BY <1>8 DEF TailLands, TailFails
  <2>2. session' # None => session # None /\ session'.late = session.late /\ session'.key = session.key
    <3>1. \/ session' = session
          \/ /\ session # None
             /\ session' = [session EXCEPT !.events = @ \o ticks[t].sent]
      BY <1>8 DEF TailLands, TailFails, Shape, MineInv
    <3>2. \A events : session # None =>
            /\ [session EXCEPT !.events = events].late = session.late
            /\ [session EXCEPT !.events = events].key = session.key
      BY DEF Shape, TypeOK, Session
    <3> QED
      BY <3>1, <3>2
  <2>3. \A u \in Ticks : ticks'[u] = ticks[u] \/ ticks'[u].at = "idle"
    BY <2>1 DEF Idle, Shape, TypeOK
  <2> QED
    BY <2>1, <2>2, <2>3 DEF ScopeInv, OwnClaw
<1>9. ASSUME NEW c \in Claws, NEW t \in Clicks, PickClaw(c, t) PROVE ScopeInv' /\ OwnClaw'
  <2>1. claw # None /\ claw' = c /\ c # None /\ page' = Blank /\ session' = None
    BY <1>9, PageAssumption DEF PickClaw
  <2>2. \A u \in Ticks : ticks'[u].at = ticks[u].at \/ ticks'[u].at = "asked"
    BY <1>9, ForgottenTyped DEF PickClaw, Asking, Idle, Shape
  <2> QED
    BY <2>1, <2>2 DEF ScopeInv, OwnClaw, Blank
<1>10. CASE Leave
  BY <1>10, ForgottenTyped DEF Leave, ScopeInv, OwnClaw, Shape
<1>11. ASSUME NEW i \in DOMAIN loads, LoadLands(i) PROVE ScopeInv' /\ OwnClaw'
  <2>1. UNCHANGED <<claw, page>> /\ ticks' = Forgotten
    BY <1>11 DEF LoadLands
  <2>2. loads[i] \in Load /\ loads[i] \in Owned
    BY OwnedLoads DEF Shape
  <2>3. session' # None /\ ~session'.late => Home[session'.key] = claw
    <3>1. CASE loads[i].answer = None
      BY <1>11, <3>1 DEF LoadLands
    <3>2. CASE loads[i].answer # None
      <4>1. /\ session' = [loads[i].answer EXCEPT !.late = loads[i].claw # claw]
            /\ loads[i].answer \in Session /\ loads[i].answer.key = loads[i].key
            /\ loads[i].claw = Home[loads[i].key]
        BY <1>11, <2>2, <3>2 DEF LoadLands, Load, Owned
      <4>2. session'.key = loads[i].key /\ session'.late = (loads[i].claw # claw)
        BY <4>1 DEF Session
      <4> QED
        BY <4>1, <4>2
    <3> QED
      BY <3>1, <3>2
  <2> QED
    BY <2>1, <2>3, ForgottenTyped DEF ScopeInv, OwnClaw, Shape
<1>12. CASE UNCHANGED vars
  BY <1>12 DEF vars, ScopeInv, OwnClaw
<1>13. ASSUME NEW t \in Ticks, TailServed(t) PROVE ScopeInv' /\ OwnClaw'
  <2>1. ticks[t].at = "tailing" /\ UNCHANGED <<claw, page, session>>
    BY <1>13 DEF TailServed
  <2>2. \E sent : ticks' = [ticks EXCEPT ![t].at = "tailed", ![t].sent = sent]
    BY <1>13 DEF TailServed
  <2>3. \A u \in Ticks : ticks'[u].at = IF u = t THEN "tailed" ELSE ticks[u].at
    BY <2>2 DEF Shape, TypeOK, Tick
  <2> QED
    BY <2>1, <2>3 DEF ScopeInv, OwnClaw
<1>14. ASSUME NEW i \in DOMAIN loads, LoadServed(i) PROVE ScopeInv' /\ OwnClaw'
  BY <1>14 DEF LoadServed, ScopeInv, OwnClaw
<1> QED
  BY <1>1, <1>2, <1>3, <1>4, <1>5, <1>6, <1>7, <1>8, <1>9, <1>10, <1>11, <1>12, <1>13, <1>14 DEF Next

\* What is on the page of another Claw than the one picked was asked for before the pick:
\* a pick itself leaves nothing of the Claw before.
THEOREM OneClaw == Spec => []OwnClaw
<1>1. Init => Shape /\ ScopeInv /\ OwnClaw
  BY TypeInit, ScopeInit
<1>2. Shape /\ ScopeInv /\ OwnClaw /\ [Next]_vars => (Shape /\ ScopeInv /\ OwnClaw)'
  BY TypeStep, OwnStep
<1> QED
  BY <1>1, <1>2, PTL DEF Spec

(***************************************************************************)
(* The replay.                                                             *)
(***************************************************************************)
\* As long as nothing spoils it, one tick at most extends the replay, from its end, and
\* by what follows it.
ReplayInv ==
  session # None /\ ~session.spoiled =>
    /\ IsPrefix(session.events, file[session.key])
    /\ \A t \in Ticks : ticks[t].mine =>
         /\ ticks[t].after = Len(session.events)
         /\ IsPrefix(session.events \o ticks[t].sent, file[session.key])
         /\ \A u \in Ticks : ticks[u].mine => u = t

\* The same of a session on its way.
Sound ==
  {l \in Owned : l.answer # None /\ ~l.answer.spoiled =>
                   IsPrefix(l.answer.events, file[l.key])}

AnswerInv == loads \in Seq(Sound)

\* A tick that does not come to tail the session changes nothing.
LEMMA OneTickOff ==
  ASSUME Shape, ReplayInv, NEW t \in Ticks, NEW tick, ticks' = [ticks EXCEPT ![t] = tick],
         ~tick.mine, UNCHANGED <<file, session>>
  PROVE  ReplayInv'
<1>1. \A u \in Ticks : ticks'[u].mine => u # t /\ ticks'[u] = ticks[u]
  BY DEF Shape, TypeOK
<1> QED
  BY <1>1 DEF ReplayInv

\* An event written behind those shown leaves them, and those that come to them, the
\* first of the file.
LEMMA EventKeeps ==
  ASSUME Shape, ReplayInv, NEW k \in Keys, EventWritten(k), session' # None, ~session'.spoiled
  PROVE  /\ session' = session /\ IsPrefix(session.events, file'[session.key])
         /\ \A t \in Ticks : ticks[t].mine =>
              IsPrefix(session.events \o ticks[t].sent, file'[session.key])
<1> DEFINE e == Cardinality(Events) + 1
<1>1. e \in Written
  BY EventsCount, PageAssumption DEF EventWritten, Shape, Written
<1>2. PICK p \in 1..(Len(file[k]) + 1) :
        /\ file' = [file EXCEPT ![k] = InsertAt(@, p, e)]
        /\ session' = Spoiled(session, Coming, k, p)
  BY DEF EventWritten
<1> HIDE DEF e
<1>3. Coming \in Nat /\ p \in Nat /\ p \in Int
  BY ComingTyped, LenProperties DEF Shape, TypeOK
<1>4. session' = session /\ ~Behind(session, Coming, k, p) /\ session \in Session
  <2>1. session \in Session \cup {None}
    BY DEF Shape, TypeOK
  <2> QED
    BY <1>2, <1>3, <2>1, SpoiledTyped
<1>5. session # None /\ ~session.spoiled /\ session.key \in Keys /\ session.events \in Seq(Written)
      /\ Len(session.events) \in Nat
  BY <1>4, LenProperties DEF Session
<1>6. ASSUME NEW s \in Seq(Written), IsPrefix(s, file[session.key]),
             Len(s) <= Len(session.events) + Coming
      PROVE  IsPrefix(s, file'[session.key])
  <2>1. CASE session.key # k
    BY <1>2, <1>5, <1>6, <2>1 DEF Shape, TypeOK
  <2>2. CASE session.key = k
    <3>1. file[k] \in Seq(Written) /\ Len(s) \in Nat
      BY LenProperties DEF Shape, TypeOK
    <3>2. ~(p <= Len(s))
      BY <1>3, <1>4, <1>5, <1>6, <2>2, <3>1 DEF Behind
    <3>3. IsPrefix(s, InsertAt(file[k], p, e))
      BY <1>1, <1>6, <2>2, <3>1, <3>2, InsertKeeps
    <3> QED
      BY <1>2, <2>2, <3>3 DEF Shape, TypeOK
  <2> QED
    BY <2>1, <2>2
<1>7. ASSUME NEW t \in Ticks, ticks[t].mine
      PROVE  IsPrefix(session.events \o ticks[t].sent, file'[session.key])
  <2>1. ticks[t].sent \in Seq(Written)
    BY DEF Shape, TypeOK, Tick
  <2>2. /\ session.events \o ticks[t].sent \in Seq(Written)
        /\ Len(session.events \o ticks[t].sent) = Len(session.events) + Len(ticks[t].sent)
    BY <1>5, <2>1, ConcatProperties
  <2>3. {u \in Ticks : ticks[u].mine} = {t}
    BY <1>5, <1>7 DEF ReplayInv
  <2>4. Coming = Len(ticks[t].sent)
    BY <2>3 DEF Coming
  <2>5. Len(ticks[t].sent) \in Nat
    BY <2>1, LenProperties
  <2>6. IsPrefix(session.events \o ticks[t].sent, file[session.key])
    BY <1>5, <1>7 DEF ReplayInv
  <2> DEFINE both == session.events \o ticks[t].sent
  <2>7. both \in Seq(Written) /\ IsPrefix(both, file[session.key])
        /\ Len(both) <= Len(session.events) + Coming
    BY <1>3, <1>5, <2>2, <2>4, <2>5, <2>6
  <2> HIDE DEF both
  <2>8. IsPrefix(both, file'[session.key])
    BY <1>6, <2>7
  <2> QED
    BY <2>8 DEF both
<1>8. IsPrefix(session.events, file'[session.key])
  <2>1. Len(session.events) <= Len(session.events) + Coming
    BY <1>3, <1>5
  <2> QED
    BY <1>5, <1>6, <2>1 DEF ReplayInv
<1> QED
  BY <1>4, <1>7, <1>8

LEMMA AnswerStep ==
  ASSUME Shape, AnswerInv, [Next]_vars
  PROVE  AnswerInv'
<1> USE DEF server
<1>1. ASSUME UNCHANGED <<file, loads>> PROVE AnswerInv'
  BY <1>1 DEF AnswerInv, Sound
<1>2. CASE \/ UNCHANGED vars
           \/ \E k \in Keys : SnapshotChanges(k)
           \/ \E t \in Ticks : \/ TickStarts(t) \/ ScopeLands(t) \/ RefreshServed(t)
                               \/ RefreshRefused(t) \/ RefreshLands(t)
                               \/ TailServed(t) \/ TailFails(t) \/ TailLands(t)
           \/ \E c \in Claws, t \in Clicks : PickClaw(c, t)
           \/ Leave
  <2>1. UNCHANGED <<file, loads>>
    BY <1>2 DEF vars, SnapshotChanges, TickStarts, ScopeLands, RefreshServed, RefreshRefused,
                RefreshLands, TailServed, TailFails, TailLands, PickClaw, Leave
  <2> QED
    BY <1>1, <2>1
<1>3. ASSUME NEW k \in Keys, EventWritten(k) PROVE AnswerInv'
  <2> DEFINE e == Cardinality(Events) + 1
             Kept == Sound'
  <2>1. e \in Written
    BY <1>3, EventsCount, PageAssumption DEF EventWritten, Shape, Written
  <2>2. PICK p \in 1..(Len(file[k]) + 1) :
          /\ file' = [file EXCEPT ![k] = InsertAt(@, p, e)]
          /\ loads' = [i \in DOMAIN loads |->
                         [loads[i] EXCEPT !.answer = Spoiled(@, 0, k, p)]]
    BY <1>3 DEF EventWritten
  <2> HIDE DEF e
  <2>3. file[k] \in Seq(Written) /\ p \in Nat /\ p \in Int
    BY LenProperties DEF Shape, TypeOK
  <2>4. ASSUME NEW i \in DOMAIN loads
        PROVE  [loads[i] EXCEPT !.answer = Spoiled(@, 0, k, p)] \in Kept
    <3> DEFINE l == loads[i]
               r == Spoiled(l.answer, 0, k, p)
               m == [l EXCEPT !.answer = r]
    <3>1. l \in Sound /\ l \in Owned /\ l \in Load
      <4>1. i \in 1..Len(loads)
        BY LenProperties DEF AnswerInv
      <4>2. l \in Sound
        BY <4>1, ElementOfSeq DEF AnswerInv
      <4> QED
        BY <4>2 DEF Sound, Owned
    <3>0. l.answer \in Session \cup {None}
      BY <3>1 DEF Load
    <3>2. /\ r \in Session \cup {None} /\ (r # None <=> l.answer # None)
          /\ r # None => r.key = l.answer.key
          /\ r # None /\ ~r.spoiled => r = l.answer /\ ~Behind(l.answer, 0, k, p)
      BY <2>3, <3>0, SpoiledTyped
    <3> HIDE DEF r
    <3>3. m \in Owned /\ m.answer = r /\ m.key = l.key
      BY <3>1, <3>2 DEF Owned, Load
    <3>4. ASSUME r # None, ~r.spoiled PROVE IsPrefix(r.events, file'[l.key])
      <4>1. /\ r = l.answer /\ r \in Session /\ r.key = l.key /\ l.key \in Keys
            /\ ~(r.key = k /\ p <= Len(r.events) + 0)
            /\ IsPrefix(r.events, file[l.key])
        BY <3>1, <3>2, <3>4 DEF Behind, Sound, Owned, Load
      <4>2. r.events \in Seq(Written) /\ Len(r.events) \in Nat
        BY <4>1, LenProperties DEF Session
      <4>3. CASE l.key # k
        BY <2>2, <4>1, <4>3 DEF Shape, TypeOK
      <4>4. CASE l.key = k
        <5>1. ~(p <= Len(r.events))
          BY <2>3, <4>1, <4>2, <4>4
        <5>2. IsPrefix(r.events, InsertAt(file[k], p, e))
          BY <2>1, <2>3, <4>1, <4>2, <4>4, <5>1, InsertKeeps
        <5> QED
          BY <2>2, <4>4, <5>2 DEF Shape, TypeOK
      <4> QED
        BY <4>3, <4>4
    <3> HIDE DEF m, l
    <3>5. m \in Kept
      BY <3>3, <3>4 DEF Sound
    <3> QED
      BY <3>5 DEF m, l, r
  <2> HIDE DEF Kept
  <2>5. loads' \in Seq(Kept)
    <3>1. loads' \in [DOMAIN loads -> Kept]
      BY <2>2, <2>4
    <3> QED
      BY <3>1, SamePlaces DEF Shape
  <2> QED
    BY <2>5 DEF AnswerInv, Kept
<1>4. ASSUME NEW k \in Keys, Open(k) PROVE AnswerInv'
  <2>1. CASE UNCHANGED <<file, loads>>
    BY <1>1, <2>1
  <2>2. CASE loads' = Append(loads, Asks(k, claw)) /\ file' = file
    <3>1. Asks(k, claw) \in Sound
      BY AsksTyped DEF Sound, Shape, TypeOK
    <3>2. Append(loads, Asks(k, claw)) \in Seq(Sound)
      BY <3>1, AppendProperties DEF AnswerInv
    <3> QED
      BY <2>2, <3>2 DEF AnswerInv, Sound
  <2> QED
    BY <1>4, <2>1, <2>2 DEF Open
<1>5. ASSUME NEW i \in DOMAIN loads, LoadServed(i) PROVE AnswerInv'
  <2>1. loads[i] \in Load /\ loads[i] \in Owned /\ i \in 1..Len(loads)
    BY OwnedLoads DEF Shape
  <2>2. PICK found \in {Found(loads[i]), None} :
          loads' = [loads EXCEPT ![i].answered = TRUE, ![i].answer = found]
    BY <1>5 DEF LoadServed
  <2> DEFINE k    == loads[i].key
             load == [loads[i] EXCEPT !.answered = TRUE, !.answer = found]
  <2>3. /\ found \in Session \cup {None} /\ k \in Keys
        /\ found # None => /\ found.key = k /\ loads[i].claw = Home[k]
                           /\ found.events = Slice(k, 0)
    BY <2>1, <2>2, FoundTyped DEF Shape, Load
  <2>4. IsPrefix(Slice(k, 0), file[k])
    <3> HIDE DEF k
    <3>1. file[k] \in Seq(Written) /\ Len(file[k]) \in Nat
      BY <2>3, LenProperties DEF Shape, TypeOK
    <3>2. /\ Slice(k, 0) \in Seq(Written) /\ 0 + Len(Slice(k, 0)) <= Len(file[k])
          /\ \A j \in 1..Len(Slice(k, 0)) : Slice(k, 0)[j] = file[k][0 + j]
      BY <2>3, <3>1, SliceMeans DEF Shape
    <3>3. Len(Slice(k, 0)) \in Nat
      BY <3>2, LenProperties
    <3>4. Len(Slice(k, 0)) <= Len(file[k]) /\ \A j \in 1..Len(Slice(k, 0)) : Slice(k, 0)[j] = file[k][j]
      BY <3>2, <3>3
    <3> QED
      BY <3>1, <3>2, <3>4, PrefixMeans
  <2>5. load \in Owned /\ load.answer = found /\ load.key = k
    BY <2>1, <2>3 DEF Owned, Load
  <2>6. load \in Sound
    BY <2>3, <2>4, <2>5 DEF Sound
  <2>7. loads' = [loads EXCEPT ![i] = load] /\ file' = file
    BY <1>5, <2>2 DEF LoadServed
  <2> HIDE DEF load
  <2>8. [loads EXCEPT ![i] = load] \in Seq(Sound)
    BY <2>1, <2>6, ExceptSeq DEF AnswerInv
  <2> QED
    BY <2>7, <2>8 DEF AnswerInv, Sound
<1>6. ASSUME NEW i \in DOMAIN loads, LoadLands(i) PROVE AnswerInv'
  <2>1. RemoveAt(loads, i) \in Seq(Sound)
    BY RemoveTyped DEF AnswerInv
  <2>2. loads' = RemoveAt(loads, i) /\ file' = file
    BY <1>6 DEF LoadLands
  <2> QED
    BY <2>1, <2>2 DEF AnswerInv, Sound
<1> QED
  BY <1>2, <1>3, <1>4, <1>5, <1>6 DEF Next

LEMMA ReplayStep ==
  ASSUME Shape, AnswerInv, ReplayInv, [Next]_vars
  PROVE  ReplayInv'
<1> USE DEF server
<1>1. ASSUME UNCHANGED <<file, session, ticks>> PROVE ReplayInv'
  BY <1>1 DEF ReplayInv
<1>2. ASSUME NEW k \in Keys, EventWritten(k) PROVE ReplayInv'
  <2> SUFFICES ASSUME session' # None, ~session'.spoiled PROVE ReplayInv'
    BY DEF ReplayInv
  <2>1. ticks' = ticks
    BY <1>2 DEF EventWritten
  <2> QED
    BY <1>2, <2>1, EventKeeps DEF ReplayInv
<1>3. ASSUME NEW k \in Keys, SnapshotChanges(k) PROVE ReplayInv'
  BY <1>1, <1>3 DEF SnapshotChanges
<1>4. ASSUME session' = None PROVE ReplayInv'
  BY <1>4 DEF ReplayInv
<1>5. ASSUME NEW k \in Keys, Open(k) PROVE ReplayInv'
  BY <1>1, <1>4, <1>5 DEF Open
<1>6. ASSUME NEW t \in Ticks, TickStarts(t) PROVE ReplayInv'
  <2>1. ~Asking(claw).mine /\ ~[Idle EXCEPT !.at = "scope"].mine
    BY DEF Asking, Idle
  <2>2. UNCHANGED <<file, session>>
    BY <1>6 DEF TickStarts
  <2> QED
    BY <1>6, <2>1, <2>2, OneTickOff DEF TickStarts
<1>7. ASSUME NEW t \in Ticks, ScopeLands(t) PROVE ReplayInv'
  <2>1. \A c : ~Asking(c).mine /\ ~Idle.mine
    BY DEF Asking, Idle
  <2>2. UNCHANGED <<file, session>>
    BY <1>7 DEF ScopeLands
  <2> QED
    BY <1>7, <2>1, <2>2, OneTickOff DEF ScopeLands
<1>8. ASSUME NEW t \in Ticks, RefreshServed(t) \/ RefreshRefused(t) PROVE ReplayInv'
  <2>1. PICK answer : ticks' = [ticks EXCEPT ![t].at = "answered", ![t].answer = answer]
    BY <1>8 DEF RefreshServed, RefreshRefused
  <2>2. ticks[t] \in Tick /\ ~ticks[t].mine
    BY <1>8 DEF RefreshServed, RefreshRefused, Shape, TypeOK, MineInv
  <2>3. ~[ticks[t] EXCEPT !.at = "answered", !.answer = answer].mine
    BY <2>2 DEF Tick
  <2>4. UNCHANGED <<file, session>>
    BY <1>8 DEF RefreshServed, RefreshRefused
  <2> QED
    BY <2>1, <2>3, <2>4, OneTickOff
<1>9. ASSUME NEW t \in Ticks, RefreshLands(t) PROVE ReplayInv'
  <2>1. file' = file
    BY <1>9 DEF RefreshLands
  <2>2. CASE Tails(page')
    <3> DEFINE tick == [Idle EXCEPT !.at = "tailing", !.claw = claw,
                                    !.after = Len(session.events), !.mine = TRUE]
    <3>1. tick.after = Len(session.events) /\ tick.sent = <<>>
      BY DEF Idle
    <3>2. ticks' = [ticks EXCEPT ![t] = tick]
      BY <1>9, <2>2 DEF RefreshLands
    <3>3. CASE \E u \in Ticks \ {t} : ticks[u].mine
      <4>1. session' = [session EXCEPT !.spoiled = TRUE] /\ session \in Session
        BY <1>9, <2>2, <3>3 DEF RefreshLands, Tails, Shape, TypeOK
      <4>2. session'.spoiled
        BY <4>1 DEF Session
      <4> QED
        BY <4>2 DEF ReplayInv
    <3>4. CASE ~\E u \in Ticks \ {t} : ticks[u].mine
      <4>1. session' = session
        BY <1>9, <2>2, <3>4 DEF RefreshLands
      <4> HIDE DEF tick
      <4>2. \A u \in Ticks : ticks'[u].mine => u = t
        BY <3>2, <3>4 DEF Shape, TypeOK, MineInv
      <4>3. ticks'[t] = tick
        BY <3>2 DEF Shape, TypeOK
      <4>4. session # None => session.events \o <<>> = session.events
        BY DEF Shape, TypeOK, Session
      <4> QED
        BY <2>1, <3>1, <4>1, <4>2, <4>3, <4>4 DEF ReplayInv
    <3> QED
      BY <3>3, <3>4
  <2>3. CASE ~Tails(page')
    <3>1. ticks' = [ticks EXCEPT ![t] = Idle] /\ session' = session /\ ~Idle.mine
      BY <1>9, <2>3 DEF RefreshLands, Idle
    <3> QED
      BY <2>1, <3>1, OneTickOff
  <2> QED
    BY <2>2, <2>3
<1>10. ASSUME NEW t \in Ticks, TailLands(t) \/ TailFails(t) PROVE ReplayInv'
  <2>1. file' = file /\ ticks' = [ticks EXCEPT ![t] = Idle] /\ ~Idle.mine
    BY <1>10 DEF TailLands, TailFails, Idle
  <2>2. CASE session' = session
    BY <2>1, <2>2, OneTickOff
  <2>3. CASE /\ ticks[t].mine
             /\ session' = [session EXCEPT !.events = @ \o ticks[t].sent]
    <3>1. session # None /\ session \in Session
      BY <2>3 DEF Shape, TypeOK, MineInv
    <3> DEFINE events == session.events \o ticks[t].sent
    <3>2. session'.events = events /\ session'.key = session.key /\ session'.spoiled = session.spoiled
      BY <2>3, <3>1 DEF Session
    <3>3. ASSUME ~session.spoiled
          PROVE  /\ IsPrefix(events, file[session.key])
                 /\ \A u \in Ticks : ~ticks'[u].mine
      <4>1. /\ IsPrefix(events, file[session.key])
            /\ \A u \in Ticks : ticks[u].mine => u = t
        BY <2>3, <3>1, <3>3 DEF ReplayInv
      <4>3. \A u \in Ticks : ~ticks'[u].mine
        BY <2>1, <4>1 DEF Shape, TypeOK
      <4> QED
        BY <4>1, <4>3
    <3> HIDE DEF events
    <3> QED
      BY <2>1, <3>2, <3>3 DEF ReplayInv
  <2> QED
    BY <1>10, <2>2, <2>3 DEF TailLands, TailFails
<1>11. ASSUME NEW c \in Claws, NEW t \in Clicks, PickClaw(c, t) PROVE ReplayInv'
  BY <1>4, <1>11 DEF PickClaw
<1>12. CASE Leave
  BY <1>4, <1>12 DEF Leave
<1>13. ASSUME NEW i \in DOMAIN loads, LoadLands(i) PROVE ReplayInv'
  <2>1. loads[i] \in Sound /\ loads[i] \in Owned /\ loads[i] \in Load
    BY LenProperties, ElementOfSeq DEF AnswerInv, Sound, Owned
  <2>2. CASE session' = None
    BY <1>4, <2>2
  <2>3. CASE session' # None
    <3> DEFINE s == loads[i].answer
    <3>1. /\ s # None /\ s \in Session /\ session' = [s EXCEPT !.late = loads[i].claw # claw]
          /\ s.key = loads[i].key /\ file' = file
      BY <1>13, <2>1, <2>3 DEF LoadLands, Load, Owned
    <3>2. \A t \in Ticks : ~ticks'[t].mine
      BY <1>13, ForgottenTyped DEF LoadLands, Shape
    <3>3. ~s.spoiled => IsPrefix(s.events, file[s.key])
      BY <2>1, <3>1 DEF Sound
    <3> HIDE DEF s
    <3>4. session'.key = s.key /\ session'.events = s.events /\ session'.spoiled = s.spoiled
      BY <3>1 DEF Session
    <3> QED
      BY <3>1, <3>2, <3>3, <3>4 DEF ReplayInv
  <2> QED
    BY <2>2, <2>3
<1>14. CASE UNCHANGED vars
  BY <1>1, <1>14 DEF vars
<1>15. ASSUME NEW t \in Ticks, TailServed(t) PROVE ReplayInv'
  <2> DEFINE sent == IF ticks[t].mine /\ ticks[t].claw = Home[session.key]
                     THEN Slice(session.key, ticks[t].after) ELSE <<>>
             tick == [ticks[t] EXCEPT !.at = "tailed", !.sent = sent]
  <2>1. /\ ticks' = [ticks EXCEPT ![t] = tick] /\ UNCHANGED <<file, session>>
        /\ ticks[t] \in Tick /\ ticks' \in [Ticks -> Tick]
    BY <1>15, TypeStep DEF TailServed, Shape, TypeOK, Next
  <2>2. /\ tick.mine = ticks[t].mine /\ tick.after = ticks[t].after /\ tick.sent = sent
        /\ ticks'[t] = tick /\ \A u \in Ticks \ {t} : ticks'[u] = ticks[u]
    BY <2>1 DEF Tick, Shape, TypeOK
  <2>3. ASSUME session # None, ~session.spoiled, ticks[t].mine
        PROVE  IsPrefix(session.events \o sent, file[session.key])
    <3>1. /\ IsPrefix(session.events, file[session.key]) /\ ticks[t].after = Len(session.events)
          /\ session.key \in Keys /\ session.events \in Seq(Written)
      BY <2>3 DEF ReplayInv, Shape, TypeOK, Session
    <3>2. CASE sent = Slice(session.key, ticks[t].after)
      BY <3>1, <3>2, SliceExtends DEF Shape
    <3>3. CASE sent = <<>>
      <4>1. session.events \o <<>> = session.events
        BY <3>1
      <4> QED
        BY <3>1, <3>3, <4>1
    <3> QED
      BY <3>2, <3>3
  <2> HIDE DEF tick, sent
  <2> QED
    BY <2>1, <2>2, <2>3 DEF ReplayInv
<1>16. ASSUME NEW i \in DOMAIN loads, LoadServed(i) PROVE ReplayInv'
  BY <1>1, <1>16 DEF LoadServed
<1> QED
  BY <1>2, <1>3, <1>5, <1>6, <1>7, <1>8, <1>9, <1>10, <1>11, <1>12, <1>13, <1>14, <1>15, <1>16 DEF Next

\* A replay that nothing spoiled holds the first events of its file, none twice and none
\* left out, however it was cut into pages and however long an answer was on its way.
THEOREM FaithfulReplay == Spec => []ReplayIsFaithful
<1>1. Init => Shape /\ AnswerInv /\ ReplayInv
  <2>1. Init => loads = <<>> \/ (route \in Keys /\ loads = <<Asks(route, None)>>)
    BY DEF Init
  <2>2. \A k \in Keys : Asks(k, None) \in Sound
    BY AsksTyped DEF Sound
  <2>3. Init => AnswerInv
    <3>1. <<>> \in Seq(Sound) /\ \A x \in Sound : <<x>> \in Seq(Sound)
      BY EmptySeq
    <3> QED
      BY <2>1, <2>2, <3>1 DEF AnswerInv
  <2> QED
    BY <2>3, TypeInit DEF Init, ReplayInv
<1>2. Shape /\ AnswerInv /\ ReplayInv /\ [Next]_vars => (Shape /\ AnswerInv /\ ReplayInv)'
  BY TypeStep, AnswerStep, ReplayStep
<1>3. ReplayInv => ReplayIsFaithful
  BY DEF ReplayInv, ReplayIsFaithful
<1> QED
  BY <1>1, <1>2, <1>3, PTL DEF Spec
===============================================================================
