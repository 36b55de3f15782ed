--------------------------- MODULE BoardPages_proofs ------------------------
(***************************************************************************)
(* What the pages of a board show of the store they share, for any cards,   *)
(* columns, people and days and any number of changes: the team table's     *)
(* sums, the chart's past, the calendar's cells and the rows of the Tasks   *)
(* tab; and where a dropped card lands.                                    *)
(*                                                                         *)
(* The invariant is about the cards: each is in a column of the store       *)
(* (Placed), none has a date ahead (NothingAhead), what is done says since  *)
(* when (DoneIsDated), and of every day that has passed a card says what    *)
(* was so when the day ended (Remembered).  The lists then follow from what *)
(* Sorted does (SortedIs) and the sums from SumIs.                          *)
(***************************************************************************)
EXTENDS BoardPages, FiniteSetTheorems, TLAPS

-----------------------------------------------------------------------------
(* Sorted *)

\* The relation is a strict order of all of S.
Orders(R, S) ==
  /\ \A x \in S : <<x, x>> \notin R
  /\ \A x, y \in S : x # y => <<x, y>> \in R \/ <<y, x>> \in R
  /\ \A x, y, z \in S : <<x, y>> \in R /\ <<y, z>> \in R => <<x, z>> \in R

\* Each element of a finite set has a place of its own, and they are in order.
LEMMA SortedIs ==
  ASSUME NEW S, IsFiniteSet(S), NEW R, Orders(R, S)
  PROVE  /\ Cardinality(S) \in Nat
         /\ Sorted(S, R) \in [1 .. Cardinality(S) -> S]
         /\ \A x \in S : \E i \in 1 .. Cardinality(S) : Sorted(S, R)[i] = x
         /\ \A i, j \in 1 .. Cardinality(S) :
              i < j => <<Sorted(S, R)[i], Sorted(S, R)[j]>> \in R
<1> DEFINE N == Cardinality(S)
           below(x) == {y \in S : <<y, x>> \in R}
           rank == [x \in S |-> Cardinality(below(x))]
           s == Sorted(S, R)
<1>1. N \in Nat BY FS_CardinalityType
<1>2. ASSUME NEW x \in S PROVE IsFiniteSet(below(x)) /\ rank[x] \in 0 .. N - 1
  <2>1. below(x) \in SUBSET (S \ {x}) BY DEF Orders
  <2>2. IsFiniteSet(S \ {x}) /\ Cardinality(S \ {x}) = N - 1 BY FS_RemoveElement
  <2>3. IsFiniteSet(below(x)) /\ Cardinality(below(x)) <= Cardinality(S \ {x})
    BY <2>1, <2>2, FS_Subset
  <2>4. Cardinality(below(x)) \in Nat BY <2>3, FS_CardinalityType
  <2>5. rank[x] = Cardinality(below(x)) OBVIOUS
  <2> HIDE DEF rank, N, below
  <2> QED BY <1>1, <2>2, <2>3, <2>4, <2>5
<1>3. ASSUME NEW x \in S, NEW y \in S, <<x, y>> \in R PROVE rank[x] < rank[y]
  <2> DEFINE a == below(x)
             b == below(y)
  <2>1. IsFiniteSet(a) /\ IsFiniteSet(b) BY <1>2
  <2>2. x \notin a BY DEF Orders
  <2>3. a \cup {x} \in SUBSET b BY <1>3 DEF Orders
  <2>4. rank[x] = Cardinality(a) /\ rank[y] = Cardinality(b) OBVIOUS
  <2>5. rank[x] \in 0 .. N - 1 /\ rank[y] \in 0 .. N - 1 BY <1>2
  <2> HIDE DEF a, b, rank, below
  <2>6. Cardinality(a \cup {x}) = Cardinality(a) + 1 BY <2>1, <2>2, FS_AddElement
  <2>7. Cardinality(a \cup {x}) <= Cardinality(b) BY <2>1, <2>3, FS_Subset
  <2> QED BY <1>1, <2>4, <2>5, <2>6, <2>7
<1> DEFINE T == 0 .. N - 1
<1>4. IsFiniteSet(T) /\ Cardinality(T) = N
  <2>1. 0 \in Int /\ N - 1 \in Int BY <1>1
  <2>2. IsFiniteSet(0 .. N - 1) /\ Cardinality(0 .. N - 1) = IF 0 > N - 1 THEN 0 ELSE N - 1 - 0 + 1
    BY <2>1, FS_Interval
  <2> HIDE DEF N
  <2> QED BY <1>1, <2>2
<1>5. rank \in Injection(S, T)
  <2>1. rank \in [S -> T] BY <1>2
  <2>2. ASSUME NEW x \in S, NEW y \in S, rank[x] = rank[y] PROVE x = y
    <3>1. rank[x] \in T /\ rank[y] \in T BY <2>1
    <3>2. ~(rank[x] < rank[y]) /\ ~(rank[y] < rank[x])
      <4> HIDE DEF rank, N
      <4> QED BY <1>1, <2>2, <3>1
    <3>3. <<x, y>> \notin R /\ <<y, x>> \notin R BY <1>3, <3>2
    <3> QED BY <3>3 DEF Orders
  <2> HIDE DEF rank, T
  <2> QED BY <2>1, <2>2 DEF Injection, IsInjective
<1> HIDE DEF T
<1>6. rank \in Surjection(S, T) BY <1>4, <1>5, FS_Injection
<1>7. \A i \in 1 .. N : \E x \in S : rank[x] = i - 1
  <2>1. \A n \in T : \E x \in S : rank[x] = n BY <1>6 DEF Surjection
  <2>2. \A i \in 1 .. N : i - 1 \in T BY <1>1 DEF T
  <2> HIDE DEF rank, N
  <2> QED BY <2>1, <2>2
<1>8. \A x \in S : Cardinality(below(x)) = rank[x] OBVIOUS
<1>9. s = [i \in 1 .. N |-> CHOOSE x \in S : Cardinality(below(x)) = i - 1] BY DEF Sorted
<1>10. s = [i \in 1 .. N |-> s[i]]
       /\ \A i \in 1 .. N : s[i] \in S /\ rank[s[i]] = i - 1
  <2> HIDE DEF below, rank, s, N
  <2> QED BY <1>7, <1>8, <1>9
<1>11. s \in [1 .. N -> S] BY <1>10
<1>12. ASSUME NEW x \in S PROVE \E i \in 1 .. N : s[i] = x
  <2>1. rank[x] \in 0 .. N - 1 BY <1>2
  <2>2. rank[x] + 1 \in 1 .. N /\ (rank[x] + 1) - 1 = rank[x]
    <3> HIDE DEF rank, N
    <3> QED BY <1>1, <2>1
  <2>3. s[rank[x] + 1] \in S /\ rank[s[rank[x] + 1]] = rank[x] BY <1>10, <2>2
  <2> HIDE DEF s, rank, N
  <2>4. s[rank[x] + 1] = x BY <1>5, <2>3 DEF Injection, IsInjective
  <2> QED BY <2>2, <2>4
<1>13. ASSUME NEW i \in 1 .. N, NEW j \in 1 .. N, i < j PROVE <<s[i], s[j]>> \in R
  <2>1. s[i] \in S /\ s[j] \in S /\ rank[s[i]] = i - 1 /\ rank[s[j]] = j - 1 BY <1>10
  <2> HIDE DEF s, rank, N, below
  <2>2. i - 1 < j - 1 /\ ~(j - 1 < i - 1) /\ i - 1 # j - 1 BY <1>1, <1>13
  <2>3. s[i] # s[j] /\ <<s[j], s[i]>> \notin R BY <1>3, <2>1, <2>2
  <2> QED BY <2>1, <2>3 DEF Orders
<1> HIDE DEF s, N
<1> QED BY <1>1, <1>11, <1>12, <1>13 DEF s, N

\* The same of a sequence: it lists the set, each element once.
LEMMA SortedLists ==
  ASSUME NEW S, IsFiniteSet(S), NEW R, Orders(R, S)
  PROVE  /\ Sorted(S, R) \in Seq(S) /\ Len(Sorted(S, R)) = Cardinality(S)
         /\ Cardinality(S) \in Nat /\ ToSet(Sorted(S, R)) = S
<1> DEFINE s == Sorted(S, R)
           N == Cardinality(S)
<1>1. /\ N \in Nat /\ s \in [1 .. N -> S] /\ \A x \in S : \E i \in 1 .. N : s[i] = x
  BY SortedIs
<1> HIDE DEF s, N
<1>2. s \in Seq(S) /\ Len(s) = N BY <1>1
<1>3. ToSet(s) = S BY <1>1 DEF ToSet
<1> QED BY <1>1, <1>2, <1>3 DEF s, N

\* A set of naturals that is finite and not empty has a greatest element.
LEMMA MaxIs ==
  ASSUME NEW S \in SUBSET Nat, IsFiniteSet(S), S # {}
  PROVE  Max(S) \in S /\ \A y \in S : Max(S) >= y
<1> DEFINE R == {p \in S \X S : p[1] < p[2]}
           N == Cardinality(S)
           s == Sorted(S, R)
<1>1. \A x, y \in S : <<x, y>> \in R <=> x < y
  <2>1. \A x, y \in S : <<x, y>>[1] = x /\ <<x, y>>[2] = y /\ <<x, y>> \in S \X S OBVIOUS
  <2> QED BY <2>1
<1> HIDE DEF R
<1>2. Orders(R, S) BY <1>1 DEF Orders
<1>3. /\ N \in Nat /\ s \in [1 .. N -> S] /\ \A x \in S : \E i \in 1 .. N : s[i] = x
      /\ \A i, j \in 1 .. N : i < j => <<s[i], s[j]>> \in R
  BY <1>2, SortedIs
<1>4. N # 0 BY FS_EmptySet
<1> HIDE DEF N, s
<1>5. N \in 1 .. N BY <1>3, <1>4
<1>6. s[N] \in S BY <1>3, <1>5
<1>7. ASSUME NEW y \in S PROVE s[N] >= y
  <2>1. PICK i \in 1 .. N : s[i] = y BY <1>3
  <2>0. y \in Nat /\ s[N] \in Nat BY <1>6
  <2>2. CASE i = N BY <2>0, <2>1, <2>2
  <2>3. CASE i < N
    <3>1. <<s[i], s[N]>> \in R BY <1>3, <1>5, <2>3
    <3>2. y < s[N] BY <1>1, <1>6, <2>1, <3>1
    <3> QED BY <2>0, <3>2
  <2> QED BY <1>3, <2>2, <2>3
<1> QED BY <1>6, <1>7 DEF Max

-----------------------------------------------------------------------------
(* Types *)

FilterType ==
  [who : Users \cup {None, Unassigned}, prio : SUBSET Priorities, tags : SUBSET Tags]

TypeOK ==
  /\ card \in [Live -> CardType] /\ Live \subseteq Cards
  /\ cat = [c \in DOMAIN cat |-> cat[c]] /\ DOMAIN cat \subseteq Columns
  /\ members \subseteq Users
  /\ filter \in FilterType
  /\ day \in Nat /\ memoDay \in Nat
  /\ DOMAIN openAt \subseteq 0 .. day - 1
  /\ openAt = [d \in DOMAIN openAt |-> openAt[d]]

\* A card is in one of the store's columns.
Placed == \A k \in Live : card[k].col \in DOMAIN cat

\* The sets that are counted are finite.
LEMMA Finite ==
  ASSUME TypeOK
  PROVE  /\ IsFiniteSet(Live) /\ IsFiniteSet(DOMAIN cat)
         /\ \A S \in SUBSET Live : IsFiniteSet(S) /\ Cardinality(S) \in Nat
<1>1. Live \in SUBSET Cards /\ DOMAIN cat \in SUBSET Columns BY DEF TypeOK
<1>2. IsFiniteSet(Cards) /\ IsFiniteSet(Columns) BY PagesAssumption
<1>3. IsFiniteSet(Live) /\ IsFiniteSet(DOMAIN cat) BY <1>1, <1>2, FS_Subset
<1>4. ASSUME NEW S \in SUBSET Live PROVE IsFiniteSet(S) /\ Cardinality(S) \in Nat
  <2>1. IsFiniteSet(S) BY <1>3, FS_Subset
  <2> QED BY <2>1, FS_CardinalityType
<1> QED BY <1>3, <1>4

\* What is known of a card's fields.
LEMMA CardFields ==
  ASSUME TypeOK, NEW k \in Live
  PROVE  /\ card[k].col \in Nat /\ card[k].pos \in Nat /\ card[k].turn \in Nat
         /\ card[k].due \in Nat \cup {NoDay}
         /\ card[k].who \in Users \cup {None} /\ card[k].prio \in Priorities \cup {None}
         /\ card[k].tags \subseteq Tags /\ card[k].done \in BOOLEAN
         /\ card[k].doneAt \in Int /\ card[k].made \in Int /\ k \in Nat
         /\ card[k].due \in DueDays \cup {NoDay}
<1>1. card[k] \in CardType /\ k \in Cards BY DEF TypeOK
<1>2. Cards \subseteq Nat /\ Columns \subseteq Nat /\ DueDays \subseteq Nat BY PagesAssumption
<1> QED BY <1>1, <1>2 DEF CardType

\* The order of the store is one of all its cards.
LEMMA InOrderIs ==
  ASSUME TypeOK
  PROVE  \A a, b \in Live : <<a, b>> \in InOrder <=>
           \/ card[a].col < card[b].col
           \/ card[a].col = card[b].col /\ Before(a, b)
<1> SUFFICES ASSUME NEW a \in Live, NEW b \in Live
             PROVE  <<a, b>> \in InOrder <=>
                      \/ card[a].col < card[b].col
                      \/ card[a].col = card[b].col /\ Before(a, b)
  OBVIOUS
<1>1. <<a, b>>[1] = a /\ <<a, b>>[2] = b /\ <<a, b>> \in Live \X Live OBVIOUS
<1> QED BY <1>1 DEF InOrder

\* Column, position, turn and id together leave no two cards in one place.
LEMMA InOrderOrders ==
  ASSUME TypeOK, NEW S \in SUBSET Live
  PROVE  Orders(InOrder, S)
<1>1. \A a, b \in S : <<a, b>> \in InOrder <=>
        \/ card[a].col < card[b].col
        \/ /\ card[a].col = card[b].col
           /\ \/ card[a].pos < card[b].pos
              \/ card[a].pos = card[b].pos /\ card[a].turn < card[b].turn
              \/ card[a].pos = card[b].pos /\ card[a].turn = card[b].turn /\ a < b
  BY InOrderIs DEF Before
<1>2. \A a \in S : /\ card[a].col \in Nat /\ card[a].pos \in Nat
                   /\ card[a].turn \in Nat /\ a \in Nat
  BY CardFields
<1>3. \A x \in S : <<x, x>> \notin InOrder BY <1>1, <1>2
<1>4. \A x, y \in S : x # y => <<x, y>> \in InOrder \/ <<y, x>> \in InOrder BY <1>1, <1>2
<1>5. \A x, y, z \in S :
        <<x, y>> \in InOrder /\ <<y, z>> \in InOrder => <<x, z>> \in InOrder
  BY <1>1, <1>2
<1> QED BY <1>3, <1>4, <1>5 DEF Orders

\* What passes a filter is listed, each card once.
LEMMA ListIs ==
  ASSUME TypeOK, NEW S \in SUBSET Live
  PROVE  /\ Sorted(S, InOrder) \in Seq(S) /\ ToSet(Sorted(S, InOrder)) = S
         /\ Len(Sorted(S, InOrder)) = Cardinality(S) /\ Cardinality(S) \in Nat
BY InOrderOrders, Finite, SortedLists

\* The greatest of some cards' numbers, 0 if there are none.
LEMMA GreatestIs ==
  ASSUME TypeOK, NEW T \in SUBSET Live, NEW f \in [T -> Nat]
  PROVE  LET m == Max({0} \cup {f[j] : j \in T}) IN m \in Nat /\ \A j \in T : m >= f[j]
<1> DEFINE P == {f[j] : j \in T}
<1>1. IsFiniteSet(T) BY Finite
<1>2. P \in SUBSET Nat OBVIOUS
<1>3. f \in Surjection(T, P) BY DEF Surjection
<1>4. \A j \in T : f[j] \in P OBVIOUS
<1> HIDE DEF P
<1>5. IsFiniteSet(P) BY <1>1, <1>3, FS_Surjection
<1>6. IsFiniteSet(P \cup {0}) BY <1>5, FS_AddElement
<1>7. {0} \cup P = P \cup {0} OBVIOUS
<1>8. P \cup {0} \in SUBSET Nat /\ P \cup {0} # {} BY <1>2
<1>9. Max(P \cup {0}) \in P \cup {0} /\ \A y \in P \cup {0} : Max(P \cup {0}) >= y
  BY <1>6, <1>8, MaxIs
<1>10. Max({0} \cup P) \in Nat /\ \A j \in T : Max({0} \cup P) >= f[j]
  BY <1>4, <1>7, <1>8, <1>9
<1> QED BY <1>10 DEF P

\* The end of a column is a position behind all others.
LEMMA EndIs ==
  ASSUME TypeOK, NEW c, NEW k
  PROVE  EndOf(c, k) \in Nat /\ \A j \in InColumn(c) \ {k} : card[j].pos < EndOf(c, k)
<1> DEFINE T == InColumn(c) \ {k}
           f == [j \in T |-> card[j].pos]
           m == Max({0} \cup {f[j] : j \in T})
<1>1. T \in SUBSET Live BY DEF InColumn
<1>2. f \in [T -> Nat] BY <1>1, CardFields
<1>3. \A j \in T : f[j] = card[j].pos OBVIOUS
<1>4. EndOf(c, k) = m + POSITION_GAP
  <2>1. {card[j].pos : j \in T} = {f[j] : j \in T} BY <1>3
  <2> QED BY <2>1 DEF EndOf
<1> HIDE DEF f, T
<1>5. m \in Nat /\ \A j \in T : m >= f[j] BY <1>1, <1>2, GreatestIs
<1> HIDE DEF m
<1>6. \A j \in T : card[j].pos < m + POSITION_GAP
  <2>1. \A j \in T : card[j].pos \in Nat BY <1>1, CardFields
  <2> QED BY <1>3, <1>5, <2>1, PagesAssumption
<1> QED BY <1>4, <1>5, <1>6, PagesAssumption DEF T

\* The next turn at a position comes after those that were taken there.
LEMMA TurnIs ==
  ASSUME TypeOK, NEW c, NEW k, NEW p
  PROVE  /\ LastTurn(c, k, p) \in Nat
         /\ \A j \in InColumn(c) \ {k} : card[j].pos = p => card[j].turn < LastTurn(c, k, p)
<1> DEFINE T == {i \in InColumn(c) \ {k} : card[i].pos = p}
           f == [j \in T |-> card[j].turn + 1]
           m == Max({0} \cup {f[j] : j \in T})
<1>1. T \in SUBSET Live BY DEF InColumn
<1>2. f \in [T -> Nat] BY <1>1, CardFields
<1>3. \A j \in T : f[j] = card[j].turn + 1 OBVIOUS
<1>4. LastTurn(c, k, p) = m
  <2>1. {card[j].turn + 1 : j \in T} = {f[j] : j \in T} BY <1>3
  <2> QED BY <2>1 DEF LastTurn
<1> HIDE DEF f, T
<1>5. m \in Nat /\ \A j \in T : m >= f[j] BY <1>1, <1>2, GreatestIs
<1> HIDE DEF m
<1>6. \A j \in T : card[j].turn < m
  <2>1. \A j \in T : card[j].turn \in Nat BY <1>1, CardFields
  <2> QED BY <1>3, <1>5, <2>1
<1> QED BY <1>4, <1>5, <1>6 DEF T

\* So is what calcPosition finds: a number between those of the cards on either
\* side of the place, or that of one of them.
LEMMA PositionIs ==
  ASSUME TypeOK, NEW c, NEW k, NEW half, NEW over,
         over = NoId \/ over \in InColumn(c) \ {k}
  PROVE  LET p == calcPosition(c, over, k, half) IN
         /\ p \in Nat
         /\ over = NoId => \A j \in InColumn(c) \ {k} : card[j].pos < p
         /\ over # NoId => \A j \in InColumn(c) \ {k} :
              IF Before(j, over) \/ (j = over /\ half = "lower")
              THEN card[j].pos <= p ELSE p <= card[j].pos
<1>1. CASE over = NoId BY <1>1, EndIs DEF calcPosition
<1>2. CASE over # NoId
  <2> DEFINE S == InColumn(c) \ {k}
             s == Sorted(S, InOrder)
             N == Cardinality(S)
             i == CHOOSE j \in DOMAIN s : s[j] = over
             prev == IF i > 1 THEN card[s[i - 1]].pos ELSE 0
             next == IF i < Len(s) THEN card[s[i + 1]].pos
                     ELSE card[over].pos + 2 * POSITION_GAP
             p == calcPosition(c, over, k, half)
  <2>1. S \in SUBSET Live /\ over \in S /\ \A j \in S : card[j].col = c BY <1>2 DEF InColumn
  <2>2. /\ s \in Seq(S) /\ Len(s) = N /\ N \in Nat /\ s \in [1 .. N -> S]
        /\ \A j \in S : \E m \in 1 .. N : s[m] = j
        /\ \A m, n \in 1 .. N : m < n => <<s[m], s[n]>> \in InOrder
    <3>1. Orders(InOrder, S) /\ IsFiniteSet(S) BY <2>1, InOrderOrders, Finite
    <3> HIDE DEF S
    <3> QED BY <3>1, SortedIs, SortedLists
  <2>3. \E j \in DOMAIN s : s[j] = over
    <3> HIDE DEF S, s, N
    <3> QED BY <2>1, <2>2
  <2>4. i \in DOMAIN s /\ s[i] = over BY <2>3
  <2>5. p = IF half = "lower" THEN (card[over].pos + next) \div 2
            ELSE (prev + card[over].pos) \div 2
    BY <1>2 DEF calcPosition
  <2> HIDE DEF i, s, S, N, p
  <2>6. i \in 1 .. N /\ N \in Nat /\ Len(s) = N /\ s[i] = over BY <2>2, <2>4
  <2>7. \A m \in 1 .. N : s[m] \in S /\ s[m] \in Live /\ card[s[m]].pos \in Nat
    <3>1. \A m \in 1 .. N : s[m] \in S BY <2>2
    <3> QED BY <2>1, <3>1, CardFields
  <2>8. ASSUME NEW m \in 1 .. N, NEW n \in 1 .. N, m < n
        PROVE  Before(s[m], s[n]) /\ ~Before(s[n], s[m]) /\ card[s[m]].pos <= card[s[n]].pos
    <3>1. <<s[m], s[n]>> \in InOrder BY <2>2, <2>8
    <3>2. card[s[m]].col = c /\ card[s[n]].col = c /\ c \in Nat
      BY <2>1, <2>7, CardFields
    <3>3. Before(s[m], s[n]) BY <2>7, <3>1, <3>2, InOrderIs
    <3>4. /\ card[s[m]].turn \in Nat /\ card[s[n]].turn \in Nat /\ s[m] \in Nat /\ s[n] \in Nat
      BY <2>7, CardFields
    <3> QED BY <2>7, <3>3, <3>4 DEF Before
  <2>9. prev \in Nat /\ next \in Nat /\ card[over].pos \in Nat
        /\ prev <= card[over].pos /\ card[over].pos <= next
    <3>1. card[over].pos \in Nat BY <2>6, <2>7
    <3>2. POSITION_GAP \in Nat BY PagesAssumption
    <3>3. prev \in Nat /\ prev <= card[over].pos
      <4>1. CASE i > 1
        <5>1. i - 1 \in 1 .. N /\ i - 1 < i BY <2>6, <4>1
        <5> QED BY <2>6, <2>7, <2>8, <4>1, <5>1
      <4>2. CASE ~(i > 1) BY <3>1, <4>2
      <4> QED BY <4>1, <4>2
    <3>4. next \in Nat /\ card[over].pos <= next
      <4>1. CASE i < N
        <5>1. i + 1 \in 1 .. N /\ i < i + 1 BY <2>6, <4>1
        <5> QED BY <2>6, <2>7, <2>8, <4>1, <5>1
      <4>2. CASE ~(i < N) BY <2>6, <3>1, <3>2, <4>2
      <4> QED BY <4>1, <4>2
    <3> QED BY <3>1, <3>3, <3>4
  <2>10. \A j \in S : j # over =>
           \/ Before(j, over) /\ card[j].pos <= prev
           \/ ~Before(j, over) /\ next <= card[j].pos
    <3> SUFFICES ASSUME NEW j \in S, j # over
                 PROVE  \/ Before(j, over) /\ card[j].pos <= prev
                        \/ ~Before(j, over) /\ next <= card[j].pos
      OBVIOUS
    <3>1. PICK m \in 1 .. N : s[m] = j BY <2>2
    <3>2. m # i BY <2>6, <3>1
    <3>3. CASE m < i
      <4>1. Before(j, over) BY <2>6, <2>8, <3>1, <3>3
      <4>2. i > 1 /\ i - 1 \in 1 .. N /\ (m = i - 1 \/ m < i - 1) BY <2>6, <3>3
      <4>3. card[s[m]].pos <= card[s[i - 1]].pos BY <2>7, <2>8, <4>2
      <4> QED BY <3>1, <4>1, <4>2, <4>3
    <3>4. CASE i < m
      <4>1. ~Before(j, over) BY <2>6, <2>8, <3>1, <3>4
      <4>2. i < N /\ i + 1 \in 1 .. N /\ (m = i + 1 \/ i + 1 < m) BY <2>6, <3>4
      <4>3. card[s[i + 1]].pos <= card[s[m]].pos BY <2>7, <2>8, <4>2
      <4> QED BY <2>6, <3>1, <4>1, <4>2, <4>3
    <3> QED BY <2>6, <3>2, <3>3, <3>4
  <2>11. ~Before(over, over)
    <3>1. /\ card[over].pos \in Nat /\ card[over].turn \in Nat /\ over \in Nat
      BY <2>1, CardFields
    <3> QED BY <3>1 DEF Before
  <2>12. \A j \in S : card[j].pos \in Nat BY <2>1, CardFields
  <2> HIDE DEF prev, next
  <2>13. p \in Nat /\ (half = "lower" => card[over].pos <= p /\ p <= next)
                   /\ (half # "lower" => prev <= p /\ p <= card[over].pos)
    <3>1. \A x, y \in Nat : x <= y => (x + y) \div 2 \in Nat
                                   /\ x <= (x + y) \div 2 /\ (x + y) \div 2 <= y
      OBVIOUS
    <3> QED BY <2>5, <2>9, <3>1
  <2>14. \A j \in S : IF Before(j, over) \/ (j = over /\ half = "lower")
                      THEN card[j].pos <= p ELSE p <= card[j].pos
    BY <2>9, <2>10, <2>11, <2>12, <2>13
  <2> QED BY <1>2, <2>13, <2>14 DEF p, S
<1> QED BY <1>1, <1>2

-----------------------------------------------------------------------------
(* The inductive invariant *)

\* No date lies ahead.
NothingAhead == \A k \in Live : card[k].made <= day /\ card[k].doneAt <= day
DoneIsDated == \A k \in Live \ redated : card[k].done => card[k].doneAt # NoDay
\* A card says of every day that has passed what was so when it ended.
Remembered ==
  \A d \in DOMAIN openAt : \A k \in Live \ redated :
    Existed(k, d) /\ StillOpen(k, d) <=> k \in openAt[d]
History == NothingAhead /\ DoneIsDated /\ Remembered

IInv == TypeOK /\ Placed /\ History

\* The page loads a board whose dates are in the past.
LEMMA InitInv == Init => IInv
<1> SUFFICES ASSUME Init PROVE IInv OBVIOUS
<1>1. /\ card \in [Live -> CardType] /\ Live \subseteq Cards
      /\ \A k \in Live : /\ card[k].col \notin NewColumns
                         /\ card[k].made <= Today /\ card[k].doneAt <= Today
  <2>1. PICK b \in Boards : card = b BY DEF Init
  <2>2. /\ DOMAIN b \subseteq Cards /\ b \in [DOMAIN b -> CardType]
        /\ \A k \in DOMAIN b : /\ b[k].col \notin NewColumns
                               /\ b[k].made <= Today /\ b[k].doneAt <= Today
    BY BoardsAssumption
  <2> QED BY <2>1, <2>2 DEF Live
<1>2. cat = [c \in DOMAIN cat |-> cat[c]] /\ DOMAIN cat = Columns \ NewColumns
  BY DEF Init
<1>3. openAt = [d \in DOMAIN openAt |-> openAt[d]] /\ DOMAIN openAt = {} BY DEF Init
<1>4. filter \in FilterType BY DEF Init, NoFilter, FilterType
<1>5. day \in Nat /\ memoDay \in Nat /\ day = Today BY PagesAssumption DEF Init
<1>6. TypeOK BY <1>1, <1>2, <1>3, <1>4, <1>5 DEF TypeOK, Init
<1>7. Placed BY <1>1, <1>2 DEF Placed, CardType
<1>8. NothingAhead BY <1>1, <1>5 DEF NothingAhead
<1>9. DoneIsDated BY DEF DoneIsDated, Init
<1>10. Remembered BY <1>3 DEF Remembered
<1> QED BY <1>6, <1>7, <1>8, <1>9, <1>10 DEF IInv, History

\* The cards that stay on the board keep their dates.
Dateless ==
  /\ UNCHANGED <<day, openAt, redated>>
  /\ \A k \in Live' : /\ k \in Live /\ card'[k].made = card[k].made
                      /\ card'[k].done = card[k].done /\ card'[k].doneAt = card[k].doneAt

\* Where no card gets another date, what is known of the past stands.
LEMMA DatelessKeeps == ASSUME History, Dateless PROVE History'
<1>1. NothingAhead' BY DEF History, NothingAhead, Dateless
<1>2. DoneIsDated' BY DEF History, DoneIsDated, Dateless
<1>3. Remembered' BY DEF History, Remembered, Dateless, Existed, StillOpen
<1> QED BY <1>1, <1>2, <1>3 DEF History

\* What a step must do for the types and the places.
Fits ==
  /\ card' \in [Live' -> CardType] /\ Live' \subseteq Cards
  /\ \A k \in Live' : card'[k].col \in DOMAIN cat'

\* Where the cards fit, and members only go.
LEMMA FitsKeeps ==
  ASSUME IInv, Fits, UNCHANGED <<day, openAt>>, memoDay' \in {memoDay, day},
         cat' = [c \in DOMAIN cat' |-> cat'[c]], DOMAIN cat' \subseteq Columns,
         members' \subseteq members, filter' \in FilterType
  PROVE  TypeOK' /\ Placed'
BY DEF Fits, IInv, TypeOK, Placed

\* A card gets another place.
LEMMA PlaceWritten ==
  ASSUME IInv, NEW k \in Live, NEW c \in DOMAIN cat, NEW p \in Nat, card' = Put(k, c, p)
  PROVE  /\ Live' = Live /\ card' \in [Live -> CardType]
         /\ \A j \in Live : /\ card'[j].col \in DOMAIN cat /\ card'[j].made = card[j].made
                            /\ card'[j].done = card[j].done /\ card'[j].doneAt = card[j].doneAt
         /\ \A j \in Live \ {k} : card'[j] = card[j]
         /\ card'[k].col = c /\ card'[k].pos = p /\ card'[k].turn = LastTurn(c, k, p)
<1> DEFINE t == LastTurn(c, k, p)
<1>1. card \in [Live -> CardType] /\ c \in Columns BY DEF IInv, TypeOK
<1>0. t \in Nat BY TurnIs DEF IInv
<1>9. card' = [card EXCEPT ![k].col = c, ![k].pos = p, ![k].turn = t] BY DEF Put
<1> HIDE DEF t
<1>2. DOMAIN card' = Live /\ \A j \in Live \ {k} : card'[j] = card[j] BY <1>1, <1>9
<1>3. card'[k] = [card[k] EXCEPT !.col = c, !.pos = p, !.turn = t] BY <1>1, <1>9
<1>4. /\ card'[k] \in CardType /\ card'[k].col = c /\ card'[k].made = card[k].made
      /\ card'[k].done = card[k].done /\ card'[k].doneAt = card[k].doneAt
      /\ card'[k].pos = p /\ card'[k].turn = t
  <2>1. card[k] \in CardType BY <1>1
  <2> QED BY <1>0, <1>1, <1>3, <2>1 DEF CardType
<1>5. \A j \in Live : card[j].col \in DOMAIN cat BY DEF IInv, Placed
<1>6. card' = [j \in Live |-> card'[j]] BY <1>1, <1>9
<1>7. \A j \in Live : card'[j] \in CardType BY <1>1, <1>2, <1>4
<1>8. Live' = Live BY <1>2 DEF Live
<1> QED BY <1>2, <1>4, <1>5, <1>6, <1>7, <1>8 DEF t

\* Steps that give no card another date.
Quiet ==
  /\ UNCHANGED <<day, openAt, redated>> /\ memoDay' \in {memoDay, day}
  /\ Live' \subseteq Live /\ card' = [j \in Live' |-> card'[j]]
  /\ \A j \in Live' : /\ card'[j] \in CardType /\ card'[j].col \in DOMAIN cat'
                      /\ card'[j].made = card[j].made /\ card'[j].done = card[j].done
                      /\ card'[j].doneAt = card[j].doneAt
  /\ DOMAIN cat' \subseteq Columns /\ cat' = [c \in DOMAIN cat' |-> cat'[c]]
  /\ members' \subseteq members /\ filter' \in FilterType

\* A quiet step keeps the invariant.
LEMMA QuietKeeps == ASSUME IInv, Quiet PROVE IInv'
<1>1. Fits BY DEF Quiet, Fits, IInv, TypeOK
<1>2. TypeOK' /\ Placed' BY <1>1, FitsKeeps DEF Quiet
<1>3. Dateless BY DEF Quiet, Dateless
<1>4. History' BY <1>3, DatelessKeeps DEF IInv
<1> QED BY <1>2, <1>4 DEF IInv

-----------------------------------------------------------------------------
(* The steps *)

\* A move is done as of today, or not at all; days that have passed are left
\* alone, but for a card that was done before.
LEMMA MoveStep ==
  ASSUME IInv, NEW k \in Live, NEW c \in DOMAIN cat, NEW p \in Nat, CardMoved(k, c, p)
  PROVE  IInv'
<1> DEFINE at == IF cat[c] = "DONE" THEN day ELSE NoDay
           t == LastTurn(c, k, p)
<1>0. t \in Nat BY TurnIs DEF IInv
<1>1. /\ card' = [card EXCEPT ![k].col = c, ![k].pos = p, ![k].turn = t,
                              ![k].done = (cat[c] = "DONE"), ![k].doneAt = at]
      /\ redated' = IF card[k].done THEN redated \cup {k} ELSE redated
      /\ UNCHANGED <<cat, members, filter, day, openAt>> /\ memoDay' = day
  <2>1. card \in [Live -> CardType] BY DEF IInv, TypeOK
  <2>2. card' = [Put(k, c, p) EXCEPT ![k].done = (cat[c] = "DONE"), ![k].doneAt = at]
    BY DEF CardMoved
  <2>3. Put(k, c, p) = [card EXCEPT ![k].col = c, ![k].pos = p, ![k].turn = t] BY DEF Put
  <2> HIDE DEF at, t
  <2>4. card' = [card EXCEPT ![k].col = c, ![k].pos = p, ![k].turn = t,
                            ![k].done = (cat[c] = "DONE"), ![k].doneAt = at]
    BY <2>1, <2>2, <2>3
  <2> QED BY <2>4 DEF CardMoved, Change
<1>2. card \in [Live -> CardType] /\ c \in Columns /\ day \in Nat /\ Live \subseteq Cards
  BY DEF IInv, TypeOK
<1>3. at \in Int /\ at <= day /\ (cat[c] = "DONE" => at = day) /\ (cat[c] # "DONE" => at = NoDay)
  BY <1>2 DEF NoDay
<1> HIDE DEF at, t
<1>4. Live' = Live /\ \A j \in Live \ {k} : card'[j] = card[j]
  <2>1. DOMAIN card' = Live BY <1>1, <1>2
  <2> QED BY <1>1, <1>2, <2>1 DEF Live
<1>5. card'[k] = [card[k] EXCEPT !.col = c, !.pos = p, !.turn = t, !.done = (cat[c] = "DONE"),
                                 !.doneAt = at]
  BY <1>1, <1>2
<1>6. /\ card'[k] \in CardType /\ card'[k].col = c /\ card'[k].made = card[k].made
      /\ card'[k].done = (cat[c] = "DONE") /\ card'[k].doneAt = at
  <2>1. card[k] \in CardType BY <1>2
  <2> QED BY <1>0, <1>2, <1>3, <1>5, <2>1 DEF CardType
<1>7. Fits
  <2>1. card' = [j \in Live |-> card'[j]] BY <1>1, <1>2
  <2>2. \A j \in Live : card'[j] \in CardType BY <1>2, <1>4, <1>6
  <2>3. \A j \in Live : card'[j].col \in DOMAIN cat' BY <1>1, <1>4, <1>6 DEF IInv, Placed
  <2> QED BY <1>2, <1>4, <2>1, <2>2, <2>3 DEF Fits
<1>8. TypeOK' /\ Placed' BY <1>1, <1>7, FitsKeeps DEF IInv, TypeOK
<1>9. NothingAhead'
  <2>1. \A j \in Live : card[j].made <= day /\ card[j].doneAt <= day
    BY DEF IInv, History, NothingAhead
  <2>2. \A j \in Live : card'[j].made <= day /\ card'[j].doneAt <= day
    BY <1>3, <1>4, <1>6, <2>1
  <2> QED BY <1>1, <1>4, <2>2 DEF NothingAhead
<1>10. DoneIsDated'
  <2>1. \A j \in Live : j \notin redated' => j \notin redated BY <1>1
  <2>2. cat[c] = "DONE" => at # NoDay BY <1>2, <1>3 DEF NoDay
  <2> QED BY <1>4, <1>6, <2>1, <2>2 DEF IInv, History, DoneIsDated
<1>11. Remembered'
  <2> SUFFICES ASSUME NEW d \in DOMAIN openAt, NEW j \in Live, j \notin redated'
               PROVE  Existed(j, d)' /\ StillOpen(j, d)' <=> j \in openAt[d]
    BY <1>1, <1>4 DEF Remembered
  <2>1. j \notin redated BY <1>1
  <2>2. Existed(j, d) /\ StillOpen(j, d) <=> j \in openAt[d]
    BY <2>1 DEF IInv, History, Remembered
  <2>3. CASE j # k BY <1>4, <2>2, <2>3 DEF Existed, StillOpen
  <2>4. CASE j = k
    <3>1. ~card[k].done BY <1>1, <2>4
    <3>2. StillOpen(k, d) /\ (Existed(k, d)' <=> Existed(k, d))
      BY <1>6, <3>1 DEF StillOpen, Existed
    <3>3. d \in 0 .. day - 1 BY DEF IInv, TypeOK
    <3>4. StillOpen(k, d)' BY <1>2, <1>3, <1>6, <3>3 DEF StillOpen
    <3> QED BY <2>2, <2>4, <3>2, <3>4
  <2> QED BY <2>3, <2>4
<1> QED BY <1>8, <1>9, <1>10, <1>11 DEF IInv, History

\* A drop changes a card's place only.
LEMMA DropStep ==
  ASSUME IInv, page = "board", handleDragEnd PROVE IInv'
<1> DEFINE k == dialog.id
           over == dialog.over
           c == IF over.kind = "column" THEN over.id ELSE card[over.id].col
           o == IF over.kind = "card" THEN over.id ELSE NoId
           p == calcPosition(c, o, k, dialog.half)
           known == \/ over.kind = "column" /\ over.id \in DOMAIN cat
                    \/ over.kind = "card" /\ over.id \in Live
<1>1. CASE ~known \/ over.id = k \/ k \notin Live
  <2>1. UNCHANGED <<store, filter, day, memoDay, openAt, redated>>
    BY <1>1 DEF handleDragEnd, Look
  <2> QED BY <2>1 DEF IInv, TypeOK, Placed, History, NothingAhead, DoneIsDated, Remembered,
             Live, Existed, StillOpen, store
<1>2. CASE known /\ over.id # k /\ k \in Live
  <2>1. /\ card' = Put(k, c, p)
        /\ UNCHANGED <<cat, members, filter, day, openAt, redated>> /\ memoDay' = day
    BY <1>2 DEF handleDragEnd
  <2>2. c \in DOMAIN cat BY <1>2 DEF IInv, Placed
  <2>3. o = NoId \/ o \in InColumn(c) \ {k} BY <1>2 DEF InColumn
  <2>4. p \in Nat
    <3> HIDE DEF o, c, k
    <3> QED BY <2>3, PositionIs DEF IInv
  <2>5. k \in Live BY <1>2
  <2> HIDE DEF o, c, k, p, known, over
  <2>6. /\ Live' = Live /\ card' \in [Live -> CardType]
        /\ \A j \in Live : /\ card'[j].col \in DOMAIN cat /\ card'[j].made = card[j].made
                           /\ card'[j].done = card[j].done /\ card'[j].doneAt = card[j].doneAt
    <3>1. PICK x \in Live : x = k BY <2>5
    <3>2. PICK y \in DOMAIN cat : y = c BY <2>2
    <3>3. PICK z \in Nat : z = p BY <2>4
    <3>4. card' = Put(x, y, z) BY <2>1, <3>1, <3>2, <3>3
    <3> QED BY <3>4, PlaceWritten
  <2>8. Fits BY <2>1, <2>6 DEF Fits, IInv, TypeOK
  <2>9. Dateless BY <2>1, <2>6 DEF Dateless
  <2>10. TypeOK' /\ Placed' BY <2>1, <2>8, FitsKeeps DEF IInv, TypeOK
  <2> QED BY <2>9, <2>10, DatelessKeeps DEF IInv
<1> QED BY <1>1, <1>2

\* A new card was open on no day that has passed.
LEMMA AddStep ==
  ASSUME IInv, NEW k \in Cards, NEW c \in DOMAIN cat, NEW made \in {NoDay, day},
         addCardToStore(k, c, made)
  PROVE  IInv'
<1>1. PICK due \in {NoDay} \cup DueDays, who \in {None, Me} :
        card' = [j \in Live \cup {k} |->
                   IF j \in Live THEN card[j]
                   ELSE [col |-> c, pos |-> EndOf(c, k), turn |-> 0, due |-> due, who |-> who,
                         prio |-> None, tags |-> {}, done |-> FALSE,
                         doneAt |-> NoDay, made |-> made, begun |-> FALSE]]
  BY DEF addCardToStore
<1>2. /\ k \notin Live /\ \A d \in DOMAIN openAt : k \notin openAt[d]
      /\ redated' = IF made = NoDay THEN redated \cup {k} ELSE redated
      /\ UNCHANGED <<cat, members, filter, day, openAt>> /\ memoDay' = day
  BY DEF addCardToStore, Change
<1> DEFINE r == [col |-> c, pos |-> EndOf(c, k), turn |-> 0, due |-> due, who |-> who,
                 prio |-> None, tags |-> {}, done |-> FALSE,
                 doneAt |-> NoDay, made |-> made, begun |-> FALSE]
<1>3. card' = [j \in Live \cup {k} |-> IF j \in Live THEN card[j] ELSE r] BY <1>1
<1>4. card \in [Live -> CardType] /\ Live \subseteq Cards /\ day \in Nat /\ c \in Columns
  BY DEF IInv, TypeOK
<1>5. EndOf(c, k) \in Nat BY EndIs DEF IInv
<1>6. /\ r \in CardType /\ r.col = c /\ r.made = made /\ r.doneAt = NoDay /\ r.done = FALSE
  <2>1. made \in Int /\ NoDay \in Int BY <1>4 DEF NoDay
  <2>2. Me \in Users BY PagesAssumption
  <2> QED BY <1>4, <1>5, <2>1, <2>2 DEF CardType
<1> HIDE DEF r
<1>7. Live' = Live \cup {k} /\ card'[k] = r /\ \A j \in Live : card'[j] = card[j]
  BY <1>2, <1>3 DEF Live
<1>8. Fits
  <2>1. card' \in [Live' -> CardType] BY <1>3, <1>4, <1>6, <1>7
  <2>2. \A j \in Live' : card'[j].col \in DOMAIN cat' BY <1>2, <1>6, <1>7 DEF IInv, Placed
  <2> QED BY <1>4, <1>7, <2>1, <2>2 DEF Fits
<1>9. TypeOK' /\ Placed' BY <1>2, <1>8, FitsKeeps DEF IInv, TypeOK
<1>10. NothingAhead'
  <2>1. made <= day /\ NoDay <= day BY <1>4 DEF NoDay
  <2> QED BY <1>2, <1>6, <1>7, <2>1 DEF IInv, History, NothingAhead
<1>11. DoneIsDated' BY <1>2, <1>6, <1>7 DEF IInv, History, DoneIsDated
<1>12. Remembered'
  <2> SUFFICES ASSUME NEW d \in DOMAIN openAt, NEW j \in Live', j \notin redated'
               PROVE  Existed(j, d)' /\ StillOpen(j, d)' <=> j \in openAt[d]
    BY <1>2 DEF Remembered
  <2>1. CASE j \in Live
    <3>1. Existed(j, d) /\ StillOpen(j, d) <=> j \in openAt[d]
      BY <1>2, <2>1 DEF IInv, History, Remembered
    <3> QED BY <1>7, <2>1, <3>1 DEF Existed, StillOpen
  <2>2. CASE j = k
    <3>1. made = day BY <1>2, <2>2
    <3>2. d \in 0 .. day - 1 BY DEF IInv, TypeOK
    <3>3. ~Existed(j, d)' BY <1>4, <1>6, <1>7, <2>2, <3>1, <3>2 DEF Existed
    <3> QED BY <1>2, <2>2, <3>3
  <2> QED BY <1>7, <2>1, <2>2
<1> QED BY <1>9, <1>10, <1>11, <1>12 DEF IInv, History

\* Cards and columns that go.
LEMMA RemoveStep ==
  ASSUME IInv,
         \/ \E k \in Live : removeCardFromStore(k)
         \/ \E c : removeColumnFromStore(c)
  PROVE  Quiet
<1>1. CASE \E k \in Live : removeCardFromStore(k)
  <2>1. PICK k \in Live : removeCardFromStore(k) BY <1>1
  <2>2. /\ card' = [j \in Live \ {k} |-> card[j]] /\ memoDay' = day
        /\ UNCHANGED <<cat, members, filter, redated, day, openAt>>
    BY <2>1 DEF removeCardFromStore, Change
  <2>3. Live' = Live \ {k} BY <2>2 DEF Live
  <2> QED BY <2>2, <2>3 DEF Quiet, IInv, TypeOK, Placed
<1>2. CASE \E c : removeColumnFromStore(c)
  <2>1. PICK c : removeColumnFromStore(c) BY <1>2
  <2>2. /\ card' = [j \in Live \ InColumn(c) |-> card[j]] /\ memoDay' = day
        /\ cat' = [d \in DOMAIN cat \ {c} |-> cat[d]]
        /\ UNCHANGED <<members, filter, redated, day, openAt>>
    BY <2>1 DEF removeColumnFromStore, Change
  <2>3. Live' = Live \ InColumn(c) BY <2>2 DEF Live
  <2>4. \A j \in Live' : card'[j] = card[j] /\ card[j].col # c /\ j \in Live
    BY <2>2, <2>3 DEF InColumn
  <2>5. \A j \in Live' : card'[j].col \in DOMAIN cat'
    <3>1. DOMAIN cat' = DOMAIN cat \ {c} BY <2>2
    <3>2. \A j \in Live : card[j].col \in DOMAIN cat BY DEF IInv, Placed
    <3> QED BY <2>4, <3>1, <3>2
  <2> QED BY <2>2, <2>3, <2>4, <2>5 DEF Quiet, IInv, TypeOK
<1> QED BY <1>1, <1>2

\* A field other than the place and the dates is written.
LEMMA FieldStep == ASSUME IInv, NEW k \in Live, updateCard(k) PROVE Quiet
<1>1. /\ memoDay' = day /\ UNCHANGED <<cat, members, filter, redated, day, openAt>>
  BY DEF updateCard, Change
<1>2. /\ card \in [Live -> CardType] /\ members \subseteq Users /\ card[k] \in CardType
  BY DEF IInv, TypeOK
<1>3. PICK r \in CardType :
        /\ card' = [card EXCEPT ![k] = r] /\ r.col = card[k].col /\ r.made = card[k].made
        /\ r.done = card[k].done /\ r.doneAt = card[k].doneAt
  <2>1. CASE \E due \in {NoDay} \cup DueDays : card' = [card EXCEPT ![k].due = due]
    <3>1. PICK due \in {NoDay} \cup DueDays : card' = [card EXCEPT ![k].due = due] BY <2>1
    <3>2. [card[k] EXCEPT !.due = due] \in CardType BY <1>2 DEF CardType
    <3> QED BY <1>2, <3>1, <3>2 DEF CardType
  <2>2. CASE \E who \in members \cup {None} : card' = [card EXCEPT ![k].who = who]
    <3>1. PICK who \in members \cup {None} : card' = [card EXCEPT ![k].who = who] BY <2>2
    <3>2. [card[k] EXCEPT !.who = who] \in CardType BY <1>2 DEF CardType
    <3> QED BY <1>2, <3>1, <3>2 DEF CardType
  <2>3. CASE \E t \in Tags : card' = [card EXCEPT ![k].tags = @ \cup {t}]
    <3>1. PICK t \in Tags : card' = [card EXCEPT ![k].tags = @ \cup {t}] BY <2>3
    <3>2. [card[k] EXCEPT !.tags = @ \cup {t}] \in CardType BY <1>2 DEF CardType
    <3> QED BY <1>2, <3>1, <3>2 DEF CardType
  <2>4. CASE card' = [card EXCEPT ![k].prio = None]
    <3>1. [card[k] EXCEPT !.prio = None] \in CardType BY <1>2 DEF CardType
    <3> QED BY <1>2, <2>4, <3>1 DEF CardType
  <2> QED BY <2>1, <2>2, <2>3, <2>4 DEF updateCard
<1>4. DOMAIN card' = Live /\ card'[k] = r /\ \A j \in Live \ {k} : card'[j] = card[j]
  BY <1>2, <1>3
<1>5. Live' = Live BY <1>4 DEF Live
<1>6. \A j \in Live : /\ card'[j] \in CardType /\ card'[j].col = card[j].col
                      /\ card'[j].made = card[j].made /\ card'[j].done = card[j].done
                      /\ card'[j].doneAt = card[j].doneAt
  BY <1>2, <1>3, <1>4
<1>7. card' = [j \in Live |-> card'[j]] BY <1>2, <1>3
<1> QED BY <1>1, <1>5, <1>6, <1>7 DEF Quiet, IInv, TypeOK, Placed

\* A tag goes from all cards and from the filter.
LEMMA TagStep == ASSUME IInv, NEW t \in Tags, removeTagFromBoard(t) PROVE Quiet
<1>1. /\ memoDay' = day /\ UNCHANGED <<cat, members, redated, day, openAt>>
      /\ card' = [k \in Live |-> [card[k] EXCEPT !.tags = @ \ {t}]]
      /\ filter' = [filter EXCEPT !.tags = @ \ {t}]
  BY DEF removeTagFromBoard, Change
<1>2. filter' \in FilterType BY <1>1 DEF IInv, TypeOK, FilterType
<1>3. Live' = Live BY <1>1 DEF Live
<1>4. ASSUME NEW k \in Live
      PROVE  /\ card'[k] \in CardType /\ card'[k].col = card[k].col
             /\ card'[k].made = card[k].made /\ card'[k].done = card[k].done
             /\ card'[k].doneAt = card[k].doneAt
  <2>1. card[k] \in CardType BY DEF IInv, TypeOK
  <2>2. card'[k] = [card[k] EXCEPT !.tags = @ \ {t}] BY <1>1
  <2> QED BY <2>1, <2>2 DEF CardType
<1> QED BY <1>1, <1>2, <1>3, <1>4 DEF Quiet, IInv, TypeOK, Placed

\* Columns' categories, members and filters are no matter of cards.
LEMMA StoreAside ==
  ASSUME IInv, UNCHANGED <<card, day, openAt, redated>>, memoDay' \in {memoDay, day},
         DOMAIN cat \subseteq DOMAIN cat', DOMAIN cat' \subseteq Columns, cat' = [c \in DOMAIN cat' |-> cat'[c]],
         members' \subseteq members, filter' \in FilterType
  PROVE  Quiet
<1>1. Live' = Live BY DEF Live
<1> QED BY <1>1 DEF Quiet, IInv, TypeOK, Placed

\* Such steps are quiet: a category, a new column, a member who leaves, a filter, a look.
LEMMA AsideStep ==
  ASSUME IInv,
         \/ \E c, to : updateColumnInStore(c, to)
         \/ \E c \in Columns : \E to : addColumnToStore(c, to)
         \/ \E u : setBoardMembers(u)
         \/ \E f \in FilterType : SetFilter(f)
         \/ UNCHANGED <<store, filter, day, openAt, redated>> /\ memoDay' \in {memoDay, day}
  PROVE  Quiet
<1> USE DEF IInv, TypeOK
<1>1. CASE \E c, to : updateColumnInStore(c, to)
  BY <1>1, StoreAside DEF updateColumnInStore, Change
<1>2. CASE \E u : setBoardMembers(u) BY <1>2, StoreAside DEF setBoardMembers, Change
<1>3. CASE \E f \in FilterType : SetFilter(f) BY <1>3, StoreAside DEF SetFilter, store
<1>4. CASE UNCHANGED <<store, filter, day, openAt, redated>> /\ memoDay' \in {memoDay, day}
  BY <1>4, StoreAside DEF store
<1>5. CASE \E c \in Columns : \E to : addColumnToStore(c, to)
  BY <1>5, StoreAside DEF addColumnToStore, Change
<1> QED BY <1>1, <1>2, <1>3, <1>4, <1>5

\* What the filter bars ask for is a filter.
LEMMA BarsAsk ==
  ASSUME IInv,
         \/ MemberFilterBar \/ PriorityFilterDropdown \/ TagFilterDropdown
         \/ \E u \in members \cup {None} : setFilterAssigneeId(IF u = filter.who THEN None ELSE u)
         \/ \E t \in Tags : toggleFilterTag(t)
         \/ clearFilterTags
  PROVE  \E f \in FilterType : SetFilter(f)
<1>1. filter \in FilterType /\ members \subseteq Users BY DEF IInv, TypeOK
<1>2. ASSUME NEW u \in Users \cup {None, Unassigned}, setFilterAssigneeId(u)
      PROVE  \E f \in FilterType : SetFilter(f)
  <2>1. [filter EXCEPT !.who = u] \in FilterType BY <1>1 DEF FilterType
  <2> QED BY <1>2, <2>1 DEF setFilterAssigneeId
<1>3. ASSUME NEW p \in SUBSET Priorities, SetFilter([filter EXCEPT !.prio = p])
      PROVE  \E f \in FilterType : SetFilter(f)
  <2>1. [filter EXCEPT !.prio = p] \in FilterType BY <1>1 DEF FilterType
  <2> QED BY <1>3, <2>1
<1>4. ASSUME NEW t \in SUBSET Tags, SetFilter([filter EXCEPT !.tags = t])
      PROVE  \E f \in FilterType : SetFilter(f)
  <2>1. [filter EXCEPT !.tags = t] \in FilterType BY <1>1 DEF FilterType
  <2> QED BY <1>4, <2>1
<1>5. ASSUME NEW u \in members \cup {None, Unassigned},
             setFilterAssigneeId(IF u = filter.who THEN None ELSE u)
      PROVE  \E f \in FilterType : SetFilter(f)
  BY <1>1, <1>2, <1>5
<1>6. ASSUME NEW p \in Priorities, toggleFilterPriority(p)
      PROVE  \E f \in FilterType : SetFilter(f)
  <2>1. Toggle(filter.prio, p) \in SUBSET Priorities BY <1>1 DEF Toggle, FilterType
  <2>2. SetFilter([filter EXCEPT !.prio = Toggle(filter.prio, p)])
    BY <1>6 DEF toggleFilterPriority
  <2> QED BY <1>3, <2>1, <2>2
<1>7. ASSUME NEW t \in Tags, toggleFilterTag(t) PROVE \E f \in FilterType : SetFilter(f)
  <2>1. Toggle(filter.tags, t) \in SUBSET Tags BY <1>1 DEF Toggle, FilterType
  <2>2. SetFilter([filter EXCEPT !.tags = Toggle(filter.tags, t)])
    BY <1>7 DEF toggleFilterTag
  <2> QED BY <1>4, <2>1, <2>2
<1>8. ASSUME clearFilterPriorities \/ clearFilterTags PROVE \E f \in FilterType : SetFilter(f)
  BY <1>3, <1>4, <1>8 DEF clearFilterPriorities, clearFilterTags
<1> QED BY <1>5, <1>6, <1>7, <1>8 DEF MemberFilterBar, PriorityFilterDropdown, TagFilterDropdown

\* The day ends, and what was open then is known.
LEMMA MidnightStep == ASSUME IInv, Midnight PROVE IInv'
<1>1. /\ day' = day + 1 /\ UNCHANGED <<card, cat, members, filter, memoDay, redated>>
      /\ openAt' = [d \in DOMAIN openAt \cup {day} |->
                      IF d = day THEN {k \in Live : ~card[k].done} ELSE openAt[d]]
  BY DEF Midnight, store
<1>2. Live' = Live /\ day \in Nat BY <1>1 DEF Live, IInv, TypeOK
<1>3. TypeOK'
  <2>1. DOMAIN openAt \subseteq 0 .. day - 1 BY DEF IInv, TypeOK
  <2>2. DOMAIN openAt' \subseteq 0 .. day' - 1 BY <1>1, <1>2, <2>1
  <2>3. openAt' = [d \in DOMAIN openAt' |-> openAt'[d]] BY <1>1
  <2> QED BY <1>1, <1>2, <2>2, <2>3 DEF IInv, TypeOK
<1>4. Placed' BY <1>1, <1>2 DEF IInv, Placed
<1>5. NothingAhead'
  <2>1. \A k \in Live : card[k].made \in Int /\ card[k].doneAt \in Int BY CardFields DEF IInv
  <2> QED BY <1>1, <1>2, <2>1 DEF IInv, History, NothingAhead
<1>6. DoneIsDated' BY <1>1, <1>2 DEF IInv, History, DoneIsDated
<1>7. Remembered'
  <2> SUFFICES ASSUME NEW d \in DOMAIN openAt \cup {day}, NEW k \in Live \ redated
               PROVE  Existed(k, d) /\ StillOpen(k, d) <=> k \in openAt'[d]
    BY <1>1, <1>2 DEF Remembered, Existed, StillOpen
  <2>1. day \notin DOMAIN openAt BY <1>2 DEF IInv, TypeOK
  <2>2. CASE d # day BY <1>1, <2>1, <2>2 DEF IInv, History, Remembered
  <2>3. CASE d = day
    <3>1. card[k].made <= day /\ card[k].doneAt <= day /\ card[k].doneAt \in Int
      BY CardFields DEF IInv, History, NothingAhead
    <3>2. card[k].done => card[k].doneAt # NoDay BY DEF IInv, History, DoneIsDated
    <3>3. StillOpen(k, d) <=> ~card[k].done BY <1>2, <2>3, <3>1, <3>2 DEF StillOpen
    <3>4. Existed(k, d) BY <2>3, <3>1 DEF Existed
    <3> QED BY <1>1, <2>3, <3>3, <3>4
  <2> QED BY <2>2, <2>3
<1> QED BY <1>3, <1>4, <1>5, <1>6, <1>7 DEF IInv, History

\* What only the page remembers.
Looks == UNCHANGED <<store, filter, day, openAt, redated>> /\ memoDay' \in {memoDay, day}

\* Tabs, dialogs, drags and months change only what the page remembers.
LEMMA PagesLook ==
  ASSUME \/ \E v, g : Look(v, g)
         \/ \E p : OpenPage(p)
         \/ Overview \/ OwnFilter \/ OpenPill \/ CalendarHeader \/ CloseDialog
         \/ \E c : KanbanColumn(c)
         \/ \E k : TaskCard(k)
         \/ \E over, half : onDragOver(over, half)
         \/ DragAlong \/ DragCancel
  PROVE  Looks
<1>1. ASSUME \E v, g : Look(v, g) PROVE Looks BY <1>1 DEF Look, Looks
<1>2. CASE \E p : OpenPage(p) BY <1>2 DEF OpenPage, Looks
<1>3. CASE Overview BY <1>1, <1>3 DEF Overview, Remember, Show
<1>4. CASE OwnFilter BY <1>4 DEF OwnFilter, Looks
<1>5. CASE OpenPill \/ CalendarHeader \/ CloseDialog
  BY <1>1, <1>5 DEF OpenPill, CalendarHeader, MonthYearPicker, CloseDialog, Remember, Show
<1>6. CASE (\E c : KanbanColumn(c)) \/ (\E k : TaskCard(k))
  BY <1>1, <1>6 DEF KanbanColumn, TaskCard, DragStart, Remember, Show
<1>7. CASE (\E over, half : onDragOver(over, half)) \/ DragAlong \/ DragCancel
  BY <1>1, <1>7 DEF onDragOver, DragAlong, DragCancel, Show
<1> QED BY <1>1, <1>2, <1>3, <1>4, <1>5, <1>6, <1>7

\* Every step keeps the invariant.
LEMMA NextKeepsInv == IInv /\ [Next]_vars => IInv'
<1> SUFFICES ASSUME IInv, [Next]_vars PROVE IInv' OBVIOUS
<1>1. ASSUME Quiet PROVE IInv' BY <1>1, QuietKeeps
<1>2. ASSUME Looks PROVE IInv' BY <1>1, <1>2, AsideStep DEF Looks
<1>3. ASSUME \E f \in FilterType : SetFilter(f) PROVE IInv' BY <1>1, <1>3, AsideStep
<1>4. CASE UNCHANGED vars BY <1>2, <1>4 DEF Looks, vars, store
<1>5. ASSUME StoreChange PROVE IInv'
  <2>1. ASSUME NEW k \in Live, MovedElsewhere(k) PROVE IInv'
    <3>1. ASSUME NEW c \in DOMAIN cat, NEW over \in (InColumn(c) \ {k}) \cup {NoId}, NEW half,
                 CardMoved(k, c, calcPosition(c, over, k, half))
          PROVE  IInv'
      <4>1. PICK p \in Nat : p = calcPosition(c, over, k, half) BY PositionIs DEF IInv
      <4> QED BY <3>1, <4>1, MoveStep
    <3>2. ASSUME NEW c \in DOMAIN cat, CardMoved(k, c, 0) PROVE IInv' BY <3>2, MoveStep
    <3>3. ASSUME NEW c \in DOMAIN cat, CardMoved(k, c, card[k].pos) PROVE IInv'
      <4>1. PICK p \in Nat : p = card[k].pos BY CardFields DEF IInv
      <4> QED BY <3>3, <4>1, MoveStep
    <3> QED BY <2>1, <3>1, <3>2, <3>3 DEF MovedElsewhere
  <2>2. ASSUME NEW k \in Live, MovedHere(k) PROVE IInv'
    <3>1. PICK c \in DOMAIN cat : c = card[k].col BY DEF IInv, Placed
    <3>2. PICK p \in Nat : p = card[k].pos BY CardFields DEF IInv
    <3>3. CardMoved(k, c, p) BY <2>2, <3>1, <3>2 DEF MovedHere
    <3> QED BY <3>3, MoveStep
  <2>3. ASSUME NEW k \in Live, removeCardFromStore(k) \/ updateCard(k) PROVE IInv'
    BY <1>1, <2>3, RemoveStep, FieldStep
  <2>4. ASSUME NEW k \in Cards, NEW c \in DOMAIN cat, NEW made \in {NoDay, day},
               addCardToStore(k, c, made)
        PROVE  IInv'
    BY <2>4, AddStep
  <2>5. ASSUME NEW t \in Tags, removeTagFromBoard(t) PROVE IInv' BY <1>1, <2>5, TagStep
  <2>6. ASSUME \/ \E c, to : updateColumnInStore(c, to)
               \/ \E c \in Columns : \E to : addColumnToStore(c, to)
               \/ \E u : setBoardMembers(u)
        PROVE  IInv'
    BY <1>1, <2>6, AsideStep
  <2>7. ASSUME \E c : removeColumnFromStore(c) PROVE IInv' BY <1>1, <2>7, RemoveStep
  <2> QED BY <1>5, <2>1, <2>2, <2>3, <2>4, <2>5, <2>6, <2>7 DEF StoreChange
<1>6. ASSUME Kanban PROVE IInv'
  <2>1. CASE ColumnOptionsModal
    <3>1. CASE \E to : updateColumnInStore(dialog.id, to) BY <1>1, <3>1, AsideStep
    <3>2. CASE Show([kind |-> "confirm", id |-> dialog.id])
      BY <1>2, <3>2, PagesLook DEF Show
    <3>3. CASE removeColumnFromStore(dialog.id) BY <1>1, <3>3, RemoveStep
    <3> QED BY <2>1, <3>1, <3>2, <3>3 DEF ColumnOptionsModal
  <2>2. CASE MemberFilterBar \/ PriorityFilterDropdown \/ TagFilterDropdown
    BY <1>3, <2>2, BarsAsk
  <2>3. CASE handleDragEnd BY <1>6, <2>3, DropStep DEF Kanban
  <2>4. CASE \/ \E c \in DOMAIN cat : KanbanColumn(c)
             \/ \E k \in OnBoard : TaskCard(k)
             \/ \E over \in Droppables, half \in {"upper", "lower"} : onDragOver(over, half)
             \/ DragAlong \/ DragCancel
    BY <1>2, <2>4, PagesLook
  <2> QED BY <1>6, <2>1, <2>2, <2>3, <2>4 DEF Kanban
<1>7. ASSUME Calendar PROVE IInv'
  <2>1. CASE OwnFilter \/ OpenPill \/ CalendarHeader BY <1>2, <2>1, PagesLook
  <2>2. CASE \E t \in CalendarTags : toggleFilterTag(t)
    <3>1. CalendarTags \subseteq Tags BY CardFields DEF CalendarTags, IInv
    <3> QED BY <1>3, <2>2, <3>1, BarsAsk
  <2>3. CASE \/ \E u \in members \cup {None} :
                  setFilterAssigneeId(IF u = filter.who THEN None ELSE u)
             \/ PriorityFilterDropdown \/ clearFilterTags
    BY <1>3, <2>3, BarsAsk
  <2> QED BY <1>7, <2>1, <2>2, <2>3 DEF Calendar, CalendarFilters
<1>8. ASSUME (\E p : OpenPage(p)) \/ Overview \/ CloseDialog PROVE IInv'
  BY <1>2, <1>8, PagesLook
<1>9. ASSUME Midnight PROVE IInv' BY <1>9, MidnightStep
<1> QED BY <1>4, <1>5, <1>6, <1>7, <1>8, <1>9 DEF Next

\* The store has its types, every card has its column, no date lies ahead and
\* the cards agree with the days that have passed, whatever was done to them.
THEOREM InvHolds == Spec => []IInv
BY InitInv, NextKeepsInv, PTL DEF Spec

(* For any number of cards, changes and days the burn-down chart draws of a *)
(* day that has passed what was open at its end (buildBurndownData against  *)
(* the store's changes), the cards aside whose dates changed.               *)
THEOREM BurndownDrawsHistory == Spec => []BurndownIsHistory
<1>1. IInv => BurndownIsHistory
  <2> SUFFICES ASSUME IInv, NEW d \in DOMAIN openAt
               PROVE  Actual(d) \ redated = (openAt[d] \cap Live) \ redated
    BY DEF BurndownIsHistory
  <2>1. \A k \in Live \ redated : Existed(k, d) /\ StillOpen(k, d) <=> k \in openAt[d]
    BY DEF IInv, History, Remembered
  <2> QED BY <2>1 DEF Actual
<1> QED BY <1>1, InvHolds, PTL

-----------------------------------------------------------------------------
(* The team table *)

\* The order that the library's well-founded minimum is about.
LEMMA LessThan == OpToRel(<, Nat) = {ss \in Nat \X Nat : ss[1] < ss[2]}
BY DEF OpToRel

\* A set of numbers that is not empty has a smallest one.
LEMMA HasLeast ==
  ASSUME NEW S \in SUBSET Nat, S # {} PROVE \E x \in S : \A y \in S : x <= y
<1> DEFINE R == OpToRel(<, Nat)
<1>1. IsWellFoundedOn(R, Nat) BY NatLessThanWellFounded
<1>2. R = {ss \in Nat \X Nat : ss[1] < ss[2]} BY LessThan
<1> HIDE DEF R
<1>3. PICK x \in S : \A y \in S : ~(<<y, x>> \in R) BY <1>1, WFMin
<1>4. ASSUME NEW y \in S PROVE x <= y
  <2>1. <<y, x>> \in Nat \X Nat /\ <<y, x>>[1] = y /\ <<y, x>>[2] = x OBVIOUS
  <2>2. ~(y < x) BY <1>2, <1>3, <2>1
  <2> QED BY <2>2
<1> QED BY <1>4

\* Induction up to a bound, about a set.
LEMMA UpTo ==
  ASSUME NEW N \in Nat, NEW G, 0 \in G, \A n \in 0 .. N : n \in G /\ n < N => n + 1 \in G
  PROVE  \A n \in 0 .. N : n \in G
<1> DEFINE bad == {n \in 0 .. N : n \notin G}
<1>1. SUFFICES ASSUME bad # {} PROVE FALSE OBVIOUS
<1>2. bad \in SUBSET Nat OBVIOUS
<1>3. PICK n \in bad : \A y \in bad : n <= y BY <1>1, <1>2, HasLeast
<1>4. n \in 1 .. N OBVIOUS
<1>5. n - 1 \in 0 .. N /\ n - 1 < N /\ (n - 1) + 1 = n BY <1>4
<1>6. n - 1 \notin bad BY <1>3, <1>5
<1> QED BY <1>5, <1>6


SumOf(w, S) == MapThenSumSet(LAMBDA x : w[x], S)

\* A sum of the sizes of parts that do not overlap is the size of the whole.
LEMMA SumIs ==
  ASSUME NEW U, IsFiniteSet(U), NEW S, IsFiniteSet(S), NEW H \in [S -> SUBSET U],
         \A x, y \in S : x # y => H[x] \cap H[y] = {},
         NEW w, \A x \in S : w[x] = Cardinality(H[x])
  PROVE  SumOf(w, S) = Cardinality(UNION {H[x] : x \in S})
<1> DEFINE one(s) == CHOOSE x \in s : TRUE
           Body(f) == [s \in SUBSET S |-> IF s = {} THEN 0
                                          ELSE w[one(s)] + f[s \ {one(s)}]]
           sum == CHOOSE f : f = Body(f)
           all(s) == UNION {H[x] : x \in s}
           g == [s \in SUBSET S |-> Cardinality(all(s))]
           N == Cardinality(S)
<1>1. SumOf(w, S) = sum[S]
  BY DEF SumOf, MapThenSumSet, MapThenFoldSet
<1>2. \A s \in SUBSET S : all(s) \in SUBSET U BY SMT
<1>3. \A s \in SUBSET S : IsFiniteSet(all(s)) /\ Cardinality(all(s)) \in Nat
  BY <1>2, FS_Subset, FS_CardinalityType
<1>4. ASSUME NEW s \in SUBSET S, s # {} PROVE g[s] = w[one(s)] + g[s \ {one(s)}]
  <2> DEFINE x == one(s)
             r == s \ {x}
  <2>1. x \in s /\ x \in S /\ r \in SUBSET S BY <1>4
  <2> HIDE DEF x
  <2>2. all(s) = H[x] \cup all(r) BY <2>1
  <2>3. H[x] \cap all(r) = {} BY <2>1
  <2>4. IsFiniteSet(H[x]) /\ Cardinality(H[x]) \in Nat
    <3>1. H[x] \in SUBSET U BY <2>1
    <3> QED BY <3>1, FS_Subset, FS_CardinalityType
  <2>5. IsFiniteSet(all(r)) /\ Cardinality(all(r)) \in Nat BY <1>3, <2>1
  <2>6. g[s] = Cardinality(all(s)) /\ g[r] = Cardinality(all(r)) BY <2>1
  <2>7. w[x] = Cardinality(H[x]) BY <2>1
  <2> HIDE DEF all, g, r
  <2>8. Cardinality(H[x] \cup all(r))
          = Cardinality(H[x]) + Cardinality(all(r)) - Cardinality(H[x] \cap all(r))
    BY <2>4, <2>5, FS_Union
  <2>9. Cardinality({}) = 0 BY FS_EmptySet
  <2>10. g[s] = w[x] + g[r]
    <3>1. Cardinality(all(s)) = Cardinality(H[x]) + Cardinality(all(r)) - 0
      BY <2>2, <2>3, <2>8, <2>9
    <3> QED BY <2>4, <2>5, <2>6, <2>7, <3>1
  <2> QED BY <2>10 DEF x, r
<1>5. g[{}] = 0
  <2>1. all({}) = {} /\ {} \in SUBSET S OBVIOUS
  <2> HIDE DEF all
  <2> QED BY <2>1, FS_EmptySet
<1>6. g = Body(g)
  <2>1. g = [s \in SUBSET S |-> g[s]] OBVIOUS
  <2> HIDE DEF g, one
  <2> QED BY <1>4, <1>5, <2>1
<1>7. sum = Body(sum)
  <2> HIDE DEF g, Body
  <2> QED BY <1>6
<1> HIDE DEF sum, g
<1>8. sum[{}] = 0 /\ \A s \in SUBSET S : s # {} => sum[s] = w[one(s)] + sum[s \ {one(s)}]
  BY <1>7
<1> HIDE DEF Body
<1> DEFINE G == {n \in 0 .. N : \A s \in SUBSET S : Cardinality(s) = n => sum[s] = g[s]}
<1>9. N \in Nat BY FS_CardinalityType
<1>10. \A s \in SUBSET S : IsFiniteSet(s) /\ Cardinality(s) \in 0 .. N
  <2> SUFFICES ASSUME NEW s \in SUBSET S PROVE IsFiniteSet(s) /\ Cardinality(s) \in 0 .. N
    OBVIOUS
  <2>1. IsFiniteSet(s) /\ Cardinality(s) <= N BY FS_Subset
  <2>2. Cardinality(s) \in Nat BY <2>1, FS_CardinalityType
  <2> QED BY <1>9, <2>1, <2>2
<1> HIDE DEF N
<1>11. 0 \in G
  <2>1. ASSUME NEW s \in SUBSET S, Cardinality(s) = 0 PROVE sum[s] = g[s]
    <3>1. s = {} BY <1>10, <2>1, FS_EmptySet
    <3> QED BY <1>5, <1>8, <3>1
  <2> QED BY <1>9, <2>1
<1>12. ASSUME NEW n \in 0 .. N, n \in G, n < N PROVE n + 1 \in G
  <2>1. ASSUME NEW s \in SUBSET S, Cardinality(s) = n + 1 PROVE sum[s] = g[s]
    <3>1. s # {} BY <1>9, <2>1, FS_EmptySet
    <3>2. one(s) \in s BY <3>1
    <3> DEFINE x == one(s)
    <3> HIDE DEF x
    <3>3. s \ {x} \in SUBSET S /\ IsFiniteSet(s) BY <1>10
    <3>4. Cardinality(s \ {x}) = n
      <4>1. Cardinality(s \ {x}) = Cardinality(s) - 1 BY <3>2, <3>3, FS_RemoveElement DEF x
      <4> QED BY <1>9, <2>1, <4>1
    <3>5. sum[s \ {x}] = g[s \ {x}] BY <1>12, <3>3, <3>4
    <3>6. sum[s] = w[x] + sum[s \ {x}] BY <1>8, <3>1 DEF x
    <3>7. g[s] = w[x] + g[s \ {x}] BY <1>4, <3>1 DEF x
    <3> QED BY <3>5, <3>6, <3>7
  <2> QED BY <1>9, <1>12, <2>1
<1>13. N \in G
  <2>1. \A n \in 0 .. N : n \in G /\ n < N => n + 1 \in G BY <1>12
  <2> HIDE DEF G
  <2>2. \A n \in 0 .. N : n \in G BY <1>9, <1>11, <2>1, UpTo
  <2> QED BY <1>9, <2>2
<1>14. sum[S] = g[S] BY <1>13 DEF N
<1> QED BY <1>1, <1>14 DEF g

\* No held card is counted for two owners, and none for nobody.
LEMMA OwnersAddUp ==
  ASSUME IInv
  PROVE  LET total == [u \in Owners |-> TeamOwnershipList[u].total] IN
         MapThenSumSet(LAMBDA u : total[u], Owners)
           = Cardinality({k \in Live : card[k].who # None /\ ~card[k].done /\ ~ColumnDone(k)})
<1> DEFINE H == [u \in Owners |-> Held(u)]
           total == [u \in Owners |-> TeamOwnershipList[u].total]
           All == {k \in Live : card[k].who # None /\ ~card[k].done /\ ~ColumnDone(k)}
<1>1. IsFiniteSet(Live) /\ Owners \subseteq Users BY Finite DEF IInv, TypeOK, Owners
<1>2. IsFiniteSet(Owners)
  <2>1. Owners \in SUBSET Users /\ IsFiniteSet(Users) BY <1>1, PagesAssumption
  <2> QED BY <2>1, FS_Subset
<1>3. H \in [Owners -> SUBSET Live] BY DEF Held
<1>4. \A x, y \in Owners : x # y => H[x] \cap H[y] = {} BY DEF Held
<1>5. \A x \in Owners : total[x] = Cardinality(H[x])
  BY DEF TeamOwnershipList, MemberOwnershipRow
<1>6. UNION {H[x] : x \in Owners} = All
  <2>1. ASSUME NEW x \in Owners, NEW k \in H[x] PROVE k \in All
    <3>1. k \in Live /\ card[k].who = x /\ ~card[k].done /\ cat[card[k].col] # "DONE"
      BY <2>1 DEF Held, ActiveColumns
    <3>2. x # None BY <1>1, PagesAssumption
    <3> QED BY <3>1, <3>2 DEF ColumnDone
  <2>2. ASSUME NEW k \in All PROVE \E x \in Owners : k \in H[x]
    <3>1. card[k].who \in Users BY CardFields DEF IInv
    <3>2. card[k].col \in ActiveColumns BY DEF IInv, Placed, ActiveColumns, ColumnDone
    <3>3. k \in Held(card[k].who) BY <3>2 DEF Held
    <3>4. card[k].who \in Owners BY <3>1, <3>3 DEF Owners
    <3> QED BY <3>3, <3>4
  <2> HIDE DEF H, All
  <2> QED BY <2>1, <2>2
<1> HIDE DEF H, total, All
<1>7. PICK O : O = Owners OBVIOUS
<1>8. PICK t : t = total OBVIOUS
<1>9. PICK L : L = Live OBVIOUS
<1>10. PICK h \in [O -> SUBSET L] : h = H BY <1>3, <1>7, <1>9
<1>11. SumOf(t, O) = Cardinality(UNION {h[x] : x \in O})
  <2>1. IsFiniteSet(O) /\ IsFiniteSet(L) BY <1>1, <1>2, <1>7, <1>9
  <2>2. \A x, y \in O : x # y => h[x] \cap h[y] = {} BY <1>4, <1>7, <1>10
  <2>3. \A x \in O : t[x] = Cardinality(h[x]) BY <1>5, <1>7, <1>8, <1>10
  <2> QED BY <2>1, <2>2, <2>3, SumIs
<1>12. MapThenSumSet(LAMBDA u : total[u], Owners) = SumOf(total, Owners) BY DEF SumOf
<1>13. UNION {h[x] : x \in O} = All BY <1>6, <1>7, <1>10
<1>14. SumOf(total, Owners) = Cardinality(All) BY <1>7, <1>8, <1>11, <1>13
<1> QED BY <1>12, <1>14 DEF total, All

\* A row's cells divide what its owner holds by columns.
LEMMA CellsAddUp ==
  ASSUME IInv, NumericMode, NEW u \in Owners
  PROVE  MapThenSumSet(LAMBDA c : TeamOwnershipList[u].cells[c], ActiveColumns)
           = TeamOwnershipList[u].total
<1> DEFINE H == [c \in ActiveColumns |-> {k \in Held(u) : card[k].col = c}]
           cells == TeamOwnershipList[u].cells
<1>1. IsFiniteSet(Live) BY Finite DEF IInv
<1>2. IsFiniteSet(ActiveColumns)
  <2>1. ActiveColumns \in SUBSET DOMAIN cat /\ IsFiniteSet(DOMAIN cat)
    BY Finite DEF ActiveColumns, IInv
  <2> QED BY <2>1, FS_Subset
<1>3. H \in [ActiveColumns -> SUBSET Live] BY DEF Held
<1>4. \A x, y \in ActiveColumns : x # y => H[x] \cap H[y] = {} OBVIOUS
<1>5. cells = [c \in ActiveColumns |-> CountIn(u, c)]
      /\ TeamOwnershipList[u].total = Cardinality(Held(u))
  BY DEF TeamOwnershipList, MemberOwnershipRow
<1>6. \A c \in ActiveColumns : cells[c] = Cardinality(H[c]) BY <1>5 DEF CountIn
<1>7. UNION {H[x] : x \in ActiveColumns} = Held(u) BY DEF Held
<1> HIDE DEF H, cells
<1>8. PICK A : A = ActiveColumns OBVIOUS
<1>9. PICK w : w = cells OBVIOUS
<1>10. PICK L : L = Live OBVIOUS
<1>11. PICK h \in [A -> SUBSET L] : h = H BY <1>3, <1>8, <1>10
<1>12. SumOf(w, A) = Cardinality(UNION {h[x] : x \in A})
  <2>1. IsFiniteSet(A) /\ IsFiniteSet(L) BY <1>1, <1>2, <1>8, <1>10
  <2>2. \A x, y \in A : x # y => h[x] \cap h[y] = {} BY <1>4, <1>8, <1>11
  <2>3. \A x \in A : w[x] = Cardinality(h[x]) BY <1>6, <1>8, <1>9, <1>11
  <2> QED BY <2>1, <2>2, <2>3, SumIs
<1>13. MapThenSumSet(LAMBDA c : cells[c], ActiveColumns) = SumOf(cells, ActiveColumns)
  BY DEF SumOf
<1>14. UNION {h[x] : x \in A} = Held(u) BY <1>7, <1>8, <1>11
<1>15. SumOf(cells, ActiveColumns) = Cardinality(Held(u)) BY <1>8, <1>9, <1>12, <1>14
<1> QED BY <1>5, <1>13, <1>15 DEF cells

(* Whatever becomes of members, columns and cards, the team table accounts  *)
(* for every assigned card that is not done (useBoardOwnership), and the    *)
(* cells of a row for its total (MemberOwnershipRow).                       *)
THEOREM HeldWorkHolds == Spec => []HeldWorkAddsUp
<1>1. IInv => HeldWorkAddsUp BY OwnersAddUp, CellsAddUp DEF HeldWorkAddsUp
<1> QED BY <1>1, InvHolds, PTL

-----------------------------------------------------------------------------
(* The calendar *)

\* A cell lists the cards that are shown and due that day.
LEMMA CellIs ==
  ASSUME IInv, NEW d
  PROVE  ToSet(CellCards(d)) = {k \in Live : CalendarShows(k) /\ card[k].due = d}
<1> DEFINE S == {k \in Live : CalendarShows(k) /\ card[k].due = d}
<1>1. S \in SUBSET Live OBVIOUS
<1>2. CellCards(d) = Sorted(S, InOrder) BY DEF CellCards, Pick
<1> HIDE DEF S
<1>3. ToSet(CellCards(d)) = S BY <1>1, <1>2, ListIs DEF IInv
<1> QED BY <1>3 DEF S

\* The weeks around a month have all its days.
LEMMA MonthInGrid ==
  ASSUME NEW d \in DueDays PROVE d \in Grid(MonthOf(d))
<1> DEFINE m == MonthOf(d)
<1>1. \E n \in Months : MonthStart[n] <= d /\ d < MonthStart[n + 1] BY MonthsAssumption
<1>2. m \in Months /\ MonthStart[m] <= d /\ d < MonthStart[m + 1] BY <1>1 DEF MonthOf
<1> HIDE DEF m
<1>3. d \in Nat BY PagesAssumption
<1>4. MonthStart[m] \in Int /\ MonthStart[m + 1] \in Int
  <2>1. MonthStart \in Seq(Int) BY MonthsAssumption
  <2>2. m \in 1 .. Len(MonthStart) /\ m + 1 \in 1 .. Len(MonthStart)
    BY <1>2, <2>1 DEF Months
  <2> QED BY <2>1, <2>2
<1>5. \A x \in Int : (x + FirstDow) % 7 \in 0 .. 6
  <2>1. FirstDow \in Int BY MonthsAssumption
  <2> QED BY <2>1
<1>6. StartOfWeek(MonthStart[m]) \in Int /\ StartOfWeek(MonthStart[m]) <= MonthStart[m]
  BY <1>4, <1>5 DEF StartOfWeek, Dow
<1>7. /\ EndOfWeek(MonthStart[m + 1] - 1) \in Int
      /\ EndOfWeek(MonthStart[m + 1] - 1) >= MonthStart[m + 1] - 1
  <2>1. MonthStart[m + 1] - 1 \in Int BY <1>4
  <2>2. (MonthStart[m + 1] - 1 + FirstDow) % 7 \in 0 .. 6 BY <1>5, <2>1
  <2> QED BY <1>4, <2>1, <2>2 DEF EndOfWeek, Dow
<1>8. d \in Grid(m) BY <1>2, <1>3, <1>4, <1>6, <1>7 DEF Grid
<1> QED BY <1>8 DEF m

\* The two tests of the shared filters agree.
LEMMA FiltersAgree ==
  ASSUME IInv, NEW k \in Live, Dated(k), view.status = {}, ~view.myTasks
  PROVE  KanbanShows(k) <=> CalendarShows(k)
<1>1. /\ filter.prio \subseteq Priorities /\ card[k].who \in Users \cup {None}
      /\ card[k].tags \subseteq Tags
  BY CardFields DEF IInv, TypeOK, FilterType
<1>2. None \notin Priorities /\ Unassigned \notin Users /\ None # Unassigned
  BY PagesAssumption DEF None, Unassigned
<1>3. (filter.prio = {} \/ card[k].prio \in filter.prio)
        <=> (filter.prio # {} => card[k].prio # None /\ card[k].prio \in filter.prio)
  BY <1>1, <1>2
<1>4. (filter.tags = {} \/ card[k].tags \cap filter.tags # {})
        <=> (filter.tags # {} => \E t \in filter.tags : t \in card[k].tags)
  OBVIOUS
<1>5. (\/ filter.who = None
       \/ filter.who = Unassigned /\ card[k].who = None
       \/ card[k].who = filter.who)
        <=> /\ filter.who = Unassigned => card[k].who = None
            /\ filter.who \notin {None, Unassigned} => card[k].who = filter.who
  BY <1>1, <1>2
<1> QED BY <1>3, <1>4, <1>5 DEF KanbanShows, CalendarShows

(* The calendar has a cell for a dated card of its month exactly if the     *)
(* Kanban column shows it, with any filter and in any month (ProjectCalendar *)
(* and KanbanColumn test the filters each in its own way).                  *)
THEOREM CalendarHolds == Spec => []CalendarPlacesEveryDueCard
<1>1. IInv => CalendarPlacesEveryDueCard
  <2> SUFFICES ASSUME IInv, view.status = {}, ~view.myTasks, NEW k \in Live, Dated(k),
                      MonthOf(card[k].due) = view.month
               PROVE  KanbanShows(k) <=>
                        \E d \in Grid(view.month) \cap DueDays : k \in ToSet(CellCards(d))
    BY DEF CalendarPlacesEveryDueCard
  <2>1. KanbanShows(k) <=> CalendarShows(k) BY FiltersAgree
  <2>2. \A d : k \in ToSet(CellCards(d)) <=> CalendarShows(k) /\ card[k].due = d BY CellIs
  <2>3. card[k].due \in DueDays BY CardFields DEF Dated, IInv
  <2>4. PICK e \in DueDays : e = card[k].due BY <2>3
  <2>5. e \in Grid(view.month) BY <2>4, MonthInGrid
  <2> QED BY <2>1, <2>2, <2>4, <2>5
<1> QED BY <1>1, InvHolds, PTL

-----------------------------------------------------------------------------
(* The overview *)

\* A bucket of the dashboard has the cards it is for.
LEMMA BucketsAre ==
  ASSUME IInv
  PROVE  /\ ToSet(Stats.overdue)
              = {k \in Live : Dated(k) /\ ~ColumnDone(k) /\ card[k].due < memoDay}
         /\ ToSet(Stats.today)
              = {k \in Live : Dated(k) /\ ~ColumnDone(k) /\ card[k].due = memoDay}
         /\ ToSet(Stats.tomorrow)
              = {k \in Live : Dated(k) /\ ~ColumnDone(k) /\ card[k].due = memoDay + 1}
         /\ ToSet(Stats.thisWeek)
              = {k \in Live : Dated(k) /\ ~ColumnDone(k)
                              /\ card[k].due > memoDay + 1 /\ card[k].due <= memoDay + 7}
         /\ \A b \in {"overdue", "today", "tomorrow", "thisWeek"} :
              ToSet(Stats[b]) \subseteq Live /\ Len(Stats[b]) = Cardinality(ToSet(Stats[b]))
<1> DEFINE A == {k \in Live : Dated(k) /\ ~ColumnDone(k) /\ card[k].due < memoDay}
           B == {k \in Live : Dated(k) /\ ~ColumnDone(k) /\ card[k].due = memoDay}
           C == {k \in Live : Dated(k) /\ ~ColumnDone(k) /\ card[k].due = memoDay + 1}
           D == {k \in Live : Dated(k) /\ ~ColumnDone(k)
                              /\ card[k].due > memoDay + 1 /\ card[k].due <= memoDay + 7}
<1>1. /\ Stats.overdue = Sorted(A, InOrder) /\ Stats.today = Sorted(B, InOrder)
      /\ Stats.tomorrow = Sorted(C, InOrder) /\ Stats.thisWeek = Sorted(D, InOrder)
  BY DEF Stats, DashboardStats, ThisWeek, Pick
<1>2. A \in SUBSET Live /\ B \in SUBSET Live /\ C \in SUBSET Live /\ D \in SUBSET Live
  OBVIOUS
<1>3. \A S \in SUBSET Live : ToSet(Sorted(S, InOrder)) = S
                             /\ Len(Sorted(S, InOrder)) = Cardinality(S)
  BY ListIs DEF IInv
<1> HIDE DEF A, B, C, D
<1>4. /\ ToSet(Stats.overdue) = A /\ ToSet(Stats.today) = B
      /\ ToSet(Stats.tomorrow) = C /\ ToSet(Stats.thisWeek) = D
  BY <1>1, <1>2, <1>3
<1>5. /\ Len(Stats.overdue) = Cardinality(A) /\ Len(Stats.today) = Cardinality(B)
      /\ Len(Stats.tomorrow) = Cardinality(C) /\ Len(Stats.thisWeek) = Cardinality(D)
  BY <1>1, <1>2, <1>3
<1> QED BY <1>2, <1>4, <1>5 DEF A, B, C, D

\* Rows list a set of cards, each once, by the days they are due.
RowsOf(s, S) ==
  /\ s \in Seq(S) /\ ToSet(s) = S /\ Len(s) = Cardinality(S)
  /\ \A i, j \in 1 .. Len(s) : i < j => s[i] # s[j] /\ card[s[i]].due <= card[s[j]].due

\* A bucket sorted by its days is rows.
LEMMA ByDueRows ==
  ASSUME TypeOK, NEW s, ToSet(s) \in SUBSET Live PROVE RowsOf(ByDue(s), ToSet(s))
<1> DEFINE S == ToSet(s)
           r == Sorted(S, DueOrder)
<1> HIDE DEF S
<1>1. S \in SUBSET Live /\ IsFiniteSet(S) BY Finite DEF S
<1>2. \A a, b \in Live : <<a, b>> \in DueOrder <=>
        \/ card[a].due < card[b].due
        \/ card[a].due = card[b].due /\ <<a, b>> \in InOrder
  <2> SUFFICES ASSUME NEW a \in Live, NEW b \in Live
               PROVE  <<a, b>> \in DueOrder <=>
                        \/ card[a].due < card[b].due
                        \/ card[a].due = card[b].due /\ <<a, b>> \in InOrder
    OBVIOUS
  <2>1. <<a, b>>[1] = a /\ <<a, b>>[2] = b /\ <<a, b>> \in Live \X Live OBVIOUS
  <2> QED BY <2>1 DEF DueOrder
<1>3. \A a \in Live : card[a].due \in Int
  <2>1. \A a \in Live : card[a].due \in Nat \cup {NoDay} BY CardFields
  <2> QED BY <2>1 DEF NoDay
<1>4. Orders(InOrder, S) BY <1>1, InOrderOrders
<1>5. Orders(DueOrder, S)
  <2>0. /\ \A x \in S : x \in Live /\ card[x].due \in Int
        /\ \A x \in S : <<x, x>> \notin InOrder
        /\ \A x, y \in S : x # y => <<x, y>> \in InOrder \/ <<y, x>> \in InOrder
    BY <1>1, <1>3, <1>4 DEF Orders
  <2>1. \A x \in S : <<x, x>> \notin DueOrder
    <3> SUFFICES ASSUME NEW x \in S PROVE <<x, x>> \notin DueOrder
      OBVIOUS
    <3>1. ~(card[x].due < card[x].due) /\ <<x, x>> \notin InOrder /\ x \in Live BY <2>0
    <3> QED BY <1>2, <3>1
  <2>2. \A x, y \in S : x # y => <<x, y>> \in DueOrder \/ <<y, x>> \in DueOrder
    <3> SUFFICES ASSUME NEW x \in S, NEW y \in S, x # y
                 PROVE  <<x, y>> \in DueOrder \/ <<y, x>> \in DueOrder
      OBVIOUS
    <3>1. x \in Live /\ y \in Live /\ card[x].due \in Int /\ card[y].due \in Int
          /\ (<<x, y>> \in InOrder \/ <<y, x>> \in InOrder)
      BY <2>0
    <3>2. card[x].due < card[y].due \/ card[y].due < card[x].due \/ card[x].due = card[y].due
      BY <3>1
    <3> QED BY <1>2, <3>1, <3>2
  <2>3. \A x, y, z \in S :
          <<x, y>> \in DueOrder /\ <<y, z>> \in DueOrder => <<x, z>> \in DueOrder
    BY <1>1, <1>2, <1>3, <1>4 DEF Orders
  <2> QED BY <2>1, <2>2, <2>3 DEF Orders
<1>6. /\ r \in Seq(S) /\ Len(r) = Cardinality(S) /\ Cardinality(S) \in Nat /\ ToSet(r) = S
  BY <1>1, <1>5, SortedLists
<1>7. \A i, j \in 1 .. Cardinality(S) : i < j => <<r[i], r[j]>> \in DueOrder
  BY <1>1, <1>5, SortedIs
<1> HIDE DEF r
<1>8. ASSUME NEW i \in 1 .. Len(r), NEW j \in 1 .. Len(r), i < j
      PROVE  r[i] # r[j] /\ card[r[i]].due <= card[r[j]].due
  <2>1. r[i] \in S /\ r[j] \in S /\ <<r[i], r[j]>> \in DueOrder BY <1>6, <1>7, <1>8
  <2>2. r[i] # r[j] BY <1>5, <2>1 DEF Orders
  <2> QED BY <1>1, <1>2, <1>3, <2>1, <2>2
<1>9. ByDue(s) = r BY DEF ByDue, r, S
<1> QED BY <1>6, <1>8, <1>9 DEF RowsOf, S

\* Rows of earlier days and rows of later days are rows.
LEMMA RowsJoin ==
  ASSUME TypeOK, NEW S \in SUBSET Live, NEW T \in SUBSET Live, NEW s, NEW t,
         RowsOf(s, S), RowsOf(t, T),
         \A a \in S, b \in T : card[a].due < card[b].due
  PROVE  RowsOf(s \o t, S \cup T) /\ Len(s \o t) = Len(s) + Len(t)
<1> DEFINE n == Len(s)
           m == Len(t)
           u == s \o t
<1>1. /\ s \in Seq(S) /\ ToSet(s) = S /\ n = Cardinality(S)
      /\ t \in Seq(T) /\ ToSet(t) = T /\ m = Cardinality(T)
  BY DEF RowsOf
<1>2. s \in Seq(S \cup T) /\ t \in Seq(S \cup T)
  <2>1. \A i \in 1 .. n : s[i] \in S BY <1>1
  <2>2. \A i \in 1 .. m : t[i] \in T BY <1>1
  <2> QED BY <1>1, <2>1, <2>2
<1>3. /\ u \in Seq(S \cup T) /\ Len(u) = n + m /\ n \in Nat /\ m \in Nat
      /\ \A i \in 1 .. n : u[i] = s[i]
      /\ \A i \in 1 .. m : u[n + i] = t[i]
  BY <1>2
<1> HIDE DEF u, n, m
<1>4. \A i \in 1 .. n + m : \/ i \in 1 .. n /\ u[i] = s[i] /\ s[i] \in S
                            \/ i - n \in 1 .. m /\ u[i] = t[i - n] /\ t[i - n] \in T
  <2> SUFFICES ASSUME NEW i \in 1 .. n + m, i \notin 1 .. n
               PROVE  i - n \in 1 .. m /\ u[i] = t[i - n] /\ t[i - n] \in T
    BY <1>1, <1>3 DEF n
  <2>1. i - n \in 1 .. m /\ n + (i - n) = i BY <1>3
  <2>2. u[i] = t[i - n] BY <1>3, <2>1
  <2>3. t[i - n] \in T BY <1>1, <2>1 DEF m
  <2> QED BY <2>1, <2>2, <2>3
<1>5. \A a \in S \cup T : card[a].due \in Int
  <2>1. \A a \in Live : card[a].due \in Nat \cup {NoDay} BY CardFields
  <2> QED BY <2>1 DEF NoDay
<1>6. S \cap T = {} BY <1>5
<1>7. Cardinality(S \cup T) = n + m
  <2>1. IsFiniteSet(S) /\ IsFiniteSet(T) BY Finite
  <2>2. Cardinality(S \cup T) = Cardinality(S) + Cardinality(T) - Cardinality(S \cap T)
    BY <2>1, FS_Union
  <2>3. Cardinality({}) = 0 BY FS_EmptySet
  <2>4. n = Cardinality(S) /\ m = Cardinality(T) BY <1>1 DEF n, m
  <2>5. Cardinality(S \cap T) = 0 BY <1>6, <2>3
  <2> QED BY <1>3, <2>2, <2>4, <2>5
<1>8. ToSet(u) = S \cup T
  <2>1. ASSUME NEW a \in S PROVE a \in ToSet(u)
    <3>1. PICK i \in 1 .. n : s[i] = a BY <1>1 DEF ToSet, n
    <3>2. i \in 1 .. Len(u) /\ u[i] = a BY <1>3, <3>1
    <3> QED BY <1>3, <3>2 DEF ToSet
  <2>2. ASSUME NEW a \in T PROVE a \in ToSet(u)
    <3>1. PICK i \in 1 .. m : t[i] = a BY <1>1 DEF ToSet, m
    <3>2. n + i \in 1 .. Len(u) /\ u[n + i] = a BY <1>3, <3>1
    <3> QED BY <1>3, <3>2 DEF ToSet
  <2>3. ToSet(u) \subseteq S \cup T BY <1>3, <1>4 DEF ToSet
  <2> QED BY <2>1, <2>2, <2>3
<1>9. ASSUME NEW i \in 1 .. n + m, NEW j \in 1 .. n + m, i < j
      PROVE  u[i] # u[j] /\ card[u[i]].due <= card[u[j]].due
  <2>1. CASE j \in 1 .. n
    <3>1. i \in 1 .. n BY <1>3, <1>9, <2>1
    <3> QED BY <1>3, <1>9, <2>1, <3>1 DEF RowsOf, n
  <2>2. CASE i \notin 1 .. n
    <3>1. /\ i - n \in 1 .. m /\ j - n \in 1 .. m /\ i - n < j - n
          /\ u[i] = t[i - n] /\ u[j] = t[j - n]
      BY <1>3, <1>4, <1>9, <2>2
    <3> QED BY <3>1 DEF RowsOf, m
  <2>3. CASE i \in 1 .. n /\ j \notin 1 .. n
    <3>0. i - n \notin 1 .. m BY <1>3, <2>3
    <3>1. u[i] \in S /\ u[j] \in T BY <1>4, <2>3, <3>0
    <3>2. card[u[i]].due < card[u[j]].due BY <3>1
    <3> QED BY <1>5, <3>1, <3>2
  <2> QED BY <2>1, <2>2, <2>3
<1>10. RowsOf(u, S \cup T) BY <1>3, <1>7, <1>8, <1>9 DEF RowsOf
<1> QED BY <1>3, <1>10 DEF u, n, m

\* The four buckets, one after the other, are rows of all urgent work.
LEMMA RowsAre ==
  ASSUME IInv, ~view.mine
  PROVE  /\ RowsOf(TaskRows, {k \in Live : Dated(k) /\ ~ColumnDone(k)
                                          /\ card[k].due <= memoDay + 7})
         /\ Len(TaskRows) = UrgentCount
<1> DEFINE A == ToSet(Stats.overdue)
           B == ToSet(Stats.today)
           C == ToSet(Stats.tomorrow)
           D == ToSet(Stats.thisWeek)
           a == ByDue(Stats.overdue)
           b == ByDue(Stats.today)
           c == ByDue(Stats.tomorrow)
           d == ByDue(Stats.thisWeek)
<1>1. TypeOK /\ memoDay \in Nat BY DEF IInv, TypeOK
<1>2. /\ A = {k \in Live : Dated(k) /\ ~ColumnDone(k) /\ card[k].due < memoDay}
      /\ B = {k \in Live : Dated(k) /\ ~ColumnDone(k) /\ card[k].due = memoDay}
      /\ C = {k \in Live : Dated(k) /\ ~ColumnDone(k) /\ card[k].due = memoDay + 1}
      /\ D = {k \in Live : Dated(k) /\ ~ColumnDone(k)
                           /\ card[k].due > memoDay + 1 /\ card[k].due <= memoDay + 7}
  BY BucketsAre
<1>3. TaskRows = a \o b \o c \o d BY DEF TaskRows, Mine
<1>4. A \in SUBSET Live /\ B \in SUBSET Live /\ C \in SUBSET Live /\ D \in SUBSET Live
  BY <1>2
<1>5. RowsOf(a, A) /\ RowsOf(b, B) /\ RowsOf(c, C) /\ RowsOf(d, D)
  BY <1>1, <1>4, ByDueRows
<1>6. /\ Len(a) = Len(Stats.overdue) /\ Len(b) = Len(Stats.today)
      /\ Len(c) = Len(Stats.tomorrow) /\ Len(d) = Len(Stats.thisWeek)
  <2>1. /\ Len(Stats.overdue) = Cardinality(A) /\ Len(Stats.today) = Cardinality(B)
        /\ Len(Stats.tomorrow) = Cardinality(C) /\ Len(Stats.thisWeek) = Cardinality(D)
    BY BucketsAre
  <2> HIDE DEF A, B, C, D, a, b, c, d
  <2> QED BY <1>5, <2>1 DEF RowsOf
<1> HIDE DEF A, B, C, D, a, b, c, d
<1>7. \A k \in Live : card[k].due \in Int
  <2>1. \A k \in Live : card[k].due \in Nat \cup {NoDay} BY <1>1, CardFields
  <2> QED BY <2>1 DEF NoDay
<1>8. RowsOf(a \o b, A \cup B) /\ Len(a \o b) = Len(a) + Len(b)
  <2>1. \A x \in A, y \in B : card[x].due < card[y].due BY <1>1, <1>2, <1>7
  <2> QED BY <1>1, <1>4, <1>5, <2>1, RowsJoin
<1>9. RowsOf((a \o b) \o c, (A \cup B) \cup C) /\ Len((a \o b) \o c) = Len(a \o b) + Len(c)
  <2>1. \A x \in A \cup B, y \in C : card[x].due < card[y].due BY <1>1, <1>2, <1>7
  <2>2. A \cup B \in SUBSET Live BY <1>4
  <2> QED BY <1>1, <1>4, <1>5, <1>8, <2>1, <2>2, RowsJoin
<1>10. /\ RowsOf(((a \o b) \o c) \o d, ((A \cup B) \cup C) \cup D)
       /\ Len(((a \o b) \o c) \o d) = Len((a \o b) \o c) + Len(d)
  <2>1. \A x \in (A \cup B) \cup C, y \in D : card[x].due < card[y].due
    BY <1>1, <1>2, <1>7
  <2>2. (A \cup B) \cup C \in SUBSET Live BY <1>4
  <2> QED BY <1>1, <1>4, <1>5, <1>9, <2>1, <2>2, RowsJoin
<1>11. ((A \cup B) \cup C) \cup D
         = {k \in Live : Dated(k) /\ ~ColumnDone(k) /\ card[k].due <= memoDay + 7}
  BY <1>1, <1>2, <1>7
<1>12. Len(TaskRows) = UrgentCount BY <1>3, <1>6, <1>8, <1>9, <1>10 DEF UrgentCount
<1> QED BY <1>3, <1>10, <1>11, <1>12

(* The Tasks tab lists all open work due within a week, each card once, by  *)
(* day, and the tile and the lists name the same late cards while done flags *)
(* and columns agree (useDashboardStats, TasksTabContent, OverviewTabContent). *)
THEOREM UrgentWorkHolds == Spec => []UrgentWorkIsListed
<1>1. IInv => UrgentWorkIsListed
  <2> SUFFICES ASSUME IInv, memoDay = day
               PROVE  /\ FlagsAgree => ToSet(Stats.overdue) = OverdueTile
                      /\ LET rows == TaskRows IN
                         ~view.mine =>
                           /\ ToSet(rows) = {k \in Live : Dated(k) /\ ~ColumnDone(k)
                                                          /\ card[k].due <= day + 7}
                           /\ Len(rows) = UrgentCount /\ IsInjective(rows)
                           /\ \A i, j \in DOMAIN rows :
                                i < j => card[rows[i]].due <= card[rows[j]].due
    BY DEF UrgentWorkIsListed
  <2>1. FlagsAgree => ToSet(Stats.overdue) = OverdueTile
    <3> HAVE FlagsAgree
    <3>1. \A k \in Live : card[k].done = ColumnDone(k) BY DEF FlagsAgree
    <3>2. ToSet(Stats.overdue)
            = {k \in Live : Dated(k) /\ ~ColumnDone(k) /\ card[k].due < day}
      BY BucketsAre
    <3> QED BY <3>1, <3>2 DEF OverdueTile
  <2>2. ASSUME ~view.mine
        PROVE  LET rows == TaskRows IN
               /\ ToSet(rows) = {k \in Live : Dated(k) /\ ~ColumnDone(k)
                                              /\ card[k].due <= day + 7}
               /\ Len(rows) = UrgentCount /\ IsInjective(rows)
               /\ \A i, j \in DOMAIN rows :
                    i < j => card[rows[i]].due <= card[rows[j]].due
    <3> DEFINE rows == TaskRows
               S == {k \in Live : Dated(k) /\ ~ColumnDone(k) /\ card[k].due <= day + 7}
    <3>1. RowsOf(rows, S) /\ Len(rows) = UrgentCount BY <2>2, RowsAre
    <3> HIDE DEF rows, S
    <3>2. rows \in Seq(S) /\ DOMAIN rows = 1 .. Len(rows) /\ Len(rows) \in Nat
      BY <3>1 DEF RowsOf
    <3>3. \A i, j \in DOMAIN rows :
            i < j => rows[i] # rows[j] /\ card[rows[i]].due <= card[rows[j]].due
      BY <3>1, <3>2 DEF RowsOf
    <3>4. IsInjective(rows)
      <4>1. \A i, j \in DOMAIN rows : i = j \/ i < j \/ j < i BY <3>2
      <4> QED BY <3>3, <4>1 DEF IsInjective
    <3> QED BY <3>1, <3>3, <3>4 DEF RowsOf, rows, S
  <2> QED BY <2>1, <2>2
<1> QED BY <1>1, InvHolds, PTL

-----------------------------------------------------------------------------
(* Drag and drop *)

\* Of the steps that end a drag only a drop counts as a change.
LEMMA DropsAre ==
  ASSUME [Next]_vars, NEW k, Dropped(k)
  PROVE  handleDragEnd
<1>1. dialog.kind = "drag" /\ k = dialog.id /\ dialog'.kind # "drag" /\ edits' # edits
  BY DEF Dropped
<1>2. dialog # NoDialog BY <1>1 DEF NoDialog, None
<1>3. ASSUME Settle PROVE FALSE
  BY <1>1, <1>3 DEF Settle
<1>4. ASSUME \E v, g : Look(v, g) PROVE FALSE BY <1>1, <1>4 DEF Look
<1>5. ASSUME NEW f, SetFilter(f) PROVE FALSE BY <1>3, <1>5 DEF SetFilter
<1>6. ASSUME Change PROVE FALSE BY <1>3, <1>6 DEF Change
<1>7. ASSUME StoreChange PROVE FALSE
  <2>1. ASSUME NEW x, NEW c, NEW q, CardMoved(x, c, q) PROVE FALSE
    BY <1>6, <2>1 DEF CardMoved
  <2>2. ASSUME NEW x, MovedElsewhere(x) \/ MovedHere(x) PROVE FALSE
    BY <2>1, <2>2 DEF MovedElsewhere, MovedHere
  <2>3. ASSUME NEW x, removeCardFromStore(x) \/ updateCard(x) \/ removeTagFromBoard(x)
                      \/ removeColumnFromStore(x) \/ setBoardMembers(x)
        PROVE  FALSE
    BY <1>6, <2>3 DEF removeCardFromStore, updateCard, removeTagFromBoard,
                      removeColumnFromStore, setBoardMembers
  <2>4. ASSUME NEW x, NEW y, updateColumnInStore(x, y) \/ addColumnToStore(x, y) PROVE FALSE
    BY <1>6, <2>4 DEF updateColumnInStore, addColumnToStore
  <2>5. ASSUME NEW x, NEW y, NEW z, addCardToStore(x, y, z) PROVE FALSE
    BY <1>6, <2>5 DEF addCardToStore
  <2> QED BY <1>7, <2>2, <2>3, <2>4, <2>5 DEF StoreChange
<1>8. ASSUME Kanban PROVE handleDragEnd
  <2>1. CASE ColumnOptionsModal BY <1>1, <2>1 DEF ColumnOptionsModal
  <2>2. CASE \E c \in DOMAIN cat : KanbanColumn(c)
    BY <1>4, <2>2 DEF KanbanColumn, Remember, Show
  <2>3. CASE \E x \in OnBoard : TaskCard(x) BY <1>2, <2>3 DEF TaskCard, DragStart
  <2>4. CASE \/ \E over \in Droppables, half \in {"upper", "lower"} : onDragOver(over, half)
             \/ DragAlong \/ DragCancel
    BY <1>4, <2>4 DEF onDragOver, DragAlong, DragCancel, Show
  <2> QED BY <1>2, <1>8, <2>1, <2>2, <2>3, <2>4 DEF Kanban
<1>9. ASSUME Calendar PROVE FALSE
  <2>1. CASE OpenPill BY <1>4, <2>1 DEF OpenPill, Show
  <2>2. CASE CalendarHeader
    BY <1>4, <2>2 DEF CalendarHeader, MonthYearPicker, Remember
  <2>3. CASE CalendarFilters BY <1>2, <2>3 DEF CalendarFilters
  <2> QED BY <1>9, <2>1, <2>2, <2>3 DEF Calendar
<1>10. ASSUME (\E q : OpenPage(q)) \/ Midnight PROVE FALSE
  BY <1>1, <1>10 DEF OpenPage, Midnight
<1>11. ASSUME Overview \/ CloseDialog PROVE FALSE
  BY <1>1, <1>2, <1>11 DEF Overview, CloseDialog
<1>12. ASSUME UNCHANGED vars PROVE FALSE BY <1>1, <1>12 DEF vars
<1> QED BY <1>7, <1>8, <1>9, <1>10, <1>11, <1>12 DEF Next

\* Such a drop is of a card of the board onto another card or onto a column, and
\* places it where calcPosition says.
LEMMA DropPuts ==
  ASSUME IInv, NEW k \in Live, k = dialog.id, handleDragEnd, edits' # edits
  PROVE  LET over == dialog.over IN
         /\ over.kind = "column" =>
              /\ over.id \in DOMAIN cat
              /\ card' = Put(k, over.id, calcPosition(over.id, NoId, k, dialog.half))
         /\ over.kind # "column" =>
              /\ over.id \in Live /\ over.id # k
              /\ card' = Put(k, card[over.id].col,
                             calcPosition(card[over.id].col, over.id, k, dialog.half))
<1> DEFINE over == dialog.over
           known == \/ over.kind = "column" /\ over.id \in DOMAIN cat
                    \/ over.kind = "card" /\ over.id \in Live
           c == IF over.kind = "column" THEN over.id ELSE card[over.id].col
           o == IF over.kind = "card" THEN over.id ELSE NoId
<1>1. known /\ over.id # k BY DEF handleDragEnd, Look
<1>2. card' = Put(k, c, calcPosition(c, o, k, dialog.half)) BY <1>1 DEF handleDragEnd
<1>3. CASE over.kind = "column"
  <2>1. c = over.id /\ o = NoId BY <1>3
  <2> QED BY <1>1, <1>2, <1>3, <2>1
<1>4. CASE over.kind # "column"
  <2>1. c = card[over.id].col /\ o = over.id BY <1>1, <1>4
  <2> QED BY <1>1, <1>2, <1>4, <2>1
<1> QED BY <1>3, <1>4

\* A card that is put at a position comes behind those that are there or before.
LEMMA PutOrders ==
  ASSUME IInv, NEW k \in Live, NEW c \in DOMAIN cat, NEW p \in Nat, card' = Put(k, c, p)
  PROVE  /\ card'[k].col = c /\ card'[k].pos = p
         /\ \A j \in InColumn(c) \ {k} : /\ card[j].pos <= p => Before(j, k)'
                                         /\ p < card[j].pos => Before(k, j)'
<1>1. /\ card'[k].col = c /\ card'[k].pos = p /\ card'[k].turn = LastTurn(c, k, p)
      /\ \A j \in Live \ {k} : card'[j] = card[j]
  BY PlaceWritten
<1>2. ASSUME NEW j \in InColumn(c) \ {k}
      PROVE  /\ card[j].pos <= p => Before(j, k)'
             /\ p < card[j].pos => Before(k, j)'
  <2>1. j \in Live /\ card'[j] = card[j] BY <1>1 DEF InColumn
  <2>2. card[j].pos \in Nat BY <2>1, CardFields DEF IInv
  <2>3. card[j].pos = p => card[j].turn < LastTurn(c, k, p) BY TurnIs DEF IInv
  <2>4. card[j].pos <= p => card[j].pos < p \/ card[j].pos = p BY <2>2
  <2> QED BY <1>1, <2>1, <2>3, <2>4 DEF Before
<1> QED BY <1>1, <1>2

(* A dropped card lands where the pointer is at the drop, whatever became of *)
(* the columns during the drag and whatever positions their cards share      *)
(* (useDragActions with calcPositionFromColumns and the store's moveCard).   *)
THEOREM DropsLandAtPointer == Spec => DropLandsAtPointer
<1> DEFINE Lands(k) ==
      LET over == dialog.over
          others == InColumn(card'[k].col) \ {k}
      IN  IF over.kind = "column"
          THEN card'[k].col = over.id /\ \A j \in others : Before(j, k)'
          ELSE /\ card'[k].col = card[over.id].col
               /\ \A j \in others :
                    IF Before(j, over.id) \/ (j = over.id /\ dialog.half = "lower")
                    THEN Before(j, k)'
                    ELSE Before(k, j)' \/ card'[k].pos = card[j].pos
<1>1. ASSUME IInv, [Next]_vars, NEW k \in Live, Dropped(k) PROVE Lands(k)
  <2>1. handleDragEnd /\ k = dialog.id /\ edits' # edits BY <1>1, DropsAre DEF Dropped
  <2> DEFINE over == dialog.over
  <2>2. CASE over.kind = "column"
    <3> DEFINE p == calcPosition(over.id, NoId, k, dialog.half)
    <3>1. over.id \in DOMAIN cat /\ card' = Put(k, over.id, p)
      BY <1>1, <2>1, <2>2, DropPuts
    <3>2. p \in Nat /\ \A j \in InColumn(over.id) \ {k} : card[j].pos < p
      BY <1>1, PositionIs DEF IInv
    <3> HIDE DEF p
    <3>3. \A j \in InColumn(over.id) \ {k} : card[j].pos \in Nat /\ card[j].pos <= p
      <4>1. \A j \in InColumn(over.id) \ {k} : j \in Live BY DEF InColumn
      <4>2. \A j \in InColumn(over.id) \ {k} : card[j].pos \in Nat
        BY <1>1, <4>1, CardFields DEF IInv
      <4> QED BY <3>2, <4>2
    <3>4. card'[k].col = over.id /\ \A j \in InColumn(over.id) \ {k} : Before(j, k)'
      BY <1>1, <3>1, <3>2, <3>3, PutOrders
    <3> QED BY <2>2, <3>4
  <2>3. CASE over.kind # "column"
    <3> DEFINE o == over.id
               c == card[o].col
               p == calcPosition(c, o, k, dialog.half)
    <3>1. o \in Live /\ o # k /\ card' = Put(k, c, p) BY <1>1, <2>1, <2>3, DropPuts
    <3>2. c \in DOMAIN cat /\ o \in InColumn(c) \ {k}
      BY <1>1, <3>1 DEF IInv, Placed, InColumn
    <3>3. o # NoId
      <4>1. o \in Cards BY <1>1, <3>1 DEF IInv, TypeOK
      <4> QED BY <4>1, PagesAssumption
    <3> HIDE DEF o, c
    <3>4. /\ p \in Nat
          /\ \A j \in InColumn(c) \ {k} :
               IF Before(j, o) \/ (j = o /\ dialog.half = "lower")
               THEN card[j].pos <= p ELSE p <= card[j].pos
      BY <1>1, <3>2, <3>3, PositionIs DEF IInv
    <3> HIDE DEF p
    <3>5. \A j \in InColumn(c) \ {k} : card[j].pos \in Nat
      <4>1. \A j \in InColumn(c) \ {k} : j \in Live BY DEF InColumn
      <4> QED BY <1>1, <4>1, CardFields DEF IInv
    <3>6. /\ card'[k].col = c /\ card'[k].pos = p
          /\ \A j \in InColumn(c) \ {k} : /\ card[j].pos <= p => Before(j, k)'
                                          /\ p < card[j].pos => Before(k, j)'
      BY <1>1, <3>1, <3>2, <3>4, PutOrders
    <3>7. \A j \in InColumn(c) \ {k} :
            IF Before(j, o) \/ (j = o /\ dialog.half = "lower")
            THEN Before(j, k)'
            ELSE Before(k, j)' \/ card'[k].pos = card[j].pos
      <4> SUFFICES ASSUME NEW j \in InColumn(c) \ {k}
                   PROVE  IF Before(j, o) \/ (j = o /\ dialog.half = "lower")
                          THEN Before(j, k)'
                          ELSE Before(k, j)' \/ card'[k].pos = card[j].pos
        OBVIOUS
      <4>1. p <= card[j].pos => p < card[j].pos \/ p = card[j].pos BY <3>4, <3>5
      <4> QED BY <3>4, <3>6, <4>1
    <3> QED BY <2>3, <3>6, <3>7 DEF c, o
  <2> QED BY <2>2, <2>3
<1>2. IInv /\ [Next]_vars => [\A k \in Live : Dropped(k) => Lands(k)]_vars BY <1>1
<1> QED BY <1>2, InvHolds, PTL DEF DropLandsAtPointer, Spec, Lands

=============================================================================
