---------------------------- MODULE MyWork_proofs ----------------------------
(***************************************************************************)
(* Theorems about MyWork, for any cards, boards, dates, settings and       *)
(* bounds.                                                                 *)
(*                                                                         *)
(* What the page at rest lists is not inductive by itself: a row is taken    *)
(* off the page long before the server hears of it, and put back long after. *)
(* PageState, Working and Listing say what becomes of it meanwhile: whose     *)
(* row is pending or in a completion on its way was listed as the server had *)
(* it, and the list a snooze may put back was right.  That holds because      *)
(* requests that would undo each other's work are never out together, unless *)
(* the page is mixed (Apart).  ViewState and Boxed do the same for the boxes  *)
(* of the quick view.                                                       *)
(*                                                                         *)
(* Sums is kept beside it: the counts are those of the listed rows, or of the *)
(* list that a snooze took and may put back, which has no card twice, as no  *)
(* answer of the server has; what is done today is finished, sent or pending. *)
(***************************************************************************)
EXTENDS MyWork, FiniteSetTheorems, WellFoundedInduction, SequenceTheorems, TLAPS

\* The types.
CardRows == [card : Cards, due : Nat, done : BOOLEAN]
Versions == [Cards -> Nat]
Datas == [list : Seq(CardRows), known : Versions]
DbRows ==
  [due : Nat, holder : Holders, done : BOOLEAN, sub : BOOLEAN, ver : Nat, subver : Nat]
ViewKinds == {"detail", "toggle"}
Snoozes == {"snooze", "snoozed"}
SnoozeKinds == Snoozes \cup {"unsnooze", "unsnoozed"}
Kinds == {"load", "complete"} \cup ViewKinds \cup SnoozeKinds
Requests ==
  [kind : Kinds, card : Cards \cup {0}, mount : Nat, stage : {"sent", "ok", "refused"},
   row : CardRows \cup {NoRow}, due : Nat, prev : Datas, reply : Datas, view : Nat,
   value : BOOLEAN]
Views ==
  [id : Nat, row : CardRows \cup {NoRow}, state : {"loading", "shown", "failed"},
   sub : BOOLEAN, known : Nat, muddled : BOOLEAN]
Toasts == [card : Cards, due : Nat, mount : Nat]
Whole(r) ==
  /\ r.kind # "load" => r.card \in Cards
  /\ r.kind = "complete" => r.row \in CardRows /\ r.row.card = r.card
  /\ r.kind \in ViewKinds <=> r.view # Closed

PageTypes ==
  /\ DOMAIN page = {"phase", "list", "counts", "doneToday", "mount"}
  /\ page.phase \in {"loading", "ready", "failed", "left"}
  /\ page.list \in Seq(CardRows) /\ page.mount \in Nat
PendingTypes == pending \in SUBSET CardRows /\ IsFiniteSet(pending)
ReqTypes == reqs \in Seq(Requests) /\ \A k \in DOMAIN reqs : Whole(reqs[k])
Typing ==
  /\ db \in [Cards -> DbRows] /\ PageTypes /\ PendingTypes /\ ReqTypes
  /\ view \in Views /\ (view.id # Closed => view.row \in CardRows)
  /\ toasts \in SUBSET Toasts
  /\ known \in Versions /\ mixed \in BOOLEAN /\ owed \in [Cards -> Int] /\ inputs \in Nat

-----------------------------------------------------------------------------
(* Completions *)

OnePending == \A p, q \in pending : p.card = q.card => p = q

-----------------------------------------------------------------------------
(* The page *)

\* The requests, in no order.
Members == ToSet(reqs)
Others(i) == {reqs[k] : k \in DOMAIN reqs \ {i}}
Out(kinds) == \E r \in Members : r.kind \in kinds /\ OfThisPage(r)
Finishing(c) ==
  \E r \in Members : r.kind = "complete" /\ OfThisPage(r) /\ r.card = c

\* The dates under which a list has a card, and those it should have.
DuesIn(list, c) == {list[i].due : i \in {j \in DOMAIN list : list[j].card = c}}
Stored(c) == IF InInbox(c) THEN {db[c].due} ELSE {}
Right(list, seen, c) == seen[c] = db[c].ver => DuesIn(list, c) = Stored(c)

\* A row that was taken off the page was listed rightly.
Listable(row) == known[row.card] = db[row.card].ver => Stored(row.card) = {row.due}
Hidden(c) == DuesIn(page.list, c) = {}

\* What is claimed of a page: it has its list and no snooze came in between.
Settled == page.phase = "ready" /\ ~mixed

\* Pages get new numbers, begin with their load and do nothing before the
\* answer; nobody knows what is not written yet.
PageState ==
  /\ page.mount <= inputs /\ \A t \in toasts : t.mount <= page.mount
  /\ page.phase # "ready" => pending = {} /\ view.id = Closed
  /\ page.phase \in {"loading", "failed"} => \A t \in toasts : t.mount # page.mount
  /\ \A c \in Cards : known[c] <= db[c].ver
  /\ Settled => \A p \in pending : Hidden(p.card) /\ Listable(p)

Known(r) ==
  /\ r.mount <= page.mount /\ r.view <= inputs
  /\ OfThisPage(r) => page.phase = IF r.kind = "load" THEN "loading" ELSE "ready"
  /\ \A c \in Cards : r.prev.known[c] <= db[c].ver
  /\ r.kind # "detail" => \A c \in Cards : r.reply.known[c] <= db[c].ver
  /\ r.kind \in Reads /\ r.stage = "ok" =>
       \A c \in Cards : Right(r.reply.list, r.reply.known, c)

\* What was completed is known to be done, or would be put back rightly.
Completed(r) ==
  IF r.stage = "ok"
  THEN /\ known[r.card] < r.reply.known[r.card]
       /\ r.reply.known[r.card] = db[r.card].ver => db[r.card].done
  ELSE Listable(r.row)
Working(r) ==
  Settled /\ OfThisPage(r) =>
    /\ r.kind \in SnoozeKinds => pending = {}
    /\ r.kind \in Snoozes => \A c \in Cards : Right(r.prev.list, r.prev.known, c)
    /\ r.kind = "complete" => ~IsPending(r.card) /\ Hidden(r.card) /\ Completed(r)

Listing ==
  Settled => \A c \in Cards :
    Out(Snoozes) \/ IsPending(c) \/ Finishing(c) \/ Right(page.list, known, c)

-----------------------------------------------------------------------------
(* The quick view *)

Viewed(r) == view.id # Closed /\ r.view = view.id
ViewState ==
  /\ view.id <= inputs
  /\ view.id # Closed /\ view.state = "shown" /\ ~view.muddled =>
       /\ view.known <= db[view.row.card].subver
       /\ ~(\E r \in Members : Viewed(r)) /\ view.known = db[view.row.card].subver =>
            view.sub = db[view.row.card].sub

\* A box that was clicked: as before until the server wrote it.
Toggled(r) ==
  /\ r.value = view.sub
  /\ r.stage = "sent" /\ view.known = db[r.card].subver => db[r.card].sub = ~r.value
  /\ r.stage # "sent" => /\ view.known < db[r.card].subver
                         /\ view.known + 1 = db[r.card].subver => db[r.card].sub = r.value
Boxed(r) ==
  /\ r.kind = "detail" =>
       /\ r.reply.known[r.card] <= db[r.card].subver
       /\ r.stage = "ok" /\ r.reply.known[r.card] = db[r.card].subver =>
            r.value = db[r.card].sub
  /\ Viewed(r) =>
       /\ r.card = view.row.card
       /\ view.state = IF r.kind = "detail" THEN "loading" ELSE "shown"
       /\ r.kind = "toggle" /\ ~view.muddled => Toggled(r)

-----------------------------------------------------------------------------
(* Requests that may not be out together *)

PageRivals(a, b) ==
  /\ OfThisPage(a) /\ OfThisPage(b)
  /\ \/ a.kind = "load" /\ b.kind = "load"
     \/ ~mixed /\ a.kind \in SnoozeKinds /\ b.kind \in SnoozeKinds \cup {"complete"}
     \/ ~mixed /\ a.kind = "complete" /\ b.kind = "complete" /\ a.card = b.card
ViewRivals(a, b) ==
  Viewed(a) /\ Viewed(b) /\ (a.kind = "toggle" /\ b.kind = "toggle" => ~view.muddled)
Rivals(a, b) == PageRivals(a, b) \/ ViewRivals(a, b)
Apart == \A j, k \in DOMAIN reqs : j # k => ~Rivals(reqs[j], reqs[k])

Inv ==
  /\ PageState /\ Listing /\ ViewState /\ Apart
  /\ \A r \in Members : Known(r) /\ Working(r) /\ Boxed(r)
IInv == Typing /\ OnePending /\ OneRequestPerCompletion /\ Inv

-----------------------------------------------------------------------------
(* Numbers and lists *)

\* The order that the library's well-founded minimum is about.
LEMMA LessThan == OpToRel(<, Nat) = {ss \in Nat \X Nat : ss[1] < ss[2]}
BY DEF OpToRel

\* The smallest of a set of numbers is one of them (FiniteSetsExt's Min).
LEMMA MinIsIn ==
  ASSUME NEW S \in SUBSET Nat, S # {} PROVE Min(S) \in S /\ \A y \in S : Min(S) <= y
<1> DEFINE R == OpToRel(<, Nat)
<1>1. IsWellFoundedOn(R, Nat)
  BY NatLessThanWellFounded
<1>2. R = {ss \in Nat \X Nat : ss[1] < ss[2]}
  BY LessThan
<1> HIDE DEF R
<1>3. PICK x \in S : \A y \in S : ~(<<y, x>> \in R)
  BY <1>1, WFMin
<1>4. \A y \in S : x <= y
  <2>1. TAKE y \in S
  <2>2. <<y, x>> \in Nat \X Nat /\ <<y, x>>[1] = y /\ <<y, x>>[2] = x
    OBVIOUS
  <2>3. ~(y < x)
    BY <1>2, <1>3, <2>2
  <2>4. QED
    BY <2>3
<1>5. QED
  BY <1>4 DEF Min

\* Induction up to a bound, about a set.
LEMMA UpTo ==
  ASSUME NEW N \in Nat, NEW G, 0 \in G, \A n \in 0 .. N : n \in G /\ n < N => n + 1 \in G
  PROVE  \A n \in 0 .. N : n \in G
<1> DEFINE bad == {n \in 0 .. N : n \notin G}
<1>1. SUFFICES ASSUME bad # {} PROVE FALSE
  OBVIOUS
<1>2. Min(bad) \in bad /\ \A y \in bad : Min(bad) <= y
  BY <1>1, MinIsIn
<1>3. PICK n \in bad : \A y \in bad : n <= y
  BY <1>2
<1>4. n \in 1 .. N
  OBVIOUS
<1>5. n - 1 \in 0 .. N /\ n - 1 < N /\ (n - 1) + 1 = n
  BY <1>4
<1>6. n - 1 \notin bad
  BY <1>3, <1>5
<1>7. QED
  BY <1>5, <1>6

\* What Kept keeps: a list of the rows that are in both.
Picks(kept, list, rows) ==
  \A x : (\E k \in DOMAIN kept : kept[k] = x)
           <=> x \in rows /\ \E i \in DOMAIN list : list[i] = x
OnceEach(list) == \A i, j \in DOMAIN list : list[i] = list[j] => i = j
\* Kept has the rows of the list that are in the set, and no others, and
\* none twice that the list has once.
LEMMA KeptIs ==
  ASSUME NEW T, NEW list \in Seq(T), NEW rows
  PROVE  /\ Kept(list, rows) \in Seq(T) /\ Picks(Kept(list, rows), list, rows)
         /\ OnceEach(list) => OnceEach(Kept(list, rows))
<1> DEFINE N == Len(list)
           Next1(s, i) == IF list[i] \in rows THEN Append(s, list[i]) ELSE s
           Body(f) == [i \in 0 .. N |-> IF i = 0 THEN <<>>
                                        ELSE IF list[i] \in rows
                                        THEN Append(f[i - 1], list[i])
                                        ELSE f[i - 1]]
           kept == CHOOSE f : f = Body(f)
           Steps(f, n) == f[0] = <<>> /\ \A i \in 1 .. n : f[i] = Next1(f[i - 1], i)
           G == {n \in 0 .. N : \E f \in [0 .. n -> Seq(T)] : Steps(f, n)}
<1>1. N \in Nat /\ DOMAIN list = 1 .. N /\ \A i \in 1 .. N : list[i] \in T
  OBVIOUS
<1>2. \A s \in Seq(T), i \in 1 .. N : Next1(s, i) \in Seq(T)
  BY <1>1
<1> HIDE DEF Next1, N
<1>3. 0 \in G
  <2> DEFINE e == [i \in 0 .. 0 |-> <<>>]
  <2>1. e \in [0 .. 0 -> Seq(T)] /\ e[0] = <<>> /\ 1 .. 0 = {} /\ 0 \in 0 .. N
    BY <1>1
  <2> HIDE DEF e
  <2>2. Steps(e, 0)
    BY <2>1
  <2>3. QED
    BY <2>1, <2>2
<1>4. ASSUME NEW n \in 0 .. N, n \in G, n < N PROVE n + 1 \in G
  <2>1. PICK f \in [0 .. n -> Seq(T)] : Steps(f, n)
    BY <1>4
  <2> DEFINE g == [i \in 0 .. n + 1 |-> IF i = n + 1 THEN Next1(f[n], n + 1) ELSE f[i]]
  <2>2. n + 1 \in 0 .. N /\ n + 1 \in 1 .. N /\ n \in 0 .. n /\ n \in Nat
    BY <1>1, <1>4
  <2>3. Next1(f[n], n + 1) \in Seq(T)
    BY <1>2, <2>2
  <2>4. g \in [0 .. n + 1 -> Seq(T)]
    BY <2>2, <2>3
  <2>5. Steps(g, n + 1)
    <3>1. g[0] = <<>>
      BY <2>1, <2>2
    <3>2. ASSUME NEW i \in 1 .. n + 1 PROVE g[i] = Next1(g[i - 1], i)
      <4>1. CASE i = n + 1
        BY <2>2, <4>1
      <4>2. CASE i # n + 1
        <5>1. i \in 1 .. n /\ i - 1 \in 0 .. n /\ i - 1 # n + 1 /\ i - 1 \in 0 .. n + 1
          BY <2>2, <4>2
        <5>2. g[i] = f[i] /\ g[i - 1] = f[i - 1]
          BY <4>2, <5>1, <2>2
        <5>3. QED
          BY <2>1, <5>1, <5>2
      <4>3. QED
        BY <4>1, <4>2
    <3>3. QED
      BY <3>1, <3>2
  <2> HIDE DEF g
  <2>6. QED
    BY <2>2, <2>4, <2>5
<1>5. N \in G
  <2>1. \A n \in 0 .. N : n \in G /\ n < N => n + 1 \in G
    BY <1>4
  <2> HIDE DEF G
  <2>2. \A n \in 0 .. N : n \in G
    BY <1>1, <1>3, <2>1, UpTo
  <2>3. QED
    BY <1>1, <2>2
<1>6. PICK f \in [0 .. N -> Seq(T)] : Steps(f, N)
  BY <1>5
<1>7. f = Body(f)
  <2>1. f = [i \in 0 .. N |-> f[i]]
    OBVIOUS
  <2>2. \A i \in 0 .. N : i # 0 => i \in 1 .. N
    BY <1>1
  <2>3. \A i \in 0 .. N : f[i] = IF i = 0 THEN <<>>
                                 ELSE IF list[i] \in rows
                                 THEN Append(f[i - 1], list[i])
                                 ELSE f[i - 1]
    BY <1>6, <2>2 DEF Next1
  <2>4. QED
    BY <2>1, <2>3
<1>8. kept = Body(kept)
  BY <1>7
<1>9. Kept(list, rows) = kept[N]
  BY DEF Kept, N
<1> HIDE DEF kept
<1>10. Steps(kept, N)
  <2>1. 0 \in 0 .. N /\ \A i \in 1 .. N : i \in 0 .. N /\ i # 0
    BY <1>1
  <2>2. kept[0] = <<>>
    BY <1>8, <2>1
  <2>3. \A i \in 1 .. N : kept[i] = Next1(kept[i - 1], i)
    BY <1>8, <2>1 DEF Next1
  <2>4. QED
    BY <2>2, <2>3
<1> DEFINE Holds(n) ==
             /\ kept[n] \in Seq(T)
             /\ \A x : (\E k \in DOMAIN kept[n] : kept[n][k] = x)
                         <=> x \in rows /\ \E i \in 1 .. n : list[i] = x
             /\ OnceEach(list) => OnceEach(kept[n])
           H == {n \in 0 .. N : Holds(n)}
<1>11. 0 \in H
  <2>1. 0 \in 0 .. N /\ 1 .. 0 = {} /\ kept[0] = <<>>
    BY <1>1, <1>10
  <2>2. <<>> \in Seq(T) /\ DOMAIN <<>> = {}
    OBVIOUS
  <2>3. QED
    BY <2>1, <2>2 DEF OnceEach
<1>12. ASSUME NEW n \in 0 .. N, n \in H, n < N PROVE n + 1 \in H
  <2>1. n + 1 \in 0 .. N /\ n + 1 \in 1 .. N /\ (n + 1) - 1 = n /\ n \in Nat
    BY <1>1, <1>12
  <2>2. kept[n + 1] = Next1(kept[n], n + 1)
    BY <1>10, <2>1
  <2> DEFINE s == kept[n]
             t == kept[n + 1]
             e == list[n + 1]
  <2>3. /\ s \in Seq(T)
        /\ \A x : (\E k \in DOMAIN s : s[k] = x)
                    <=> x \in rows /\ \E i \in 1 .. n : list[i] = x
        /\ OnceEach(list) => OnceEach(s)
    BY <1>12
  <2>4. t = (IF e \in rows THEN Append(s, e) ELSE s) /\ e \in T
    BY <1>1, <2>1, <2>2 DEF Next1
  <2>5. \A i : i \in 1 .. n + 1 <=> i \in 1 .. n \/ i = n + 1
    BY <2>1
  <2> HIDE DEF s, t, e
  <2>6. t \in Seq(T)
    BY <2>3, <2>4
  <2>7. ASSUME NEW x
        PROVE (\E k \in DOMAIN t : t[k] = x)
                <=> x \in rows /\ \E i \in 1 .. n + 1 : list[i] = x
    <3>1. CASE e \in rows
      <4>1. /\ DOMAIN t = DOMAIN s \cup {Len(s) + 1} /\ t[Len(s) + 1] = e
            /\ \A k \in DOMAIN s : t[k] = s[k]
        BY <2>3, <2>4, <3>1
      <4>2. QED
        BY <2>3, <2>5, <3>1, <4>1 DEF e
    <3>2. CASE e \notin rows
      BY <2>3, <2>4, <2>5, <3>2 DEF e
    <3>3. QED
      BY <3>1, <3>2
  <2>8. ASSUME OnceEach(list) PROVE OnceEach(t)
    <3>1. CASE e \in rows
      <4>1. /\ DOMAIN t = DOMAIN s \cup {Len(s) + 1} /\ t[Len(s) + 1] = e
            /\ \A k \in DOMAIN s : t[k] = s[k]
        BY <2>3, <2>4, <3>1
      <4>2. ASSUME NEW k \in DOMAIN s PROVE s[k] # e
        <5>1. PICK m \in 1 .. n : list[m] = s[k]
          BY <2>3
        <5>2. m \in DOMAIN list /\ n + 1 \in DOMAIN list /\ m # n + 1
          BY <1>1, <2>1
        <5>3. QED
          BY <2>8, <5>1, <5>2 DEF OnceEach, e
      <4>3. QED
        BY <2>3, <2>8, <4>1, <4>2 DEF OnceEach
    <3>2. CASE e \notin rows
      BY <2>3, <2>4, <2>8, <3>2
    <3>3. QED
      BY <3>1, <3>2
  <2>9. QED
    BY <2>1, <2>6, <2>7, <2>8 DEF t
<1>13. N \in H
  <2>1. \A n \in 0 .. N : n \in H /\ n < N => n + 1 \in H
    BY <1>12
  <2> HIDE DEF H
  <2>2. \A n \in 0 .. N : n \in H
    BY <1>1, <1>11, <2>1, UpTo
  <2>3. QED
    BY <1>1, <2>2
<1>14. QED
  BY <1>1, <1>9, <1>13 DEF Picks

-----------------------------------------------------------------------------
(* What is on a list *)

\* A list without a card: its other rows stay.
LEMMA WithoutIs ==
  ASSUME NEW list \in Seq(CardRows), NEW c
  PROVE  /\ Without(list, c) \in Seq(CardRows) /\ DuesIn(Without(list, c), c) = {}
         /\ \A d : d # c => DuesIn(Without(list, c), d) = DuesIn(list, d)
<1> DEFINE rows == {row \in ToSet(list) : row.card # c}
           less == Kept(list, rows)
<1> HIDE DEF rows
<1>1. less \in Seq(CardRows) /\ Picks(less, list, rows)
  BY KeptIs
<1>2. \A x : x \in rows <=> x.card # c /\ \E i \in DOMAIN list : list[i] = x
  BY DEF ToSet, rows
<1> HIDE DEF less
<1>3. \A x : (\E k \in DOMAIN less : less[k] = x)
               <=> x.card # c /\ \E i \in DOMAIN list : list[i] = x
  BY <1>1, <1>2 DEF Picks
<1>4. DuesIn(less, c) = {} /\ \A d : d # c => DuesIn(less, d) = DuesIn(list, d)
  BY <1>3 DEF DuesIn
<1>5. QED
  BY <1>1, <1>4 DEF Without, less, rows

\* A row more at the end.
LEMMA AppendedIs ==
  ASSUME NEW list \in Seq(CardRows), NEW row \in CardRows
  PROVE  /\ Append(list, row) \in Seq(CardRows)
         /\ DuesIn(Append(list, row), row.card) = DuesIn(list, row.card) \cup {row.due}
         /\ \A d : d # row.card => DuesIn(Append(list, row), d) = DuesIn(list, d)
<1> DEFINE more == Append(list, row)
<1>1. /\ more \in Seq(CardRows) /\ DOMAIN more = DOMAIN list \cup {Len(list) + 1}
      /\ more[Len(list) + 1] = row /\ \A k \in DOMAIN list : more[k] = list[k]
  OBVIOUS
<1> HIDE DEF more
<1>2. \A d : DuesIn(more, d) = DuesIn(list, d) \cup (IF d = row.card THEN {row.due} ELSE {})
  BY <1>1 DEF DuesIn
<1>3. QED
  BY <1>1, <1>2 DEF more

\* The first GET is shown as it is: nothing is pending by then.
LEMMA UnfilteredIs ==
  ASSUME NEW list \in Seq(CardRows), pending = {}
  PROVE  /\ filterPending(list) \in Seq(CardRows)
         /\ \A c : DuesIn(filterPending(list), c) = DuesIn(list, c)
<1> DEFINE rows == {row \in ToSet(list) : ~IsPending(row.card)}
           shown == Kept(list, rows)
<1> HIDE DEF rows
<1>1. shown \in Seq(CardRows) /\ Picks(shown, list, rows)
  BY KeptIs
<1>2. \A x : x \in rows <=> \E i \in DOMAIN list : list[i] = x
  BY DEF ToSet, IsPending, rows
<1> HIDE DEF shown
<1>3. \A x : (\E k \in DOMAIN shown : shown[k] = x) <=> \E i \in DOMAIN list : list[i] = x
  BY <1>1, <1>2 DEF Picks
<1>4. ASSUME NEW c PROVE DuesIn(shown, c) = DuesIn(list, c)
  <2>1. \A d : d \in DuesIn(shown, c)
                 <=> \E x : x.card = c /\ x.due = d /\ \E k \in DOMAIN shown : shown[k] = x
    BY DEF DuesIn
  <2>2. \A d : d \in DuesIn(list, c)
                 <=> \E x : x.card = c /\ x.due = d /\ \E k \in DOMAIN list : list[k] = x
    BY DEF DuesIn
  <2>3. QED
    BY <1>3, <2>1, <2>2
<1>5. QED
  BY <1>1, <1>4 DEF filterPending, shown, rows

\* What a GET answers is right.
LEMMA InboxIs ==
  ASSUME db \in [Cards -> DbRows]
  PROVE  /\ Inbox \in Datas
         /\ \A c \in Cards : Inbox.known[c] = db[c].ver
         /\ \A c \in Cards : DuesIn(Inbox.list, c) = Stored(c)
<1> DEFINE every == [c \in Cards |-> c]
           mine == {c \in Cards : InInbox(c)}
           ids == Kept(every, mine)
           list == [i \in DOMAIN ids |->
                      [card |-> ids[i], due |-> db[ids[i]].due, done |-> db[ids[i]].sub]]
           seen == [c \in Cards |-> db[c].ver]
<1>1. every \in Seq(Cards) /\ DOMAIN every = Cards
  BY MyWorkAssumption DEF Cards
<1>2. ids \in Seq(Cards) /\ Picks(ids, every, mine)
  <2> HIDE DEF every, mine
  <2>1. QED
    BY <1>1, KeptIs
<1>3. \A x : (\E k \in DOMAIN ids : ids[k] = x) <=> x \in mine
  BY <1>1, <1>2 DEF Picks
<1>4. Inbox = [list |-> list, known |-> seen]
  BY DEF Inbox
<1>5. seen \in Versions
  BY DEF Versions, DbRows
<1> HIDE DEF ids, every
<1>6. list \in Seq(CardRows)
  <2>1. \A i \in DOMAIN ids : ids[i] \in Cards
    BY <1>2
  <2>2. \A i \in DOMAIN ids : [card |-> ids[i], due |-> db[ids[i]].due, done |-> db[ids[i]].sub] \in CardRows
    BY <2>1 DEF CardRows, DbRows
  <2>3. DOMAIN ids = 1 .. Len(ids) /\ Len(ids) \in Nat
    BY <1>2
  <2>4. QED
    BY <2>2, <2>3
<1>7. ASSUME NEW c \in Cards PROVE DuesIn(list, c) = Stored(c)
  <2>1. \A d : d \in DuesIn(list, c) <=> \E i \in DOMAIN ids : ids[i] = c /\ d = db[c].due
    BY DEF DuesIn
  <2>2. (\E i \in DOMAIN ids : ids[i] = c) <=> InInbox(c)
    BY <1>3
  <2> HIDE DEF list, mine
  <2>3. QED
    BY <2>1, <2>2 DEF Stored
<1>8. QED
  BY <1>4, <1>5, <1>6, <1>7 DEF Datas

\* The row that is found for a card.
LEMMA ListedIs ==
  ASSUME page.list \in Seq(CardRows), NEW c
  PROVE  /\ Lists(c) <=> DuesIn(page.list, c) # {}
         /\ Lists(c) => /\ Listed(c) \in CardRows /\ Listed(c).card = c
                        /\ Listed(c).due \in DuesIn(page.list, c)
<1>1. Rows(c) \in SUBSET Nat
  BY DEF Rows
<1>2. Lists(c) => Min(Rows(c)) \in Rows(c)
  BY <1>1, MinIsIn DEF Lists
<1>3. Lists(c) <=> DuesIn(page.list, c) # {}
  BY DEF Lists, DuesIn, Rows
<1>4. ASSUME NEW i \in Rows(c)
      PROVE page.list[i] \in CardRows /\ page.list[i].card = c
            /\ page.list[i].due \in DuesIn(page.list, c)
  BY <1>4 DEF Rows, DuesIn
<1>5. QED
  BY <1>2, <1>3, <1>4 DEF Listed

-----------------------------------------------------------------------------
(* The requests on their way *)

\* One more.
LEMMA SentIs ==
  ASSUME ReqTypes, NEW q \in Requests, Whole(q), reqs' = Append(reqs, q)
  PROVE  /\ ReqTypes'
         /\ Members' = Members \cup {q}
         /\ \E new : /\ DOMAIN reqs' = DOMAIN reqs \cup {new} /\ new \notin DOMAIN reqs
                     /\ reqs'[new] = q /\ \A k \in DOMAIN reqs : reqs'[k] = reqs[k]
<1>1. /\ reqs' \in Seq(Requests) /\ DOMAIN reqs' = DOMAIN reqs \cup {Len(reqs) + 1}
      /\ Len(reqs) + 1 \notin DOMAIN reqs
      /\ reqs'[Len(reqs) + 1] = q /\ \A k \in DOMAIN reqs : reqs'[k] = reqs[k]
  BY DEF ReqTypes
<1>2. \A k \in DOMAIN reqs' : Whole(reqs'[k])
  BY <1>1 DEF ReqTypes
<1>3. Members' = Members \cup {q}
  BY <1>1 DEF Members, ToSet
<1>4. QED
  BY <1>1, <1>2, <1>3 DEF ReqTypes, Whole

\* One changed.
LEMMA ChangedIs ==
  ASSUME ReqTypes, NEW i \in DOMAIN reqs, NEW q \in Requests, Whole(q),
         reqs' = [reqs EXCEPT ![i] = q]
  PROVE  /\ ReqTypes' /\ Members' = Others(i) \cup {q}
         /\ DOMAIN reqs' = DOMAIN reqs /\ reqs'[i] = q
         /\ \A k \in DOMAIN reqs : k # i => reqs'[k] = reqs[k]
<1>1. /\ reqs' \in Seq(Requests) /\ DOMAIN reqs' = DOMAIN reqs /\ reqs'[i] = q
      /\ \A k \in DOMAIN reqs : k # i => reqs'[k] = reqs[k]
  BY DEF ReqTypes
<1>2. \A k \in DOMAIN reqs' : Whole(reqs'[k])
  BY <1>1 DEF ReqTypes
<1>3. Members' = Others(i) \cup {q}
  BY <1>1 DEF Members, Others, ToSet
<1>4. QED
  BY <1>1, <1>2, <1>3 DEF ReqTypes, Whole

\* One less: the others move up.
Place(i, k) == IF k < i THEN k ELSE k + 1
\* A request taken out of the queue leaves the others, in their order.
LEMMA AwayIs ==
  ASSUME ReqTypes, NEW i \in DOMAIN reqs, reqs' = Away(i)
  PROVE  /\ ReqTypes' /\ Members' = Others(i)
         /\ \A k \in DOMAIN reqs' : /\ Place(i, k) \in DOMAIN reqs /\ Place(i, k) # i
                                    /\ reqs'[k] = reqs[Place(i, k)]
         /\ \A j, k \in DOMAIN reqs' : Place(i, j) = Place(i, k) => j = k
         /\ \A m \in DOMAIN reqs \ {i} : \E k \in DOMAIN reqs' : Place(i, k) = m
<1> DEFINE n == Len(reqs)
<1>1. n \in Nat /\ DOMAIN reqs = 1 .. n /\ i \in 1 .. n
  BY DEF ReqTypes
<1> HIDE DEF n
<1> DEFINE a == SubSeq(reqs, 1, i - 1)
           b == SubSeq(reqs, i + 1, n)
<1>2. /\ reqs' \in Seq(Requests) /\ Len(reqs') = n - 1 /\ DOMAIN reqs' = 1 .. n - 1
      /\ \A k \in 1 .. n - 1 : reqs'[k] = reqs[Place(i, k)]
  <2>1. reqs \in Seq(Requests) /\ n = Len(reqs)
    BY DEF ReqTypes, n
  <2>2. a \in Seq(Requests) /\ Len(a) = i - 1 /\ \A k \in 1 .. i - 1 : a[k] = reqs[k]
    BY <1>1, <2>1
  <2>3. /\ b \in Seq(Requests) /\ Len(b) = n - i
        /\ \A k \in 1 .. n - i : b[k] = reqs[(i + 1) + k - 1]
    BY <1>1, <2>1
  <2>4. reqs' = a \o b
    BY <2>1 DEF Away, RemoveAt
  <2> HIDE DEF a, b
  <2>5. reqs' \in Seq(Requests) /\ Len(reqs') = n - 1 /\ DOMAIN reqs' = 1 .. n - 1
    <3>1. a \o b \in Seq(Requests) /\ Len(a \o b) = Len(a) + Len(b)
      BY <2>2, <2>3
    <3>2. (i - 1) + (n - i) = n - 1 /\ n - 1 \in Nat
      BY <1>1
    <3>3. Len(reqs') = n - 1 /\ reqs' \in Seq(Requests)
      BY <2>2, <2>3, <2>4, <3>1, <3>2
    <3>4. QED
      BY <3>2, <3>3
  <2>6. ASSUME NEW k \in 1 .. n - 1 PROVE reqs'[k] = reqs[Place(i, k)]
    <3>1. CASE k < i
      <4>1. k \in 1 .. i - 1 /\ k <= Len(a)
        BY <1>1, <2>2, <3>1
      <4>2. (a \o b)[k] = a[k]
        BY <1>1, <2>2, <2>3, <4>1
      <4>3. QED
        BY <2>2, <2>4, <3>1, <4>1, <4>2 DEF Place
    <3>2. CASE ~(k < i)
      <4>1. k - (i - 1) \in 1 .. n - i /\ ~(k <= Len(a))
            /\ (i + 1) + (k - (i - 1)) - 1 = k + 1
        BY <1>1, <2>2, <3>2
      <4>2. (a \o b)[k] = b[k - (i - 1)]
        <5>1. k \in 1 .. Len(a) + Len(b) /\ Len(a) = i - 1
          BY <1>1, <2>2, <2>3
        <5>2. (a \o b)[k] = b[k - Len(a)]
          BY <2>2, <2>3, <4>1, <5>1
        <5>3. QED
          BY <5>1, <5>2
      <4>3. QED
        BY <2>3, <2>4, <3>2, <4>1, <4>2 DEF Place
    <3>3. QED
      BY <3>1, <3>2
  <2>7. QED
    BY <2>5, <2>6
<1>3. \A k \in 1 .. n - 1 : Place(i, k) \in 1 .. n /\ Place(i, k) # i
  BY <1>1 DEF Place
<1>4. \A j, k \in 1 .. n - 1 : Place(i, j) = Place(i, k) => j = k
  BY <1>1 DEF Place
<1>5. ASSUME NEW m \in 1 .. n, m # i PROVE \E k \in 1 .. n - 1 : Place(i, k) = m
  <2>1. CASE m < i
    BY <1>1, <2>1 DEF Place
  <2>2. CASE ~(m < i)
    <3>1. m - 1 \in 1 .. n - 1 /\ ~(m - 1 < i) /\ (m - 1) + 1 = m
      BY <1>1, <1>5, <2>2
    <3>2. QED
      BY <3>1 DEF Place
  <2>3. QED
    BY <2>1, <2>2
<1>6. \A k \in DOMAIN reqs' : Whole(reqs'[k])
  BY <1>1, <1>2, <1>3 DEF ReqTypes
<1>7. Members' = Others(i)
  <2>1. \A x : x \in Others(i) <=> \E m \in 1 .. n : m # i /\ reqs[m] = x
    BY <1>1 DEF Others
  <2>2. \A x : x \in Members' <=> \E k \in 1 .. n - 1 : reqs[Place(i, k)] = x
    BY <1>2 DEF Members, ToSet
  <2>3. QED
    BY <1>3, <1>5, <2>1, <2>2
<1>8. QED
  BY <1>1, <1>2, <1>3, <1>4, <1>5, <1>6, <1>7 DEF ReqTypes, Whole

\* The request at a place and the others.
LEMMA MembersAre ==
  ASSUME ReqTypes, NEW i \in DOMAIN reqs
  PROVE  /\ Members = Others(i) \cup {reqs[i]} /\ Members \in SUBSET Requests
         /\ \A r \in Members : Whole(r)
BY DEF ReqTypes, Members, Others, ToSet

-----------------------------------------------------------------------------
(* What lasts through a step *)

\* Which requests are out is a matter of the members.
LEMMA OutIs ==
  ASSUME ReqTypes, NEW kinds
  PROVE  InFlight(kinds) <=> Out(kinds)
BY DEF ReqTypes, InFlight, Out, Members, ToSet

\* New versions: a card whose version is the same is the same.
Later ==
  \A c \in Cards :
    /\ db[c].ver <= db'[c].ver /\ db[c].ver \in Nat /\ db'[c].ver \in Nat
    /\ db'[c].ver = db[c].ver => Stored(c)' = Stored(c) /\ db'[c].done = db[c].done

\* The boxes are as they were.
SameBoxes == \A c \in Cards : db'[c].sub = db[c].sub /\ db'[c].subver = db[c].subver

\* A database that stays shows nothing new.
LEMMA SameDb ==
  ASSUME db \in [Cards -> DbRows], db' = db, all' = all PROVE Later /\ SameBoxes
BY DEF Later, SameBoxes, Stored, InInbox, DbRows

\* The page goes on, or is left.
GoesOn == page'.mount = page.mount /\ page'.phase \in {page.phase, "left"}
ViewGoesOn == view' = view \/ view'.id = Closed

\* A page that goes on makes no two requests rivals.
LEMMA RivalsLast ==
  ASSUME GoesOn, ViewGoesOn, mixed => mixed', mixed' \in BOOLEAN, mixed \in BOOLEAN
  PROVE  \A a, b : Rivals(a, b)' => Rivals(a, b)
BY DEF GoesOn, ViewGoesOn, Rivals, PageRivals, ViewRivals, OfThisPage, Viewed

\* What holds of when a request was sent, and of what it read, lasts.
LEMMA KnownLasts ==
  ASSUME Later, GoesOn, inputs \in Nat, inputs' \in Nat, inputs <= inputs', page.mount \in Nat,
         NEW r \in Requests, Known(r)
  PROVE  Known(r)'
<1>1. \A c \in Cards : r.prev.known[c] \in Nat /\ r.reply.known[c] \in Nat
  BY DEF Requests, Datas, Versions
<1>2. r.mount \in Nat /\ r.view \in Nat
  BY DEF Requests
<1>3. r.mount <= page'.mount /\ r.view <= inputs'
  BY <1>2 DEF Known, GoesOn
<1>4. OfThisPage(r)' => page'.phase = IF r.kind = "load" THEN "loading" ELSE "ready"
  BY DEF Known, GoesOn, OfThisPage
<1>5. /\ \A c \in Cards : r.prev.known[c] <= db'[c].ver
      /\ r.kind # "detail" => \A c \in Cards : r.reply.known[c] <= db'[c].ver
  BY <1>1 DEF Known, Later
<1>6. ASSUME r.kind \in Reads, r.stage = "ok", NEW c \in Cards
      PROVE  Right(r.reply.list, r.reply.known, c)'
  <2>1. Right(r.reply.list, r.reply.known, c) /\ r.reply.known[c] <= db[c].ver
    BY <1>6 DEF Known, Reads
  <2>2. QED
    BY <1>1, <2>1 DEF Right, Later
<1>7. QED
  BY <1>3, <1>4, <1>5, <1>6 DEF Known

\* What else a request that is at work needs of a step.
Spares(r) ==
  ~mixed' =>
    /\ ~mixed
    /\ OfThisPage(r) =>
         /\ r.kind \in SnoozeKinds => pending' = {}
         /\ r.kind = "complete" => ~IsPending(r.card)' /\ Hidden(r.card)'
                                   /\ known'[r.card] = known[r.card]

\* What a request means for the page at rest lasts while the page spares it.
LEMMA WorkingLasts ==
  ASSUME Later, GoesOn, mixed' \in BOOLEAN, mixed \in BOOLEAN, known \in Versions,
         \A c \in Cards : known[c] <= db[c].ver,
         NEW r \in Requests, Whole(r), Known(r), Working(r), Spares(r)
  PROVE  Working(r)'
<1> SUFFICES ASSUME Settled', OfThisPage(r)'
             PROVE /\ r.kind \in SnoozeKinds => pending' = {}
                   /\ r.kind \in Snoozes => \A c \in Cards : Right(r.prev.list, r.prev.known, c)'
                   /\ r.kind = "complete" => ~IsPending(r.card)' /\ Hidden(r.card)'
                                             /\ Completed(r)'
  BY DEF Working
<1>1. Settled /\ OfThisPage(r)
  BY DEF Settled, GoesOn, OfThisPage, Spares
<1>2. \A c \in Cards : r.prev.known[c] \in Nat /\ r.reply.known[c] \in Nat
  BY DEF Requests, Datas, Versions
<1>3. \A c \in Cards : known[c] \in Nat
  BY DEF Versions
<1>4. r.kind \in SnoozeKinds => pending' = {}
  BY <1>1 DEF Spares, Settled
<1>5. ASSUME r.kind \in Snoozes, NEW c \in Cards PROVE Right(r.prev.list, r.prev.known, c)'
  <2>1. Right(r.prev.list, r.prev.known, c) /\ r.prev.known[c] <= db[c].ver
    BY <1>1, <1>5 DEF Working, Known
  <2>2. QED
    BY <1>2, <2>1 DEF Right, Later
<1>6. ASSUME r.kind = "complete"
      PROVE  ~IsPending(r.card)' /\ Hidden(r.card)' /\ Completed(r)'
  <2>1. /\ ~IsPending(r.card)' /\ Hidden(r.card)' /\ known'[r.card] = known[r.card]
    BY <1>1, <1>6 DEF Spares, Settled
  <2>2. r.card \in Cards /\ r.row.card = r.card /\ Completed(r)
        /\ r.reply.known[r.card] <= db[r.card].ver
    BY <1>1, <1>6 DEF Working, Whole, Known
  <2>3. Completed(r)'
    <3>1. CASE r.stage = "ok"
      BY <1>2, <1>3, <2>1, <2>2, <3>1 DEF Completed, Later
    <3>2. CASE r.stage # "ok"
      BY <1>3, <2>1, <2>2, <3>2 DEF Completed, Later, Listable
    <3>3. QED
      BY <3>1, <3>2
  <2>4. QED
    BY <2>1, <2>3
<1>7. QED
  BY <1>4, <1>5, <1>6

\* What a request means for the boxes of the quick view lasts with the view.
LEMMA BoxedLasts ==
  ASSUME SameBoxes, ViewGoesOn, NEW r \in Requests, Whole(r), Boxed(r)
  PROVE  Boxed(r)'
<1>1. CASE r.kind \in ViewKinds
  <2>1. r.card \in Cards
    BY <1>1 DEF Whole, ViewKinds
  <2>2. db'[r.card].sub = db[r.card].sub /\ db'[r.card].subver = db[r.card].subver
    BY <2>1 DEF SameBoxes
  <2>3. QED
    BY <2>2 DEF Boxed, Viewed, Toggled, ViewGoesOn
<1>2. CASE r.kind \notin ViewKinds
  BY <1>2 DEF Boxed, Viewed, Whole, ViewGoesOn, ViewKinds
<1>3. QED
  BY <1>1, <1>2

\* What holds of the quick view lasts while the boxes and its requests do.
LEMMA ViewLasts ==
  ASSUME SameBoxes, ViewGoesOn, view \in Views, view' \in Views,
         view.id # Closed => view.row \in CardRows,
         inputs \in Nat, inputs' \in Nat, inputs <= inputs',
         \A r \in Members : Viewed(r) => r \in Members', ViewState
  PROVE  ViewState'
<1>1. CASE view'.id = Closed
  BY <1>1 DEF ViewState, Closed
<1>2. CASE view'.id # Closed
  <2>1. view' = view /\ view.row.card \in Cards
    BY <1>2 DEF ViewGoesOn, CardRows
  <2>2. /\ db'[view.row.card].sub = db[view.row.card].sub
        /\ db'[view.row.card].subver = db[view.row.card].subver
    BY <2>1 DEF SameBoxes
  <2>3. view.id <= inputs'
    BY DEF ViewState, Views
  <2>4. \A r : Viewed(r)' <=> Viewed(r)
    BY <2>1 DEF Viewed
  <2>5. (\E r \in Members : Viewed(r)) => \E r \in Members' : Viewed(r)'
    BY <2>4
  <2>6. QED
    BY <2>1, <2>2, <2>3, <2>5 DEF ViewState
<1>3. QED
  BY <1>1, <1>2

\* Requests stay apart when one is sent, changed or answered.
LEMMA ApartSent ==
  ASSUME ReqTypes, Apart, NEW q \in Requests, Whole(q), reqs' = Append(reqs, q),
         \A a, b \in Members : Rivals(a, b)' => Rivals(a, b),
         \A a \in Members : ~Rivals(a, q)' /\ ~Rivals(q, a)'
  PROVE  Apart'
<1>1. PICK new : /\ DOMAIN reqs' = DOMAIN reqs \cup {new} /\ new \notin DOMAIN reqs
                 /\ reqs'[new] = q /\ \A k \in DOMAIN reqs : reqs'[k] = reqs[k]
  BY SentIs
<1>2. \A k \in DOMAIN reqs : reqs[k] \in Members
  BY DEF Members, ToSet
<1> SUFFICES ASSUME NEW j \in DOMAIN reqs', NEW k \in DOMAIN reqs', j # k,
                    Rivals(reqs[j], reqs[k])'
             PROVE  FALSE
  BY DEF Apart
<1>3. PICK a, b : a = reqs'[j] /\ b = reqs'[k]
  OBVIOUS
<1>4. Rivals(a, b)'
  BY <1>3 DEF Rivals, PageRivals, ViewRivals, OfThisPage, Viewed
<1>5. CASE j \in DOMAIN reqs /\ k \in DOMAIN reqs
  BY <1>1, <1>2, <1>3, <1>4, <1>5 DEF Apart
<1>6. CASE j = new
  BY <1>1, <1>2, <1>3, <1>4, <1>6
<1>7. CASE k = new
  BY <1>1, <1>2, <1>3, <1>4, <1>7
<1>8. QED
  BY <1>1, <1>5, <1>6, <1>7

\* A request that is replaced by one that rivals none leaves the queue without rivals.
LEMMA ApartChanged ==
  ASSUME ReqTypes, Apart, NEW i \in DOMAIN reqs, NEW q \in Requests, Whole(q),
         reqs' = [reqs EXCEPT ![i] = q],
         \A a, b \in Members : Rivals(a, b)' => Rivals(a, b),
         \A a \in Others(i) : ~Rivals(a, q)' /\ ~Rivals(q, a)'
  PROVE  Apart'
<1>1. /\ DOMAIN reqs' = DOMAIN reqs /\ reqs'[i] = q
      /\ \A k \in DOMAIN reqs : k # i => reqs'[k] = reqs[k]
  BY ChangedIs
<1>2. \A k \in DOMAIN reqs : reqs[k] \in Members /\ (k # i => reqs[k] \in Others(i))
  BY DEF Members, ToSet, Others
<1> SUFFICES ASSUME NEW j \in DOMAIN reqs', NEW k \in DOMAIN reqs', j # k,
                    Rivals(reqs[j], reqs[k])'
             PROVE  FALSE
  BY DEF Apart
<1>3. PICK a, b : a = reqs'[j] /\ b = reqs'[k]
  OBVIOUS
<1>4. Rivals(a, b)'
  BY <1>3 DEF Rivals, PageRivals, ViewRivals, OfThisPage, Viewed
<1>5. CASE j # i /\ k # i
  BY <1>1, <1>2, <1>3, <1>4, <1>5 DEF Apart
<1>6. CASE j = i
  BY <1>1, <1>2, <1>3, <1>4, <1>6
<1>7. CASE k = i
  BY <1>1, <1>2, <1>3, <1>4, <1>7
<1>8. QED
  BY <1>5, <1>6, <1>7

\* So does one that is taken out.
LEMMA ApartAway ==
  ASSUME ReqTypes, Apart, NEW i \in DOMAIN reqs, reqs' = Away(i),
         \A a, b \in Others(i) : Rivals(a, b)' => Rivals(a, b)
  PROVE  Apart'
<1>1. /\ \A k \in DOMAIN reqs' : /\ Place(i, k) \in DOMAIN reqs /\ Place(i, k) # i
                                 /\ reqs'[k] = reqs[Place(i, k)]
      /\ \A j, k \in DOMAIN reqs' : Place(i, j) = Place(i, k) => j = k
  BY AwayIs
<1>2. \A k \in DOMAIN reqs : k # i => reqs[k] \in Others(i)
  BY DEF Others
<1> SUFFICES ASSUME NEW j \in DOMAIN reqs', NEW k \in DOMAIN reqs', j # k,
                    Rivals(reqs[j], reqs[k])'
             PROVE  FALSE
  BY DEF Apart
<1>3. PICK a, b : a = reqs'[j] /\ b = reqs'[k]
  OBVIOUS
<1>4. Rivals(a, b)'
  BY <1>3 DEF Rivals, PageRivals, ViewRivals, OfThisPage, Viewed
<1>5. PICK m, n : m = Place(i, j) /\ n = Place(i, k)
  OBVIOUS
<1>6. m \in DOMAIN reqs /\ n \in DOMAIN reqs /\ m # n /\ a = reqs[m] /\ b = reqs[n]
      /\ a \in Others(i) /\ b \in Others(i)
  BY <1>1, <1>2, <1>3, <1>5
<1>7. QED
  BY <1>4, <1>6 DEF Apart

\* The others are no rivals of a request.
LEMMA OthersAre ==
  ASSUME ReqTypes, Apart, NEW i \in DOMAIN reqs
  PROVE  \A a \in Others(i) : ~Rivals(a, reqs[i]) /\ ~Rivals(reqs[i], a)
BY DEF Apart, Others, ReqTypes

-----------------------------------------------------------------------------
(* Completing, undoing, and what others do: no request is sent *)

\* Requests that stay as they are, by a step that leaves the boxes alone.
LEMMA SameRequests ==
  ASSUME Typing, Inv, Later, SameBoxes, GoesOn, ViewGoesOn, inputs' \in Nat, inputs <= inputs',
         mixed' \in BOOLEAN, mixed => mixed', view' \in Views, reqs' = reqs,
         \A r \in Members : Spares(r)
  PROVE  /\ ReqTypes' /\ Members' = Members /\ ViewState' /\ Apart'
         /\ \A r \in Members' : Known(r)' /\ Working(r)' /\ Boxed(r)'
<1>1. ReqTypes' /\ Members' = Members
  BY DEF Typing, ReqTypes, Members, Whole
<1>2. \A r \in Members : r \in Requests /\ Whole(r)
  BY DEF Typing, ReqTypes, Members, ToSet
<1>3. ASSUME NEW r \in Members PROVE Known(r)' /\ Working(r)' /\ Boxed(r)'
  <2>1. Known(r)'
    BY <1>2, KnownLasts DEF Typing, PageTypes, Inv
  <2>2. Working(r)'
    BY <1>2, WorkingLasts DEF Typing, Inv, PageState
  <2>3. Boxed(r)'
    BY <1>2, BoxedLasts DEF Inv
  <2>4. QED
    BY <2>1, <2>2, <2>3
<1>4. ViewState'
  BY <1>1, ViewLasts DEF Typing, Inv
<1>5. Apart'
  <2>1. \A a, b : Rivals(a, b)' => Rivals(a, b)
    BY RivalsLast DEF Typing
  <2> SUFFICES ASSUME NEW j \in DOMAIN reqs', NEW k \in DOMAIN reqs', j # k,
                      Rivals(reqs[j], reqs[k])'
               PROVE  FALSE
    BY DEF Apart
  <2>2. PICK a, b : a = reqs'[j] /\ b = reqs'[k]
    OBVIOUS
  <2>3. Rivals(a, b)'
    BY <2>2 DEF Rivals, PageRivals, ViewRivals, OfThisPage, Viewed
  <2>4. QED
    BY <2>1, <2>2, <2>3 DEF Inv, Apart
<1>6. QED
  BY <1>1, <1>3, <1>4, <1>5

\* A row that was written has a new version; the subtask's is of its own.
LEMMA WroteIs ==
  ASSUME db \in [Cards -> DbRows], NEW c \in Cards, NEW row \in DbRows, db' = Wrote(c, row),
         row.ver = db[c].ver, row.sub = db[c].sub, row.subver = db[c].subver, all' = all
  PROVE  /\ db' \in [Cards -> DbRows] /\ Later /\ SameBoxes
         /\ db'[c] = [row EXCEPT !.ver = @ + 1]
         /\ \A d \in Cards : d # c => db'[d] = db[d]
<1>1. /\ db' \in [Cards -> DbRows] /\ db'[c] = [row EXCEPT !.ver = @ + 1]
      /\ \A d \in Cards : d # c => db'[d] = db[d]
  BY DEF Wrote, DbRows
<1>2. /\ db'[c].ver = db[c].ver + 1 /\ db'[c].sub = db[c].sub
      /\ db'[c].subver = db[c].subver
  BY <1>1 DEF DbRows
<1>3. Later
  <2>1. \A d \in Cards : db[d].ver \in Nat /\ db'[d].ver \in Nat
    BY <1>1 DEF DbRows
  <2>2. \A d \in Cards : d # c => Stored(d)' = Stored(d)
    BY <1>1 DEF Stored, InInbox
  <2>3. \A d \in Cards : d = c => db[d].ver <= db'[d].ver /\ db'[d].ver # db[d].ver
    BY <1>2, <2>1
  <2>4. \A d \in Cards : d # c => db'[d].ver = db[d].ver /\ db'[d].done = db[d].done
    BY <1>1
  <2>5. \A d \in Cards : db[d].ver <= db'[d].ver
    BY <2>1, <2>3, <2>4
  <2>6. \A d \in Cards : db'[d].ver = db[d].ver => Stored(d)' = Stored(d) /\ db'[d].done = db[d].done
    BY <2>2, <2>3, <2>4
  <2>7. QED
    BY <2>1, <2>5, <2>6 DEF Later
<1>4. SameBoxes
  BY <1>1, <1>2 DEF SameBoxes
<1>5. QED
  BY <1>1, <1>3, <1>4

\* A view that is closed, or not.
LEMMA ViewClosedIs ==
  ASSUME view \in Views, view' = view \/ view' = [view EXCEPT !.id = Closed]
  PROVE  view' \in Views /\ ViewGoesOn /\ (view' = view \/ view'.id = Closed)
BY DEF Views, ViewGoesOn, Closed

\* A page that stays as it is.
LEMMA PageStateLasts ==
  ASSUME Typing, PageState, Later, inputs' \in Nat, inputs <= inputs', page' = page,
         known' = known, pending' \subseteq pending, toasts' \subseteq toasts,
         mixed' \in BOOLEAN, mixed => mixed', page.phase = "ready" \/ ViewGoesOn
  PROVE  PageState'
<1>1. page'.mount <= inputs' /\ \A t \in toasts' : t.mount <= page'.mount
  BY DEF PageState, Typing, PageTypes
<1>2. page'.phase # "ready" => pending' = {} /\ view'.id = Closed
  BY DEF PageState, ViewGoesOn
<1>3. page'.phase \in {"loading", "failed"} => \A t \in toasts' : t.mount # page'.mount
  BY DEF PageState
<1>4. \A c \in Cards : known[c] \in Nat
  BY DEF Typing, Versions
<1>5. \A c \in Cards : known'[c] <= db'[c].ver
  BY <1>4 DEF PageState, Later
<1>6. ASSUME Settled', NEW p \in pending' PROVE Hidden(p.card)' /\ Listable(p)'
  <2>1. Hidden(p.card) /\ Listable(p) /\ p.card \in Cards
    BY <1>6 DEF PageState, Settled, Typing, PendingTypes, CardRows
  <2>2. QED
    BY <1>4, <2>1 DEF Hidden, Listable, Later, PageState
<1>7. QED
  BY <1>1, <1>2, <1>3, <1>5, <1>6 DEF PageState

\* What the page lists stays right while it and its requests stay.
LEMMA ListingLasts ==
  ASSUME Typing, PageState, Listing, Later, page' = page, known' = known,
         mixed' \in BOOLEAN, mixed => mixed', pending \subseteq pending',
         Members \subseteq Members'
  PROVE  Listing'
<1> SUFFICES ASSUME Settled', NEW c \in Cards
             PROVE  Out(Snoozes)' \/ IsPending(c)' \/ Finishing(c)' \/ Right(page.list, known, c)'
  BY DEF Listing
<1>1. Out(Snoozes) \/ IsPending(c) \/ Finishing(c) \/ Right(page.list, known, c)
  BY DEF Listing, Settled, Typing
<1>2. /\ Out(Snoozes) => Out(Snoozes)'
      /\ Finishing(c) => Finishing(c)'
  BY DEF Out, Finishing, OfThisPage
<1>3. IsPending(c) => IsPending(c)'
  BY DEF IsPending
<1>4. Right(page.list, known, c) => Right(page.list, known, c)'
  <2>1. known[c] \in Nat /\ known[c] <= db[c].ver
    BY DEF Typing, Versions, PageState
  <2>2. QED
    BY <2>1 DEF Right, Later
<1>5. QED
  BY <1>1, <1>2, <1>3, <1>4

\* A row ticked off leaves the list and is pending.
LEMMA handleCompleteKeeps ==
  ASSUME Typing, Inv, NEW c \in Cards, handleComplete(c), page.phase = "ready",
         inputs' = inputs + 1, UNCHANGED <<db, all, reqs, toasts, known>>,
         view' = view \/ view' = [view EXCEPT !.id = Closed]
  PROVE  Typing' /\ Inv'
<1>1. /\ Later /\ SameBoxes /\ view' \in Views /\ ViewGoesOn
      /\ inputs' \in Nat /\ inputs <= inputs'
  BY SameDb, ViewClosedIs DEF Typing
<1>2. view'.id # Closed => view'.row \in CardRows
  BY <1>1 DEF Typing, ViewGoesOn
<1>3. CASE IsPending(c) \/ ~Lists(c)
  <2>1. UNCHANGED <<page, pending, owed, mixed>>
    BY <1>3 DEF handleComplete
  <2>2. ASSUME NEW r \in Members PROVE Spares(r)
    BY <2>1 DEF Spares, Inv, Working, Settled, OfThisPage, Typing, IsPending, Hidden, PageState, Known
  <2>3. /\ ReqTypes' /\ Members' = Members /\ ViewState' /\ Apart'
        /\ \A r \in Members' : Known(r)' /\ Working(r)' /\ Boxed(r)'
    BY <1>1, <2>1, <2>2, SameRequests DEF Typing, GoesOn
  <2>4. PageState'
    BY <1>1, <2>1, PageStateLasts DEF Inv, Typing
  <2>5. Listing'
    BY <1>1, <2>1, <2>3, ListingLasts DEF Inv, Typing
  <2>6. QED
    BY <1>1, <1>2, <2>1, <2>3, <2>4, <2>5 DEF Inv, Typing, PageTypes, PendingTypes
<1>4. CASE ~IsPending(c) /\ Lists(c)
  <2>1. PICK row : row = Listed(c)
    OBVIOUS
  <2>2. row \in CardRows /\ row.card = c /\ row.due \in DuesIn(page.list, c)
    BY <1>4, <2>1, ListedIs DEF Typing, PageTypes
  <2>3. /\ DOMAIN page' = DOMAIN page /\ page'.list = Without(page.list, c)
        /\ page'.phase = page.phase /\ page'.mount = page.mount
        /\ pending' = pending \cup {row}
        /\ owed' = [owed EXCEPT ![c] = @ + 1] /\ mixed' = (mixed \/ Snoozing)
    BY <1>4, <2>1 DEF handleComplete, Typing, PageTypes
  <2>4. /\ page'.list \in Seq(CardRows) /\ DuesIn(page'.list, c) = {}
        /\ \A d : d # c => DuesIn(page'.list, d) = DuesIn(page.list, d)
    BY <2>3, WithoutIs DEF Typing, PageTypes
  <2>5. mixed' \in BOOLEAN /\ (mixed => mixed') /\ GoesOn
    BY <2>3 DEF Typing, Snoozing, InFlight, GoesOn
  <2>6. ~mixed' => Settled /\ ~Out(SnoozeKinds)
    BY <2>3, OutIs DEF Snoozing, Settled, SnoozeKinds, Snoozes, Typing
  <2>7. \A d : IsPending(d)' <=> IsPending(d) \/ d = c
    BY <2>2, <2>3 DEF IsPending
  <2>8. DuesIn(page.list, c) # {}
    BY <2>2
  <2>9. ASSUME NEW r \in Members PROVE Spares(r)
    <3> SUFFICES ASSUME ~mixed', OfThisPage(r)
                 PROVE  /\ r.kind \in SnoozeKinds => pending' = {}
                        /\ r.kind = "complete" => ~IsPending(r.card)' /\ Hidden(r.card)'
                                                  /\ known'[r.card] = known[r.card]
      BY <2>5 DEF Spares
    <3>1. r.kind \notin SnoozeKinds
      BY <2>6 DEF Out
    <3>2. ASSUME r.kind = "complete"
          PROVE ~IsPending(r.card)' /\ Hidden(r.card)'
      <4>1. ~IsPending(r.card) /\ Hidden(r.card)
        BY <2>6, <3>2 DEF Inv, Working
      <4>2. r.card # c
        BY <2>8, <4>1 DEF Hidden
      <4>3. QED
        BY <2>4, <2>7, <4>1, <4>2 DEF Hidden
    <3>3. QED
      BY <3>1, <3>2
  <2>10. /\ ReqTypes' /\ Members' = Members /\ ViewState' /\ Apart'
         /\ \A r \in Members' : Known(r)' /\ Working(r)' /\ Boxed(r)'
    BY <1>1, <2>5, <2>9, SameRequests
  <2>11. ~mixed' => Right(page.list, known, c)
    <3> SUFFICES ASSUME ~mixed' PROVE Right(page.list, known, c)
      OBVIOUS
    <3>1. ~Out(Snoozes)
      BY <2>6 DEF Out, SnoozeKinds
    <3>2. ~Finishing(c)
      <4> SUFFICES ASSUME NEW r \in Members, r.kind = "complete", OfThisPage(r), r.card = c
                   PROVE  FALSE
        BY DEF Finishing
      <4>1. Hidden(c)
        BY <2>6 DEF Inv, Working
      <4>2. QED
        BY <2>8, <4>1 DEF Hidden
    <3>3. QED
      BY <1>4, <2>6, <3>1, <3>2 DEF Inv, Listing
  <2>12. PageState'
    <3>1. ASSUME Settled', NEW p \in pending' PROVE Hidden(p.card)' /\ Listable(p)'
      <4>1. ~mixed' /\ Settled
        BY <2>6, <3>1 DEF Settled
      <4>2. CASE p = row
        <5>1. Hidden(p.card)'
          BY <2>2, <2>4, <4>2 DEF Hidden
        <5>2. known[c] = db[c].ver => Stored(c) = {row.due}
          BY <2>2, <2>11, <4>1 DEF Right, Stored
        <5>3. Listable(p)'
          BY <2>2, <4>2, <5>2 DEF Listable, Stored, InInbox
        <5>4. QED
          BY <5>1, <5>3
      <4>3. CASE p # row
        <5>1. p \in pending /\ p.card # c
          BY <1>4, <2>3, <4>3 DEF IsPending
        <5>2. Hidden(p.card) /\ Listable(p)
          BY <4>1, <5>1 DEF Inv, PageState
        <5>3. QED
          BY <2>4, <5>1, <5>2 DEF Hidden, Listable, Stored, InInbox
      <4>4. QED
        BY <4>2, <4>3
    <3>2. QED
      BY <1>1, <2>3, <3>1 DEF Inv, PageState, Typing, PageTypes
  <2>13. Listing'
    <3> SUFFICES ASSUME Settled', NEW d \in Cards
                 PROVE  Out(Snoozes)' \/ IsPending(d)' \/ Finishing(d)' \/ Right(page.list, known, d)'
      BY DEF Listing
    <3>1. CASE d = c
      BY <2>7, <3>1
    <3>2. CASE d # c
      <4>1. Settled
        BY <2>6 DEF Settled
      <4>2. Out(Snoozes) \/ IsPending(d) \/ Finishing(d) \/ Right(page.list, known, d)
        BY <4>1 DEF Inv, Listing
      <4>3. /\ Out(Snoozes) => Out(Snoozes)'
            /\ Finishing(d) => Finishing(d)'
        BY <2>3, <2>10 DEF Out, Finishing, OfThisPage
      <4>4. Right(page.list, known, d) => Right(page.list, known, d)'
        BY <2>4, <3>2 DEF Right, Stored, InInbox
      <4>5. QED
        BY <2>7, <4>2, <4>3, <4>4
    <3>3. QED
      BY <3>1, <3>2
  <2>14. PendingTypes' /\ owed' \in [Cards -> Int]
    <3>1. IsFiniteSet(pending \cup {row})
      BY FS_AddElement DEF Typing, PendingTypes
    <3>2. QED
      BY <2>2, <2>3, <3>1 DEF Typing, PendingTypes
  <2>15. QED
    BY <1>1, <1>2, <2>3, <2>4, <2>5, <2>10, <2>12, <2>13, <2>14 DEF Inv, Typing, PageTypes
<1>5. QED
  BY <1>3, <1>4

\* A completion undone in time puts its row back.
LEMMA undoCompleteKeeps ==
  ASSUME Typing, OnePending, Inv, NEW row \in pending, undoComplete(row)
  PROVE  Typing' /\ Inv'
<1> DEFINE c == row.card
<1>1. /\ pending' = pending \ {row} /\ page' = restorePending(row)
      /\ owed' = [owed EXCEPT ![c] = @ - 1]
      /\ UNCHANGED <<db, all, view, reqs, toasts, known, mixed, finished>>
      /\ inputs' = inputs + 1
  BY DEF undoComplete, Input
<1>2. row \in CardRows /\ c \in Cards /\ page.phase = "ready"
  BY DEF Typing, PendingTypes, CardRows, Inv, PageState
<1>3. /\ DOMAIN page' = DOMAIN page /\ page'.list = Append(page.list, row)
      /\ page'.phase = page.phase /\ page'.mount = page.mount
  BY <1>1 DEF restorePending, Typing, PageTypes
<1>4. /\ page'.list \in Seq(CardRows)
      /\ DuesIn(page'.list, c) = DuesIn(page.list, c) \cup {row.due}
      /\ \A d : d # c => DuesIn(page'.list, d) = DuesIn(page.list, d)
  <2>1. /\ Append(page.list, row) \in Seq(CardRows)
        /\ DuesIn(Append(page.list, row), row.card) = DuesIn(page.list, row.card) \cup {row.due}
        /\ \A d : d # row.card => DuesIn(Append(page.list, row), d) = DuesIn(page.list, d)
    BY <1>2, AppendedIs DEF Typing, PageTypes
  <2>2. QED
    BY <1>3, <2>1
<1>5. /\ Later /\ SameBoxes /\ view' \in Views /\ ViewGoesOn /\ GoesOn
      /\ inputs' \in Nat /\ inputs <= inputs' /\ mixed' \in BOOLEAN
  BY <1>1, <1>3, SameDb DEF Typing, ViewGoesOn, GoesOn
<1>6. \A d : IsPending(d)' <=> IsPending(d) /\ d # c
  BY <1>1 DEF IsPending, OnePending
<1>7. ASSUME NEW r \in Members PROVE Spares(r)
  <2> SUFFICES ASSUME ~mixed', OfThisPage(r)
               PROVE  /\ r.kind \in SnoozeKinds => pending' = {}
                      /\ r.kind = "complete" => ~IsPending(r.card)' /\ Hidden(r.card)'
                                                /\ known'[r.card] = known[r.card]
    BY <1>1 DEF Spares
  <2>1. Working(r) /\ Settled
    BY <1>1, <1>2 DEF Inv, Settled
  <2>2. r.kind \in SnoozeKinds => pending' = {}
    BY <1>1, <2>1 DEF Working
  <2>3. ASSUME r.kind = "complete" PROVE ~IsPending(r.card)' /\ Hidden(r.card)'
    <3>1. ~IsPending(r.card) /\ Hidden(r.card) /\ r.card # c
      BY <2>1, <2>3 DEF Working, IsPending
    <3>2. QED
      BY <1>4, <1>6, <3>1 DEF Hidden
  <2>4. QED
    BY <1>1, <2>2, <2>3
<1>8. /\ ReqTypes' /\ Members' = Members /\ ViewState' /\ Apart'
      /\ \A r \in Members' : Known(r)' /\ Working(r)' /\ Boxed(r)'
  BY <1>1, <1>5, <1>7, SameRequests
<1>9. PageState'
  <2>1. ASSUME Settled', NEW p \in pending' PROVE Hidden(p.card)' /\ Listable(p)'
    <3>1. p \in pending /\ p.card # c /\ Settled
      BY <1>1, <1>3, <2>1 DEF OnePending, Settled
    <3>2. Hidden(p.card) /\ Listable(p)
      BY <3>1 DEF Inv, PageState
    <3>3. QED
      BY <1>1, <1>4, <3>1, <3>2 DEF Hidden, Listable, Stored, InInbox
  <2>2. QED
    BY <1>1, <1>2, <1>3, <1>5, <2>1 DEF Inv, PageState, Typing, PageTypes
<1>10. Listing'
  <2> SUFFICES ASSUME Settled', NEW d \in Cards
               PROVE  Out(Snoozes)' \/ IsPending(d)' \/ Finishing(d)' \/ Right(page.list, known, d)'
    BY DEF Listing
  <2>1. Settled
    BY <1>1, <1>3 DEF Settled
  <2>2. CASE d = c
    <3>1. DuesIn(page.list, c) = {} /\ Listable(row)
      BY <2>1 DEF Inv, PageState, Hidden
    <3>2. QED
      BY <1>1, <1>4, <2>2, <3>1 DEF Listable, Right, Stored, InInbox
  <2>3. CASE d # c
    <3>1. Out(Snoozes) \/ IsPending(d) \/ Finishing(d) \/ Right(page.list, known, d)
      BY <2>1 DEF Inv, Listing
    <3>2. /\ Out(Snoozes) => Out(Snoozes)'
          /\ Finishing(d) => Finishing(d)'
      BY <1>3, <1>8 DEF Out, Finishing, OfThisPage
    <3>3. Right(page.list, known, d) => Right(page.list, known, d)'
      BY <1>1, <1>4, <2>3 DEF Right, Stored, InInbox
    <3>4. QED
      BY <1>6, <2>3, <3>1, <3>2, <3>3
  <2>4. QED
    BY <2>2, <2>3
<1>11. PendingTypes' /\ owed' \in [Cards -> Int]
  <2>1. IsFiniteSet(pending \ {row})
    BY FS_RemoveElement DEF Typing, PendingTypes
  <2>2. QED
    BY <1>1, <1>2, <2>1 DEF Typing, PendingTypes
<1>12. QED
  BY <1>1, <1>3, <1>4, <1>5, <1>8, <1>9, <1>10, <1>11 DEF Inv, Typing, PageTypes

\* The quick view is closed.
LEMMA CloseKeeps == ASSUME Typing, Inv, Close PROVE Typing' /\ Inv'
<1>1. /\ view' = [view EXCEPT !.id = Closed]
      /\ UNCHANGED <<db, all, page, pending, reqs, toasts, known, mixed, owed, inputs>>
  BY DEF Close, NoInput, history
<1>2. /\ Later /\ SameBoxes /\ view' \in Views /\ ViewGoesOn /\ GoesOn
      /\ inputs' \in Nat /\ inputs <= inputs' /\ mixed' \in BOOLEAN
  BY <1>1, SameDb, ViewClosedIs DEF Typing, GoesOn
<1>3. ASSUME NEW r \in Members PROVE Spares(r)
  BY <1>1 DEF Spares, Inv, Working, Settled, OfThisPage, Typing, IsPending, Hidden, PageState,
     Known
<1>4. /\ ReqTypes' /\ Members' = Members /\ ViewState' /\ Apart'
      /\ \A r \in Members' : Known(r)' /\ Working(r)' /\ Boxed(r)'
  BY <1>1, <1>2, <1>3, SameRequests
<1>5. PageState' /\ Listing'
  BY <1>1, <1>2, <1>4, PageStateLasts, ListingLasts DEF Inv
<1>6. view'.id # Closed => view'.row \in CardRows
  BY <1>1 DEF Typing, Views
<1>7. QED
  BY <1>1, <1>2, <1>4, <1>5, <1>6 DEF Inv, Typing, PageTypes, PendingTypes

\* Another tab or member writes the card.
LEMMA ElsewhereKeeps ==
  ASSUME Typing, Inv, NEW c \in Cards, Elsewhere(c) PROVE Typing' /\ Inv'
<1>1. /\ inputs' = inputs + 1
      /\ UNCHANGED <<all, page, pending, view, reqs, toasts, known, mixed, owed>>
  BY DEF Elsewhere, Input, history
<1>2. PICK row : row \in DbRows /\ row.sub = db[c].sub /\ row.ver = db[c].ver
                 /\ row.subver = db[c].subver /\ db' = Wrote(c, row)
  <2>1. db[c] \in DbRows /\ Dues \subseteq Nat
    BY MyWorkAssumption DEF Typing
  <2>2. CASE \E holder \in Holders \ {db[c].holder} :
               db' = Wrote(c, [db[c] EXCEPT !.holder = holder])
    BY <2>1, <2>2 DEF DbRows
  <2>3. CASE \E due \in Dues \ {db[c].due} : db' = Wrote(c, [db[c] EXCEPT !.due = due])
    BY <2>1, <2>3 DEF DbRows
  <2>4. CASE db' = Wrote(c, [db[c] EXCEPT !.done = ~@])
    BY <2>1, <2>4 DEF DbRows
  <2>5. QED
    BY <2>2, <2>3, <2>4 DEF Elsewhere
<1>3. /\ db' \in [Cards -> DbRows] /\ Later /\ SameBoxes
  BY <1>1, <1>2, WroteIs DEF Typing
<1>4. /\ view' \in Views /\ ViewGoesOn /\ GoesOn
      /\ inputs' \in Nat /\ inputs <= inputs' /\ mixed' \in BOOLEAN
  BY <1>1 DEF Typing, ViewGoesOn, GoesOn
<1>5. ASSUME NEW r \in Members PROVE Spares(r)
  BY <1>1 DEF Spares, Inv, Working, Settled, OfThisPage, Typing, IsPending, Hidden, PageState,
     Known
<1>6. /\ ReqTypes' /\ Members' = Members /\ ViewState' /\ Apart'
      /\ \A r \in Members' : Known(r)' /\ Working(r)' /\ Boxed(r)'
  BY <1>1, <1>3, <1>4, <1>5, SameRequests
<1>7. PageState' /\ Listing'
  BY <1>1, <1>3, <1>4, <1>6, PageStateLasts, ListingLasts DEF Inv
<1>8. QED
  BY <1>1, <1>3, <1>4, <1>6, <1>7 DEF Inv, Typing, PageTypes, PendingTypes

-----------------------------------------------------------------------------
(* Requests are sent *)

\* An empty answer is an answer, and knows of nothing.
LEMMA NoDataIs == NoData \in Datas /\ \A d \in Cards : NoData.known[d] = 0
<1>1. <<>> \in Seq(CardRows) /\ [d \in Cards |-> 0] \in Versions
  BY DEF Versions
<1>2. QED
  BY <1>1 DEF NoData, Datas

\* The request that a pending row becomes.
LEMMA CompletionIs ==
  ASSUME page.mount \in Nat, NEW row \in CardRows, NEW q, q = Completion(row)
  PROVE  /\ q \in Requests /\ Whole(q)
         /\ q.kind = "complete" /\ q.card = row.card /\ q.row = row
         /\ q.mount = page.mount /\ q.stage = "sent" /\ q.view = Closed
         /\ q.prev = NoData /\ q.reply = NoData
<1>1. q = [kind |-> "complete", card |-> row.card, mount |-> page.mount, stage |-> "sent",
           row |-> row, due |-> NoDate, prev |-> NoData, reply |-> NoData,
           view |-> Closed, value |-> FALSE]
  BY DEF Completion, Request
<1>2. "complete" \in Kinds /\ row.card \in Cards
  BY DEF Kinds, CardRows
<1>3. q \in Requests
  <2> HIDE DEF Kinds, NoData, NoRow, Datas, CardRows
  <2>1. QED
    BY <1>1, <1>2, NoDataIs DEF Requests, NoDate, Closed
<1>4. QED
  BY <1>1, <1>2, <1>3 DEF Whole, ViewKinds, Closed

\* A request is sent: what is claimed of requests goes on.
LEMMA SentRequests ==
  ASSUME Typing, Inv, NEW q \in Requests, Whole(q), reqs' = Append(reqs, q),
         \A a, b \in Members : Rivals(a, b)' => Rivals(a, b),
         \A r \in Members : /\ Known(r)' /\ Working(r)' /\ Boxed(r)'
                            /\ ~Rivals(r, q)' /\ ~Rivals(q, r)',
         Known(q)' /\ Working(q)' /\ Boxed(q)'
  PROVE  /\ ReqTypes' /\ Members' = Members \cup {q} /\ Apart'
         /\ \A r \in Members' : Known(r)' /\ Working(r)' /\ Boxed(r)'
<1>1. ReqTypes' /\ Members' = Members \cup {q}
  BY SentIs DEF Typing
<1>2. Apart'
  BY ApartSent DEF Typing, Inv
<1>3. QED
  BY <1>1, <1>2

\* The time to undo is over.
LEMMA commitCompleteKeeps ==
  ASSUME Typing, OnePending, Inv, NEW row \in pending, commitComplete(row)
  PROVE  Typing' /\ Inv'
<1> DEFINE c == row.card
<1>1. /\ pending' = pending \ {row} /\ reqs' = Append(reqs, Completion(row))
      /\ owed' = [owed EXCEPT ![c] = @ - 1]
      /\ UNCHANGED <<db, all, page, view, toasts, known, mixed, inputs>>
  BY DEF commitComplete, NoInput
<1>2. row \in CardRows /\ c \in Cards /\ page.phase = "ready" /\ page.mount \in Nat
  BY DEF Typing, PageTypes, PendingTypes, CardRows, Inv, PageState
<1>3. PICK q : q = Completion(row)
  OBVIOUS
<1>4. /\ q \in Requests /\ Whole(q)
      /\ q.kind = "complete" /\ q.card = c /\ q.row = row /\ q.mount = page.mount
      /\ q.stage = "sent" /\ q.view = Closed /\ q.prev = NoData /\ q.reply = NoData
  BY <1>2, <1>3, CompletionIs
<1>5. /\ Later /\ SameBoxes /\ view' \in Views /\ ViewGoesOn /\ GoesOn /\ inputs' \in Nat
      /\ inputs <= inputs' /\ mixed' \in BOOLEAN
  BY <1>1, SameDb DEF Typing, ViewGoesOn, GoesOn
<1>6. \A d : IsPending(d)' <=> IsPending(d) /\ d # c
  BY <1>1 DEF IsPending, OnePending
<1>7. OfThisPage(q) /\ OfThisPage(q)' /\ ~Viewed(q) /\ ~Viewed(q)'
  BY <1>1, <1>2, <1>4 DEF OfThisPage, Viewed, Closed
<1>8. ASSUME NEW r \in Members
      PROVE  /\ r \in Requests /\ Whole(r) /\ Known(r)' /\ Working(r)' /\ Boxed(r)'
             /\ ~Rivals(r, q)' /\ ~Rivals(q, r)'
  <2>1. r \in Requests /\ Whole(r) /\ Known(r) /\ Working(r) /\ Boxed(r)
    BY DEF Typing, ReqTypes, Members, ToSet, Inv
  <2>2. Spares(r)
    BY <1>1, <1>2, <2>1 DEF Spares, Working, Settled, IsPending, Hidden
  <2>3. Known(r)' /\ Working(r)' /\ Boxed(r)'
    <3>1. Known(r)'
      BY <1>2, <1>5, <2>1, KnownLasts DEF Typing
    <3>2. Working(r)'
      BY <1>5, <2>1, <2>2, WorkingLasts DEF Typing, Inv, PageState
    <3>3. Boxed(r)'
      BY <1>5, <2>1, BoxedLasts
    <3>4. QED
      BY <3>1, <3>2, <3>3
  <2>4. ~mixed /\ OfThisPage(r) => r.kind \notin SnoozeKinds
                                   /\ ~(r.kind = "complete" /\ r.card = c)
    BY <1>2, <2>1 DEF Working, Settled, IsPending
  <2>5. ~PageRivals(r, q)' /\ ~PageRivals(q, r)'
    <3>1. q.kind \notin SnoozeKinds /\ q.kind # "load"
      BY <1>4 DEF SnoozeKinds, Snoozes
    <3>2. OfThisPage(r)' <=> OfThisPage(r)
      BY <1>1 DEF OfThisPage
    <3>3. QED
      BY <1>1, <1>4, <2>4, <3>1, <3>2 DEF PageRivals
  <2>6. ~ViewRivals(r, q)' /\ ~ViewRivals(q, r)'
    BY <1>7 DEF ViewRivals
  <2>7. QED
    BY <2>1, <2>3, <2>5, <2>6 DEF Rivals
<1>9. Known(q)' /\ Working(q)' /\ Boxed(q)'
  <2>1. Known(q)'
    <3>1. \A d \in Cards : 0 <= db[d].ver
      BY DEF Typing, DbRows
    <3>2. NoData.known = [d \in Cards |-> 0] /\ q.stage # "ok"
      BY <1>4 DEF NoData
    <3>3. QED
      BY <1>1, <1>2, <1>4, <1>7, <3>1, <3>2 DEF Known, Closed, Typing
  <2>2. Working(q)'
    <3> SUFFICES ASSUME Settled'
                 PROVE  ~IsPending(c)' /\ Hidden(c)' /\ Completed(q)'
      BY <1>4 DEF Working, SnoozeKinds, Snoozes
    <3>1. Hidden(c) /\ Listable(row)
      BY <1>1 DEF Inv, PageState, Settled
    <3>2. QED
      BY <1>1, <1>4, <1>6, <3>1 DEF Hidden, Completed, Listable, Stored, InInbox
  <2>3. Boxed(q)'
    BY <1>4, <1>7 DEF Boxed
  <2>4. QED
    BY <2>1, <2>2, <2>3
<1>10. /\ ReqTypes' /\ Members' = Members \cup {q} /\ Apart'
       /\ \A r \in Members' : Known(r)' /\ Working(r)' /\ Boxed(r)'
  <2>1. \A a, b \in Members : Rivals(a, b)' => Rivals(a, b)
    BY <1>1, <1>5, RivalsLast DEF Typing
  <2>2. QED
    BY <1>1, <1>3, <1>4, <1>8, <1>9, <2>1, SentRequests
<1>11. PageState' /\ ViewState'
  <2>1. PageState'
    BY <1>1, <1>5, PageStateLasts DEF Inv
  <2>2. ViewState'
    BY <1>5, <1>10, ViewLasts DEF Typing, Inv
  <2>3. QED
    BY <2>1, <2>2
<1>12. Listing'
  <2> SUFFICES ASSUME Settled', NEW d \in Cards
               PROVE  Out(Snoozes)' \/ IsPending(d)' \/ Finishing(d)' \/ Right(page.list, known, d)'
    BY DEF Listing
  <2>1. Out(Snoozes) \/ IsPending(d) \/ Finishing(d) \/ Right(page.list, known, d)
    BY <1>1 DEF Inv, Listing, Settled
  <2>2. /\ Out(Snoozes) => Out(Snoozes)'
        /\ Finishing(d) => Finishing(d)'
    BY <1>1, <1>10 DEF Out, Finishing, OfThisPage
  <2>3. Right(page.list, known, d) => Right(page.list, known, d)'
    BY <1>1 DEF Right, Stored, InInbox
  <2>4. d = c => Finishing(d)'
    BY <1>4, <1>7, <1>10 DEF Finishing
  <2>5. QED
    BY <1>6, <2>1, <2>2, <2>3, <2>4
<1>13. PendingTypes' /\ owed' \in [Cards -> Int]
  <2>1. IsFiniteSet(pending \ {row})
    BY FS_RemoveElement DEF Typing, PendingTypes
  <2>2. QED
    BY <1>1, <1>2, <2>1 DEF Typing, PendingTypes
<1>14. QED
  BY <1>1, <1>5, <1>10, <1>11, <1>12, <1>13 DEF Inv, Typing, PageTypes

\* What the members are.
LEMMA MemberIs ==
  ASSUME Typing, Inv, NEW r \in Members
  PROVE  /\ r \in Requests /\ Whole(r) /\ Known(r) /\ Working(r) /\ Boxed(r)
         /\ \E k \in DOMAIN reqs : r = reqs[k]
BY DEF Typing, ReqTypes, Members, ToSet, Inv

\* A snooze or its undo leaves the page mixed, if other work was out.
LEMMA SnoozeMixes ==
  ASSUME Typing, Inv,
         mixed' = (mixed \/ Snoozing \/ pending # {} \/ InFlight({"complete"}))
  PROVE  /\ mixed' \in BOOLEAN /\ (mixed => mixed')
         /\ ~mixed' =>
              /\ ~mixed /\ pending = {}
              /\ \A r \in Members :
                   OfThisPage(r) => r.kind \notin SnoozeKinds \cup {"complete"}
<1>1. mixed' \in BOOLEAN /\ (mixed => mixed')
  BY DEF Typing, Snoozing, InFlight
<1>2. ASSUME ~mixed', NEW r \in Members, OfThisPage(r)
      PROVE  r.kind \notin SnoozeKinds \cup {"complete"}
  <2>1. ~Out(SnoozeKinds) /\ ~Out({"complete"})
    BY <1>2, OutIs DEF Snoozing, SnoozeKinds, Snoozes, Typing
  <2>2. QED
    BY <1>2, <2>1 DEF Out
<1>3. QED
  BY <1>1, <1>2

\* The others when a snooze, or its undo, is sent.
LEMMA SnoozeSpares ==
  ASSUME Typing, Inv, NEW q \in Requests, Whole(q), q.kind \in SnoozeKinds,
         UNCHANGED <<db, all, pending, known>>, GoesOn, ViewGoesOn, view' \in Views,
         inputs' = inputs + 1, reqs' = Append(reqs, q),
         mixed' = (mixed \/ Snoozing \/ pending # {} \/ InFlight({"complete"})),
         Known(q)', Working(q)'
  PROVE  /\ ReqTypes' /\ Members' = Members \cup {q} /\ Apart' /\ ViewState'
         /\ \A r \in Members' : Known(r)' /\ Working(r)' /\ Boxed(r)'
<1>1. /\ Later /\ SameBoxes /\ inputs' \in Nat /\ inputs <= inputs' /\ page.mount \in Nat
      /\ mixed' \in BOOLEAN /\ (mixed => mixed')
  BY SameDb, SnoozeMixes DEF Typing, PageTypes
<1>2. ~Viewed(q)' /\ Boxed(q)'
  BY DEF Whole, ViewKinds, SnoozeKinds, Snoozes, Viewed, Boxed
<1>3. ASSUME NEW r \in Members
      PROVE  Known(r)' /\ Working(r)' /\ Boxed(r)' /\ ~Rivals(r, q)' /\ ~Rivals(q, r)'
  <2>1. r \in Requests /\ Whole(r) /\ Known(r) /\ Working(r) /\ Boxed(r)
    BY MemberIs
  <2>2. ~mixed' => ~mixed /\ (OfThisPage(r) => r.kind \notin SnoozeKinds \cup {"complete"})
    BY SnoozeMixes
  <2>3. Known(r)'
    BY <1>1, <2>1, KnownLasts DEF Typing
  <2>4. Working(r)'
    <3>1. Spares(r)
      BY <2>2 DEF Spares
    <3>2. QED
      BY <1>1, <2>1, <3>1, WorkingLasts DEF Typing, Inv, PageState
  <2>5. Boxed(r)'
    BY <1>1, <2>1, BoxedLasts
  <2>6. ~PageRivals(r, q)' /\ ~PageRivals(q, r)'
    <3>1. q.kind # "load"
      BY DEF SnoozeKinds, Snoozes
    <3>2. OfThisPage(r)' => OfThisPage(r)
      BY DEF OfThisPage, GoesOn
    <3>3. QED
      BY <2>2, <3>1, <3>2 DEF PageRivals
  <2>7. ~ViewRivals(r, q)' /\ ~ViewRivals(q, r)'
    BY <1>2 DEF ViewRivals
  <2>8. QED
    BY <2>3, <2>4, <2>5, <2>6, <2>7 DEF Rivals
<1>4. \A a, b \in Members : Rivals(a, b)' => Rivals(a, b)
  BY <1>1, RivalsLast DEF Typing
<1>5. /\ ReqTypes' /\ Members' = Members \cup {q} /\ Apart'
      /\ \A r \in Members' : Known(r)' /\ Working(r)' /\ Boxed(r)'
  BY <1>2, <1>3, <1>4, SentRequests
<1>6. ViewState'
  BY <1>1, <1>5, ViewLasts DEF Typing, Inv
<1>7. QED
  BY <1>5, <1>6

\* A snooze takes the row off the page and closes the quick view.
LEMMA handleSnoozeKeeps ==
  ASSUME Typing, Inv, NEW offset \in Offsets, handleSnooze(offset)
  PROVE  Typing' /\ Inv'
<1> DEFINE c == view.row.card
           row == IF Lists(c) THEN Listed(c) ELSE NoRow
           prev == [list |-> page.list, known |-> known]
<1>1. /\ page' = [page EXCEPT !.list = Without(@, c)]
      /\ view' = [view EXCEPT !.id = Closed]
      /\ mixed' = (mixed \/ Snoozing \/ pending # {} \/ InFlight({"complete"}))
      /\ UNCHANGED <<db, all, pending, toasts, known, owed>>
      /\ inputs' = inputs + 1 /\ view.id # Closed
  BY DEF handleSnooze, Input
<1>2. reqs' = Append(reqs, [Request("snooze", c) EXCEPT !.due = Today + offset,
                                                        !.row = row, !.prev = prev])
  BY DEF handleSnooze
<1>3. /\ c \in Cards /\ page.phase = "ready" /\ page.mount \in Nat
  BY <1>1 DEF Typing, PageTypes, CardRows, Inv, PageState
<1>4. row \in CardRows \cup {NoRow} /\ prev \in Datas /\ Today + offset \in Nat
  <2>1. Lists(c) => Listed(c) \in CardRows
    BY ListedIs DEF Typing, PageTypes
  <2>2. QED
    BY <2>1, MyWorkAssumption DEF Typing, PageTypes, Datas, Offsets
<1>5. PICK q : q = [Request("snooze", c) EXCEPT !.due = Today + offset, !.row = row,
                                                !.prev = prev]
  OBVIOUS
<1>6. /\ q \in Requests /\ Whole(q)
      /\ q.kind = "snooze" /\ q.card = c /\ q.mount = page.mount /\ q.prev = prev
      /\ q.stage = "sent" /\ q.view = Closed /\ q.reply = NoData
  <2> HIDE DEF c, row, prev
  <2>1. "snooze" \in Kinds
    BY DEF Kinds, SnoozeKinds, Snoozes
  <2>2. /\ q \in Requests
        /\ q.kind = "snooze" /\ q.card = c /\ q.mount = page.mount /\ q.prev = prev
        /\ q.stage = "sent" /\ q.view = Closed /\ q.reply = NoData
    <3>1. q = [kind |-> "snooze", card |-> c, mount |-> page.mount, stage |-> "sent",
               row |-> row, due |-> Today + offset, prev |-> prev, reply |-> NoData,
               view |-> Closed, value |-> FALSE]
      BY <1>5 DEF Request
    <3> HIDE DEF Kinds, NoData, NoRow, Datas, CardRows
    <3>2. QED
      BY <1>3, <1>4, <2>1, <3>1, NoDataIs DEF Requests, Closed
  <2>3. QED
    BY <1>3, <2>2 DEF Whole, ViewKinds, Closed
<1>7. /\ DOMAIN page' = DOMAIN page /\ page'.list = Without(page.list, c)
      /\ page'.phase = page.phase /\ page'.mount = page.mount
      /\ page'.list \in Seq(CardRows)
  BY <1>1, WithoutIs DEF Typing, PageTypes
<1>8. /\ Later /\ SameBoxes /\ view' \in Views /\ ViewGoesOn /\ view'.id = Closed /\ GoesOn
      /\ inputs' \in Nat /\ inputs <= inputs' /\ mixed' \in BOOLEAN
  BY <1>1, <1>7, SameDb, ViewClosedIs, SnoozeMixes DEF Typing, GoesOn, Views
<1>9. OfThisPage(q)'
  BY <1>3, <1>6, <1>7 DEF OfThisPage
<1>10. Known(q)'
  <2>1. \A d \in Cards : NoData.known[d] = 0 /\ 0 <= db[d].ver
    BY NoDataIs DEF Typing, DbRows
  <2>2. \A d \in Cards : known[d] <= db[d].ver
    BY DEF Inv, PageState
  <2>3. QED
    BY <1>1, <1>3, <1>6, <1>7, <1>8, <2>1, <2>2 DEF Known, Closed
<1>11. Working(q)'
  <2> SUFFICES ASSUME Settled'
               PROVE  pending' = {} /\ \A d \in Cards : Right(page.list, known, d)
    BY <1>1, <1>6 DEF Working, Right, Stored, InInbox
  <2>1. ~mixed' /\ Settled
    BY <1>1, <1>3, SnoozeMixes DEF Settled
  <2>2. pending = {} /\ \A r \in Members : OfThisPage(r) => r.kind \notin SnoozeKinds \cup {"complete"}
    BY <1>1, <2>1, SnoozeMixes
  <2>3. ASSUME NEW d \in Cards PROVE Right(page.list, known, d)
    BY <2>1, <2>2 DEF Inv, Listing, Out, IsPending, Finishing, SnoozeKinds
  <2>4. QED
    BY <1>1, <2>2, <2>3
<1>12. /\ ReqTypes' /\ Members' = Members \cup {q} /\ Apart' /\ ViewState'
       /\ \A r \in Members' : Known(r)' /\ Working(r)' /\ Boxed(r)'
  <2>1. q.kind \in SnoozeKinds
    BY <1>6 DEF SnoozeKinds, Snoozes
  <2>2. QED
    BY <1>1, <1>2, <1>5, <1>6, <1>8, <1>10, <1>11, <2>1, SnoozeSpares
<1>13. Listing'
  BY <1>6, <1>9, <1>12 DEF Listing, Out, Snoozes
<1>14. PageState'
  <2>1. Settled' => pending' = {}
    BY <1>1, SnoozeMixes DEF Settled
  <2>2. page'.mount <= inputs' /\ \A t \in toasts' : t.mount <= page'.mount
    BY <1>1, <1>3, <1>7 DEF Inv, PageState, Typing
  <2>3. QED
    BY <1>1, <1>3, <1>7, <2>1, <2>2 DEF Inv, PageState
<1>15. QED
  BY <1>1, <1>7, <1>8, <1>12, <1>13, <1>14 DEF Inv, Typing, PageTypes, PendingTypes

\* The undo of a snooze is a request of the page that snoozed.
LEMMA undoSnoozeKeeps ==
  ASSUME Typing, Inv, NEW t \in toasts, undoSnooze(t)
  PROVE  Typing' /\ Inv'
<1>1. /\ toasts' = toasts \ {t}
      /\ reqs' = Append(reqs, [Request("unsnooze", t.card) EXCEPT !.due = t.due,
                                                                  !.mount = t.mount])
      /\ mixed' = (mixed \/ Snoozing \/ pending # {} \/ InFlight({"complete"}))
      /\ UNCHANGED <<db, all, page, pending, view, known, owed>>
      /\ inputs' = inputs + 1
  BY DEF undoSnooze, Input
<1>2. /\ t.card \in Cards /\ t.due \in Nat /\ t.mount \in Nat /\ page.mount \in Nat
      /\ t.mount <= page.mount
  BY DEF Typing, PageTypes, Toasts, Inv, PageState
<1>3. PICK q : q = [Request("unsnooze", t.card) EXCEPT !.due = t.due, !.mount = t.mount]
  OBVIOUS
<1>4. /\ q \in Requests /\ Whole(q)
      /\ q.kind = "unsnooze" /\ q.card = t.card /\ q.mount = t.mount /\ q.prev = NoData
      /\ q.stage = "sent" /\ q.view = Closed /\ q.reply = NoData
  <2>1. "unsnooze" \in Kinds
    BY DEF Kinds, SnoozeKinds
  <2>2. /\ q \in Requests
        /\ q.kind = "unsnooze" /\ q.card = t.card /\ q.mount = t.mount /\ q.prev = NoData
        /\ q.stage = "sent" /\ q.view = Closed /\ q.reply = NoData
    <3>1. q = [kind |-> "unsnooze", card |-> t.card, mount |-> t.mount, stage |-> "sent",
               row |-> NoRow, due |-> t.due, prev |-> NoData, reply |-> NoData,
               view |-> Closed, value |-> FALSE]
      BY <1>3 DEF Request
    <3> HIDE DEF Kinds, NoData, NoRow, Datas, CardRows
    <3>2. QED
      BY <1>2, <2>1, <3>1, NoDataIs DEF Requests, Closed
  <2>3. QED
    BY <1>2, <2>2 DEF Whole, ViewKinds, Closed
<1>5. /\ Later /\ SameBoxes /\ view' \in Views /\ ViewGoesOn /\ GoesOn
      /\ inputs' \in Nat /\ inputs <= inputs' /\ mixed' \in BOOLEAN /\ (mixed => mixed')
  BY <1>1, SameDb, SnoozeMixes DEF Typing, GoesOn, ViewGoesOn
<1>6. Known(q)'
  <2>1. \A d \in Cards : NoData.known[d] = 0 /\ 0 <= db[d].ver
    BY NoDataIs DEF Typing, DbRows
  <2>2. OfThisPage(q) => page.phase = "ready"
    BY <1>4 DEF OfThisPage, Inv, PageState, Typing, PageTypes
  <2>3. QED
    BY <1>1, <1>2, <1>4, <1>5, <2>1, <2>2 DEF Known, OfThisPage, Closed
<1>7. Working(q)'
  BY <1>1, <1>4, SnoozeMixes DEF Working, Settled, Snoozes
<1>8. /\ ReqTypes' /\ Members' = Members \cup {q} /\ Apart' /\ ViewState'
      /\ \A r \in Members' : Known(r)' /\ Working(r)' /\ Boxed(r)'
  <2>1. q.kind \in SnoozeKinds
    BY <1>4 DEF SnoozeKinds
  <2>2. QED
    BY <1>1, <1>3, <1>4, <1>5, <1>6, <1>7, <2>1, SnoozeSpares
<1>9. Listing' /\ PageState'
  BY <1>1, <1>5, <1>8, ListingLasts, PageStateLasts DEF Inv
<1>10. QED
  BY <1>1, <1>5, <1>8, <1>9 DEF Inv, Typing, PageTypes, PendingTypes

\* The quick view opens and asks for its detail.
LEMMA OpenKeeps ==
  ASSUME Typing, Inv, NEW c \in Cards, Open(c) PROVE Typing' /\ Inv'
<1> DEFINE row == Listed(c)
<1>1. /\ view' = [id |-> inputs', row |-> row, state |-> "loading", sub |-> FALSE,
                  known |-> 0, muddled |-> FALSE]
      /\ reqs' = Append(reqs, [Request("detail", c) EXCEPT !.view = inputs'])
      /\ UNCHANGED <<db, all, page, pending, toasts, known, mixed, owed>>
      /\ inputs' = inputs + 1 /\ page.phase = "ready" /\ page.mount \in Nat /\ Lists(c)
  BY DEF Open, Input, history, Typing, PageTypes
<1>2. row \in CardRows /\ row.card = c
  BY <1>1, ListedIs DEF Typing, PageTypes
<1>3. PICK q : q = [Request("detail", c) EXCEPT !.view = inputs']
  OBVIOUS
<1>4. /\ q \in Requests /\ Whole(q)
      /\ q.kind = "detail" /\ q.card = c /\ q.mount = page.mount /\ q.prev = NoData
      /\ q.stage = "sent" /\ q.view = inputs' /\ q.reply = NoData
  <2> HIDE DEF row
  <2>1. q = [kind |-> "detail", card |-> c, mount |-> page.mount, stage |-> "sent",
             row |-> NoRow, due |-> NoDate, prev |-> NoData, reply |-> NoData,
             view |-> inputs', value |-> FALSE]
    BY <1>3 DEF Request
  <2>2. "detail" \in Kinds /\ inputs' \in Nat \ {0}
    BY <1>1 DEF Kinds, ViewKinds, Typing
  <2>3. q \in Requests
    <3> HIDE DEF Kinds, NoData, NoRow, Datas, CardRows
    <3>1. QED
      BY <1>1, <2>1, <2>2, NoDataIs DEF Requests, NoDate
  <2>4. QED
    BY <2>1, <2>2, <2>3 DEF Whole, ViewKinds, Closed
<1>5. /\ Later /\ SameBoxes /\ GoesOn /\ inputs' \in Nat /\ inputs < inputs' /\ inputs \in Nat
      /\ mixed' \in BOOLEAN
  BY <1>1, SameDb DEF Typing, GoesOn
<1>6. ASSUME NEW r \in Members
      PROVE  /\ Known(r)' /\ Working(r)' /\ Boxed(r)' /\ ~Viewed(r)'
             /\ ~Rivals(r, q)' /\ ~Rivals(q, r)'
  <2>1. r \in Requests /\ Whole(r) /\ Known(r) /\ Working(r) /\ Boxed(r)
    BY MemberIs
  <2>2. ~Viewed(r)'
    <3>1. r.view \in Nat /\ r.view <= inputs
      BY <2>1 DEF Requests, Known
    <3>2. QED
      BY <1>1, <1>5, <3>1 DEF Viewed
  <2>3. Known(r)'
    BY <1>1, <1>5, <2>1, KnownLasts
  <2>4. Working(r)'
    <3>1. Spares(r)
      BY <1>1, <2>1 DEF Spares, Working, Settled, IsPending, Hidden
    <3>2. QED
      BY <1>5, <2>1, <3>1, WorkingLasts DEF Typing, Inv, PageState
  <2>5. Boxed(r)'
    BY <1>1, <2>1, <2>2 DEF Boxed
  <2>6. ~PageRivals(r, q)' /\ ~PageRivals(q, r)'
    BY <1>4 DEF PageRivals, SnoozeKinds, Snoozes
  <2>7. QED
    BY <2>2, <2>3, <2>4, <2>5, <2>6 DEF Rivals, ViewRivals
<1>7. Known(q)' /\ Working(q)' /\ Boxed(q)'
  <2>1. \A d \in Cards : NoData.known[d] = 0 /\ 0 <= db[d].ver /\ 0 <= db[d].subver
    BY NoDataIs DEF Typing, DbRows
  <2>2. Known(q)'
    BY <1>1, <1>4, <1>5, <2>1 DEF Known, Reads
  <2>3. Working(q)'
    BY <1>4 DEF Working, SnoozeKinds, Snoozes
  <2>4. Boxed(q)'
    BY <1>1, <1>2, <1>4, <2>1 DEF Boxed
  <2>5. QED
    BY <2>2, <2>3, <2>4
<1>8. ASSUME NEW a \in Members, NEW b \in Members, Rivals(a, b)' PROVE Rivals(a, b)
  BY <1>1, <1>6, <1>8 DEF Rivals, ViewRivals, PageRivals, OfThisPage
<1>9. /\ ReqTypes' /\ Members' = Members \cup {q} /\ Apart'
      /\ \A r \in Members' : Known(r)' /\ Working(r)' /\ Boxed(r)'
  BY <1>1, <1>3, <1>4, <1>6, <1>7, <1>8, SentRequests
<1>10. ViewState'
  BY <1>1, <1>5 DEF ViewState
<1>11. Listing' /\ PageState'
  BY <1>1, <1>5, <1>9, ListingLasts, PageStateLasts DEF Inv
<1>12. view' \in Views /\ view'.row \in CardRows
  BY <1>1, <1>2, <1>5 DEF Views
<1>13. QED
  BY <1>1, <1>5, <1>9, <1>10, <1>11, <1>12 DEF Inv, Typing, PageTypes, PendingTypes

\* A box is clicked: muddled, if it had been clicked and not answered.
LEMMA toggleSubtaskKeeps == ASSUME Typing, Inv, toggleSubtask PROVE Typing' /\ Inv'
<1> DEFINE c == view.row.card
<1>1. /\ view.id # Closed /\ view.state = "shown"
      /\ view' = [view EXCEPT !.sub = ~@, !.muddled = @ \/ TogglesOf(view.id) # {}]
      /\ reqs' = Append(reqs, [Request("toggle", c) EXCEPT !.value = ~view.sub,
                                                           !.view = view.id])
      /\ UNCHANGED <<db, all, page, pending, toasts, known, mixed, owed>>
      /\ inputs' = inputs + 1
  BY DEF toggleSubtask, Input, history
<1>2. /\ c \in Cards /\ page.mount \in Nat /\ page.phase = "ready"
  BY <1>1 DEF Typing, PageTypes, CardRows, Inv, PageState
<1>3. /\ view' \in Views /\ view'.id = view.id /\ view'.row = view.row
      /\ view'.state = view.state /\ view'.sub = ~view.sub /\ view'.known = view.known
      /\ (view'.muddled <=> view.muddled \/ TogglesOf(view.id) # {})
  BY <1>1 DEF Typing, Views
<1>4. PICK q : q = [Request("toggle", c) EXCEPT !.value = ~view.sub, !.view = view.id]
  OBVIOUS
<1>5. /\ q \in Requests /\ Whole(q)
      /\ q.kind = "toggle" /\ q.card = c /\ q.mount = page.mount /\ q.prev = NoData
      /\ q.stage = "sent" /\ q.view = view.id /\ q.reply = NoData /\ q.value = ~view.sub
  <2>1. q = [kind |-> "toggle", card |-> c, mount |-> page.mount, stage |-> "sent",
             row |-> NoRow, due |-> NoDate, prev |-> NoData, reply |-> NoData,
             view |-> view.id, value |-> ~view.sub]
    BY <1>4 DEF Request
  <2>2. "toggle" \in Kinds /\ view.id \in Nat \ {0}
    BY <1>1 DEF Kinds, ViewKinds, Typing, Views, Closed
  <2>3. (~view.sub) \in BOOLEAN
    OBVIOUS
  <2>4. q \in Requests
    <3> HIDE DEF Kinds, NoData, NoRow, Datas, CardRows, c
    <3>1. QED
      BY <1>2, <2>1, <2>2, <2>3, NoDataIs DEF Requests, NoDate
  <2>5. QED
    BY <1>2, <2>1, <2>2, <2>4 DEF Whole, ViewKinds, Closed
<1>6. /\ Later /\ SameBoxes /\ GoesOn /\ inputs' \in Nat /\ inputs <= inputs' /\ inputs \in Nat
      /\ mixed' \in BOOLEAN
  BY <1>1, SameDb DEF Typing, GoesOn
<1>7. ASSUME NEW r \in Members, Viewed(r) PROVE r.kind = "toggle" /\ view'.muddled
  <2>1. Whole(r) /\ Boxed(r) /\ \E k \in DOMAIN reqs : r = reqs[k]
    BY MemberIs
  <2>2. r.kind = "toggle"
    BY <1>1, <1>7, <2>1 DEF Whole, Boxed, ViewKinds, Viewed
  <2>3. TogglesOf(view.id) # {}
    BY <1>7, <2>1, <2>2 DEF TogglesOf, Viewed
  <2>4. QED
    BY <1>3, <2>2, <2>3
<1>8. \A r : Viewed(r)' <=> Viewed(r)
  BY <1>3 DEF Viewed
<1>9. ASSUME NEW r \in Members
      PROVE  Known(r)' /\ Working(r)' /\ Boxed(r)' /\ ~Rivals(r, q)' /\ ~Rivals(q, r)'
  <2>1. r \in Requests /\ Whole(r) /\ Known(r) /\ Working(r) /\ Boxed(r)
    BY MemberIs
  <2>2. Known(r)'
    BY <1>2, <1>6, <2>1, KnownLasts
  <2>3. Working(r)'
    <3>1. Spares(r)
      BY <1>1, <1>2, <2>1 DEF Spares, Working, Settled, IsPending, Hidden
    <3>2. QED
      BY <1>6, <2>1, <3>1, WorkingLasts DEF Typing, Inv, PageState
  <2>4. Boxed(r)'
    BY <1>1, <1>3, <1>7, <1>8, <2>1 DEF Boxed
  <2>5. ~PageRivals(r, q)' /\ ~PageRivals(q, r)'
    BY <1>5 DEF PageRivals, SnoozeKinds, Snoozes
  <2>6. ~ViewRivals(r, q)' /\ ~ViewRivals(q, r)'
    BY <1>5, <1>7, <1>8 DEF ViewRivals
  <2>7. QED
    BY <2>2, <2>3, <2>4, <2>5, <2>6 DEF Rivals
<1>10. ViewState /\ (~view'.muddled => ~view.muddled /\ ~(\E r \in Members : Viewed(r)))
  BY <1>3, <1>7 DEF Inv
<1>11. Known(q)' /\ Working(q)' /\ Boxed(q)'
  <2>1. \A d \in Cards : NoData.known[d] = 0 /\ 0 <= db[d].ver
    BY NoDataIs DEF Typing, DbRows
  <2>2. Known(q)'
    <3>1. view.id <= inputs' /\ view.id \in Nat
      BY <1>6, <1>10 DEF ViewState, Typing, Views
    <3>2. QED
      BY <1>1, <1>2, <1>5, <2>1, <3>1 DEF Known, Reads
  <2>3. Working(q)'
    BY <1>5 DEF Working, SnoozeKinds, Snoozes
  <2>4. ~view'.muddled => Toggled(q)'
    BY <1>1, <1>3, <1>5, <1>10 DEF Toggled, ViewState, Typing, Views, DbRows
  <2>5. Boxed(q)'
    BY <1>1, <1>3, <1>5, <2>4 DEF Boxed
  <2>6. QED
    BY <2>2, <2>3, <2>5
<1>12. ASSUME NEW a \in Members, NEW b \in Members, Rivals(a, b)' PROVE Rivals(a, b)
  BY <1>1, <1>7, <1>8, <1>12 DEF Rivals, ViewRivals, PageRivals, OfThisPage
<1>13. /\ ReqTypes' /\ Members' = Members \cup {q} /\ Apart'
       /\ \A r \in Members' : Known(r)' /\ Working(r)' /\ Boxed(r)'
  BY <1>1, <1>4, <1>5, <1>9, <1>11, <1>12, SentRequests
<1>14. ViewState'
  <2>1. Viewed(q)'
    BY <1>1, <1>3, <1>5 DEF Viewed
  <2>2. view'.id <= inputs'
    BY <1>3, <1>6, <1>10 DEF ViewState, Typing, Views
  <2>3. QED
    BY <1>1, <1>3, <1>10, <1>13, <2>1, <2>2 DEF ViewState
<1>15. Listing' /\ PageState'
  BY <1>1, <1>2, <1>6, <1>13, ListingLasts, PageStateLasts DEF Inv
<1>16. view'.row \in CardRows
  BY <1>1, <1>3 DEF Typing
<1>17. QED
  BY <1>1, <1>3, <1>6, <1>13, <1>14, <1>15, <1>16 DEF Inv, Typing, PageTypes, PendingTypes

-----------------------------------------------------------------------------
(* The page is entered and left *)

\* A new page starts its load.
LEMMA EnterKeeps == ASSUME Typing, Inv, Enter PROVE Typing' /\ Inv'
<1>1. /\ page.phase = "left" /\ page' = Blank(inputs')
      /\ reqs' = Append(reqs, [Request("load", 0) EXCEPT !.mount = inputs'])
      /\ known' = NoData.known /\ mixed' = FALSE
      /\ UNCHANGED <<db, all, pending, view, toasts, owed>> /\ inputs' = inputs + 1
  BY DEF Enter, Input
<1>2. /\ page'.phase = "loading" /\ page'.list = <<>> /\ page'.mount = inputs'
      /\ DOMAIN page' = DOMAIN page /\ page'.list \in Seq(CardRows)
  BY <1>1 DEF Blank, Typing, PageTypes
<1>3. /\ Later /\ inputs' \in Nat /\ inputs < inputs' /\ inputs \in Nat /\ page.mount \in Nat
      /\ page.mount <= inputs /\ pending = {} /\ view.id = Closed
  BY <1>1, SameDb DEF Typing, PageTypes, Inv, PageState
<1>4. PICK q : q = [Request("load", 0) EXCEPT !.mount = inputs']
  OBVIOUS
<1>5. /\ q \in Requests /\ Whole(q)
      /\ q.kind = "load" /\ q.card = 0 /\ q.mount = inputs' /\ q.prev = NoData
      /\ q.stage = "sent" /\ q.view = Closed /\ q.reply = NoData
  <2>1. q = [kind |-> "load", card |-> 0, mount |-> inputs', stage |-> "sent",
             row |-> NoRow, due |-> NoDate, prev |-> NoData, reply |-> NoData,
             view |-> Closed, value |-> FALSE]
    BY <1>4 DEF Request
  <2>2. "load" \in Kinds
    BY DEF Kinds
  <2>3. q \in Requests
    <3> HIDE DEF Kinds, NoData, NoRow, Datas, CardRows
    <3>1. QED
      BY <1>3, <2>1, <2>2, NoDataIs DEF Requests, NoDate, Closed
  <2>4. QED
    BY <2>1, <2>3 DEF Whole, ViewKinds, Closed
<1>6. ASSUME NEW r \in Members
      PROVE  /\ r.mount # inputs' /\ ~OfThisPage(r)'
             /\ Known(r)' /\ Working(r)' /\ Boxed(r)'
  <2>1. r \in Requests /\ Known(r) /\ Boxed(r)
    BY MemberIs
  <2>2. r.mount \in Nat /\ r.view \in Nat
    BY <2>1 DEF Requests
  <2>3. r.mount # inputs' /\ ~OfThisPage(r)' /\ r.mount <= page'.mount /\ r.view <= inputs'
    BY <1>2, <1>3, <2>1, <2>2 DEF Known, OfThisPage
  <2>4. Known(r)'
    BY <1>1, <2>1, <2>3 DEF Known, Right, Stored, InInbox
  <2>5. Boxed(r)'
    BY <1>1, <1>3, <2>1 DEF Boxed, Viewed
  <2>6. QED
    BY <2>3, <2>4, <2>5 DEF Working
<1>7. \A r : ~Viewed(r)'
  BY <1>1, <1>3 DEF Viewed
<1>8. \A r \in Members : (\A p : ~Rivals(r, p)' /\ ~Rivals(p, r)')
  BY <1>6, <1>7 DEF Rivals, PageRivals, ViewRivals
<1>9. Known(q)' /\ Working(q)' /\ Boxed(q)'
  <2>1. \A d \in Cards : NoData.known[d] = 0 /\ 0 <= db[d].ver
    BY NoDataIs DEF Typing, DbRows
  <2>2. Known(q)'
    BY <1>1, <1>2, <1>3, <1>5, <2>1 DEF Known, Closed, Reads
  <2>3. Working(q)'
    BY <1>5 DEF Working, SnoozeKinds, Snoozes
  <2>4. Boxed(q)'
    BY <1>5, <1>7 DEF Boxed
  <2>5. QED
    BY <2>2, <2>3, <2>4
<1>10. /\ ReqTypes' /\ Members' = Members \cup {q} /\ Apart'
       /\ \A r \in Members' : Known(r)' /\ Working(r)' /\ Boxed(r)'
  BY <1>1, <1>4, <1>5, <1>6, <1>8, <1>9, SentRequests
<1>11. ~Settled'
  BY <1>2 DEF Settled
<1>12. PageState'
  <2>1. \A t \in toasts : t.mount \in Nat /\ t.mount <= page.mount
    BY DEF Typing, Toasts, Inv, PageState
  <2>2. \A t \in toasts' : t.mount <= page'.mount /\ t.mount # page'.mount
    BY <1>1, <1>2, <1>3, <2>1
  <2>3. \A c \in Cards : known'[c] <= db'[c].ver
    BY <1>1, NoDataIs DEF Typing, DbRows
  <2>4. QED
    BY <1>1, <1>2, <1>3, <1>11, <2>2, <2>3 DEF PageState
<1>13. Listing' /\ ViewState'
  <2>1. view'.id <= inputs'
    BY <1>1, <1>3 DEF Closed
  <2>2. QED
    BY <1>1, <1>3, <1>11, <2>1 DEF Listing, ViewState
<1>14. known' \in Versions
  BY <1>1, NoDataIs DEF Datas
<1>15. QED
  BY <1>1, <1>2, <1>3, <1>10, <1>12, <1>13, <1>14 DEF Inv, Typing, PageTypes, PendingTypes

\* The rows of a flush are the pending ones, each once.
LEMMA FlushIs ==
  ASSUME PendingTypes
  PROVE  \E rows : /\ rows = SetToSeq(pending) /\ rows \in Seq(CardRows)
                   /\ \A i, j \in DOMAIN rows : rows[i] = rows[j] => i = j
                   /\ \A p : p \in pending <=> \E i \in DOMAIN rows : p = rows[i]
<1> DEFINE n == Cardinality(pending)
<1>1. n \in Nat /\ ExistsBijection(1 .. n, pending)
  BY FS_CardinalityType DEF PendingTypes
<1>2. PICK f : f \in Bijection(1 .. n, pending)
  BY <1>1 DEF ExistsBijection
<1>3. f \in [1 .. n -> pending] /\ \A i, j \in 1 .. n : f[i] = f[j] => i = j
  BY <1>2 DEF Bijection, Injection, Surjection, IsInjective
<1>4. PICK rows : rows = SetToSeq(pending)
  OBVIOUS
<1>5. rows \in [1 .. n -> pending] /\ \A i, j \in 1 .. n : rows[i] = rows[j] => i = j
  <2>1. f \in [1 .. n -> pending] /\ IsInjective(f)
    BY <1>3 DEF IsInjective
  <2>2. \E g \in [1 .. n -> pending] : IsInjective(g)
    BY <2>1
  <2>3. rows = CHOOSE g \in [1 .. n -> pending] : IsInjective(g)
    BY <1>4 DEF SetToSeq
  <2>4. rows \in [1 .. n -> pending] /\ IsInjective(rows)
    <3> HIDE DEF n
    <3>1. QED
      BY <2>2, <2>3
  <2>5. QED
    BY <2>4 DEF IsInjective
<1>6. \A p \in pending : \E i \in 1 .. n : p = rows[i]
  <2>1. rows \in Injection(1 .. n, pending)
    BY <1>5 DEF Injection, IsInjective
  <2>2. Cardinality(1 .. n) = n
    BY <1>1, FS_Interval
  <2>3. rows \in Surjection(1 .. n, pending)
    BY <2>1, <2>2, FS_Injection DEF PendingTypes
  <2>4. QED
    BY <2>3 DEF Surjection
<1>7. rows \in Seq(CardRows) /\ DOMAIN rows = 1 .. n
  BY <1>1, <1>5 DEF PendingTypes
<1>8. \A p : p \in pending <=> \E i \in DOMAIN rows : p = rows[i]
  BY <1>5, <1>6, <1>7
<1>9. \A i, j \in DOMAIN rows : rows[i] = rows[j] => i = j
  BY <1>5, <1>7
<1> WITNESS rows
<1>10. rows = SetToSeq(pending) /\ rows \in Seq(CardRows)
  BY <1>4, <1>7
<1>11. QED
  BY <1>8, <1>9, <1>10

\* Of every card that is pending one completion is sent, of the others none.
LEMMA FlushCounts ==
  ASSUME PendingTypes, OnePending, NEW c
  PROVE  Cardinality({i \in DOMAIN Flush : Flush[i].card = c})
           = IF IsPending(c) THEN 1 ELSE 0
<1>1. PICK rows : /\ rows = SetToSeq(pending) /\ rows \in Seq(CardRows)
                  /\ \A i, j \in DOMAIN rows : rows[i] = rows[j] => i = j
                  /\ \A p : p \in pending <=> \E i \in DOMAIN rows : p = rows[i]
  BY FlushIs
<1>2. PICK sent : sent = {i \in DOMAIN Flush : Flush[i].card = c}
  OBVIOUS
<1>3. Flush = [i \in DOMAIN rows |-> Completion(rows[i])]
  BY <1>1 DEF Flush
<1>4. \A i \in DOMAIN rows : Completion(rows[i]).card = rows[i].card
  BY DEF Completion, Request
<1>5. sent = {i \in DOMAIN rows : rows[i].card = c}
  BY <1>2, <1>3, <1>4
<1>6. CASE IsPending(c)
  <2>1. PICK p \in pending : p.card = c
    BY <1>6 DEF IsPending
  <2>2. PICK i \in DOMAIN rows : p = rows[i]
    BY <1>1
  <2>3. \A j \in DOMAIN rows : rows[j].card = c => j = i
    BY <1>1, <2>1, <2>2 DEF OnePending
  <2>4. sent = {i}
    BY <1>5, <2>1, <2>2, <2>3
  <2>5. QED
    BY <1>2, <1>6, <2>4, FS_Singleton
<1>7. CASE ~IsPending(c)
  <2>1. sent = {}
    BY <1>1, <1>5, <1>7 DEF IsPending
  <2>2. QED
    BY <1>2, <1>7, <2>1, FS_EmptySet
<1>8. QED
  BY <1>6, <1>7

\* What is pending is sent when the page is left.
LEMMA LeaveKeeps == ASSUME Typing, OnePending, Inv, Leave PROVE Typing' /\ Inv'
<1>1. /\ reqs' = reqs \o Flush /\ pending' = {} /\ page' = [page EXCEPT !.phase = "left"]
      /\ view' = [view EXCEPT !.id = Closed]
      /\ owed' = [c \in Cards |->
           owed[c] - Cardinality({i \in DOMAIN Flush : Flush[i].card = c})]
      /\ UNCHANGED <<db, all, toasts, known, mixed>> /\ inputs' = inputs + 1
  BY DEF Leave, Input
<1>2. /\ page'.phase = "left" /\ page'.list = page.list /\ page'.mount = page.mount
      /\ DOMAIN page' = DOMAIN page /\ page.mount \in Nat
  BY <1>1 DEF Typing, PageTypes
<1>3. /\ Later /\ SameBoxes /\ inputs' \in Nat /\ inputs <= inputs' /\ inputs \in Nat
      /\ view' \in Views /\ view'.id = Closed
  BY <1>1, SameDb, ViewClosedIs DEF Typing, Views
<1>4. \A r : ~OfThisPage(r)' /\ ~Viewed(r)'
  BY <1>2, <1>3 DEF OfThisPage, Viewed
<1>5. ~Settled' /\ Apart'
  BY <1>2, <1>4 DEF Settled, Apart, Rivals, PageRivals, ViewRivals
<1>6. PICK rows : /\ rows = SetToSeq(pending) /\ rows \in Seq(CardRows)
                  /\ \A p : p \in pending <=> \E i \in DOMAIN rows : p = rows[i]
  BY FlushIs DEF Typing
<1>7. Flush = [i \in DOMAIN rows |-> Completion(rows[i])]
  BY <1>6 DEF Flush
<1>8. ASSUME NEW i \in DOMAIN rows
      PROVE  LET q == Completion(rows[i]) IN
             /\ q \in Requests /\ Whole(q) /\ q.kind = "complete"
             /\ q.mount = page.mount /\ q.stage = "sent" /\ q.view = Closed
             /\ q.prev = NoData /\ q.reply = NoData
  <2>1. rows[i] \in CardRows
    BY <1>6
  <2>2. QED
    BY <1>2, <2>1, CompletionIs
<1>9. Flush \in Seq(Requests) /\ DOMAIN Flush = DOMAIN rows
  <2>1. Len(rows) \in Nat /\ DOMAIN rows = 1 .. Len(rows)
    BY <1>6
  <2>2. \A i \in DOMAIN rows : Completion(rows[i]) \in Requests
    BY <1>8
  <2>3. QED
    BY <1>7, <2>1, <2>2
<1>10. ASSUME NEW k \in DOMAIN reqs'
       PROVE  /\ reqs'[k] \in Requests /\ Whole(reqs'[k])
              /\ \/ reqs'[k] \in Members
                 \/ \E i \in DOMAIN rows : reqs'[k] = Completion(rows[i])
  <2>1. \/ k \in DOMAIN reqs /\ reqs'[k] = reqs[k]
        \/ \E i \in DOMAIN rows : reqs'[k] = Completion(rows[i])
    BY <1>1, <1>7, <1>9 DEF Typing, ReqTypes
  <2>2. QED
    BY <1>8, <2>1 DEF Typing, ReqTypes, Members, ToSet
<1>11. ReqTypes'
  <2>1. reqs' \in Seq(Requests)
    BY <1>1, <1>9 DEF Typing, ReqTypes
  <2>2. \A k \in DOMAIN reqs' : Whole(reqs'[k])
    BY <1>10
  <2>3. QED
    BY <2>1, <2>2 DEF ReqTypes, Whole
<1>12. ASSUME NEW r \in Members' PROVE Known(r)' /\ Working(r)' /\ Boxed(r)'
  <2>1. r \in Members \/ \E i \in DOMAIN rows : r = Completion(rows[i])
    BY <1>10 DEF Members, ToSet
  <2>2. Working(r)'
    BY <1>4 DEF Working
  <2>3. CASE r \in Members
    <3>1. r \in Requests /\ Known(r) /\ Boxed(r)
      BY <2>3, MemberIs
    <3>2. r.mount <= page'.mount /\ r.view <= inputs'
      BY <1>2, <1>3, <3>1 DEF Requests, Known
    <3>3. Known(r)'
      BY <1>1, <1>4, <3>1, <3>2 DEF Known, Right, Stored, InInbox
    <3>4. Boxed(r)'
      BY <1>1, <1>4, <3>1 DEF Boxed
    <3>5. QED
      BY <2>2, <3>3, <3>4
  <2>4. CASE \E i \in DOMAIN rows : r = Completion(rows[i])
    <3>1. /\ r.kind = "complete" /\ r.mount = page.mount /\ r.stage = "sent"
          /\ r.view = Closed /\ r.prev = NoData /\ r.reply = NoData
      BY <1>8, <2>4
    <3>2. \A d \in Cards : NoData.known[d] = 0 /\ 0 <= db[d].ver
      BY NoDataIs DEF Typing, DbRows
    <3>3. Known(r)'
      BY <1>1, <1>2, <1>3, <1>4, <3>1, <3>2 DEF Known, Closed, Reads
    <3>4. Boxed(r)'
      BY <1>4, <3>1 DEF Boxed
    <3>5. QED
      BY <2>2, <3>3, <3>4
  <2>5. QED
    BY <2>1, <2>3, <2>4
<1>13. PageState'
  BY <1>1, <1>2, <1>3, <1>5 DEF Inv, PageState, Typing
<1>14. Listing' /\ ViewState'
  BY <1>3, <1>5 DEF Listing, ViewState, Closed
<1>15. owed' \in [Cards -> Int]
  <2> DEFINE sent(c) == Cardinality({i \in DOMAIN Flush : Flush[i].card = c})
  <2>1. \A c \in Cards : sent(c) \in Int
    BY FlushCounts DEF Typing
  <2>2. owed' = [c \in Cards |-> owed[c] - sent(c)]
    BY <1>1
  <2> HIDE DEF sent
  <2>3. QED
    BY <2>1, <2>2 DEF Typing
<1>16. PendingTypes'
  BY <1>1, FS_EmptySet DEF PendingTypes
<1>17. QED
  BY <1>1, <1>2, <1>3, <1>5, <1>11, <1>12, <1>13, <1>14, <1>15, <1>16 DEF Inv, Typing, PageTypes

-----------------------------------------------------------------------------
(* The server serves a request *)

\* A request that goes on as another, or in another stage.
Stands(q, r) ==
  /\ q.mount = r.mount /\ q.card = r.card /\ q.view = r.view
  /\ \/ q.kind = r.kind
     \/ q.kind = "snoozed" /\ r.kind = "snooze"
     \/ q.kind = "unsnoozed" /\ r.kind = "unsnooze"

\* What the page lists stays right while its requests are still there, in a later stage.
LEMMA ListingGoesOn ==
  ASSUME Typing, PageState, Listing, Later, page' = page, known' = known, mixed' = mixed,
         pending' = pending,
         \A r \in Members : OfThisPage(r) /\ r.kind \in Snoozes \cup {"complete"}
                              => \E p \in Members' : Stands(p, r)
  PROVE  Listing'
<1> SUFFICES ASSUME Settled', NEW c \in Cards
             PROVE  Out(Snoozes)' \/ IsPending(c)' \/ Finishing(c)' \/ Right(page.list, known, c)'
  BY DEF Listing
<1>1. Out(Snoozes) \/ IsPending(c) \/ Finishing(c) \/ Right(page.list, known, c)
  BY DEF Listing, Settled
<1>2. ASSUME Out(Snoozes) PROVE Out(Snoozes)'
  <2>1. PICK r \in Members : r.kind \in Snoozes /\ OfThisPage(r)
    BY <1>2 DEF Out
  <2>2. PICK p \in Members' : Stands(p, r)
    BY <2>1
  <2>3. p.kind \in Snoozes /\ OfThisPage(p)'
    BY <2>1, <2>2 DEF Stands, Snoozes, OfThisPage
  <2>4. QED
    BY <2>3 DEF Out
<1>3. ASSUME Finishing(c) PROVE Finishing(c)'
  <2>1. PICK r \in Members : r.kind = "complete" /\ OfThisPage(r) /\ r.card = c
    BY <1>3 DEF Finishing
  <2>2. PICK p \in Members' : Stands(p, r)
    BY <2>1
  <2>3. p.kind = "complete" /\ OfThisPage(p)' /\ p.card = c
    BY <2>1, <2>2 DEF Stands, OfThisPage
  <2>4. QED
    BY <2>3 DEF Finishing
<1>4. IsPending(c) => IsPending(c)'
  BY DEF IsPending
<1>5. Right(page.list, known, c) => Right(page.list, known, c)'
  <2>1. known[c] \in Nat /\ known[c] <= db[c].ver
    BY DEF Typing, Versions, PageState
  <2>2. QED
    BY <2>1 DEF Right, Later
<1>6. QED
  BY <1>1, <1>2, <1>3, <1>4, <1>5

\* The view shows what it showed, as long as no answer is lost to it.
LEMMA ViewStateGoesOn ==
  ASSUME Typing, ViewState, SameBoxes, view' = view, inputs' = inputs,
         \A r \in Members : Viewed(r) => \E p \in Members' : Stands(p, r)
  PROVE  ViewState'
<1>1. (\E r \in Members : Viewed(r)) => \E p \in Members' : Viewed(p)'
  BY DEF Viewed, Stands
<1>2. view.id # Closed => view.row.card \in Cards
  BY DEF Typing, CardRows
<1>3. view.id # Closed => /\ db'[view.row.card].sub = db[view.row.card].sub
                          /\ db'[view.row.card].subver = db[view.row.card].subver
  BY <1>2 DEF SameBoxes
<1>4. QED
  BY <1>1, <1>3 DEF ViewState

\* One request changes, and the page stays as it is.
LEMMA ServedKeeps ==
  ASSUME Typing, Inv, NEW i \in DOMAIN reqs, NEW q \in Requests, Whole(q),
         Stands(q, reqs[i]), reqs' = [reqs EXCEPT ![i] = q],
         UNCHANGED <<all, inputs, page, pending, view, toasts, known, mixed, owed>>,
         db' \in [Cards -> DbRows], Later, ViewState',
         \A a \in Others(i) : Boxed(a)', Known(q)', Working(q)', Boxed(q)'
  PROVE  Typing' /\ Inv'
<1>1. ReqTypes' /\ Members' = Others(i) \cup {q} /\ GoesOn /\ ViewGoesOn
  BY ChangedIs DEF Typing, GoesOn, ViewGoesOn
<1>2. Members = Others(i) \cup {reqs[i]}
  BY MembersAre DEF Typing
<1>3. ASSUME NEW r \in Others(i) PROVE Known(r)' /\ Working(r)'
  <2>1. r \in Requests /\ Whole(r) /\ Known(r) /\ Working(r)
    BY <1>2, MemberIs
  <2>2. Known(r)'
    BY <1>1, <2>1, KnownLasts DEF Typing, PageTypes
  <2>3. Spares(r)
    <3>1. OfThisPage(r) /\ r.kind \in SnoozeKinds \cup {"complete"} => page.phase = "ready"
      BY <2>1 DEF Known, SnoozeKinds, Snoozes
    <3>2. QED
      BY <2>1, <3>1 DEF Spares, Working, Settled, IsPending, Hidden
  <2>4. Working(r)'
    BY <1>1, <2>1, <2>3, WorkingLasts DEF Typing, Inv, PageState
  <2>5. QED
    BY <2>2, <2>4
<1>4. \A a, b : Rivals(a, b)' => Rivals(a, b)
  BY <1>1, RivalsLast DEF Typing
<1>5. ASSUME NEW a \in Others(i) PROVE ~Rivals(a, q)' /\ ~Rivals(q, a)'
  <2>1. ~Rivals(a, reqs[i]) /\ ~Rivals(reqs[i], a)
    BY OthersAre DEF Typing, Inv
  <2>2. PICK r : r = reqs[i]
    OBVIOUS
  <2>3. (Rivals(a, q) => Rivals(a, r)) /\ (Rivals(q, a) => Rivals(r, a))
    <3>1. PageRivals(a, q) => PageRivals(a, r)
      BY <2>2 DEF Stands, PageRivals, OfThisPage, SnoozeKinds, Snoozes
    <3>2. PageRivals(q, a) => PageRivals(r, a)
      BY <2>2 DEF Stands, PageRivals, OfThisPage, SnoozeKinds, Snoozes
    <3>3. (ViewRivals(a, q) => ViewRivals(a, r)) /\ (ViewRivals(q, a) => ViewRivals(r, a))
      BY <2>2 DEF Stands, ViewRivals, Viewed
    <3>4. QED
      BY <3>1, <3>2, <3>3 DEF Rivals
  <2>4. QED
    BY <1>4, <2>1, <2>2, <2>3
<1>6. Apart'
  BY <1>4, <1>5, ApartChanged DEF Typing, Inv
<1>7. PageState'
  BY <1>1, PageStateLasts DEF Inv, Typing
<1>8. Listing'
  <2>1. \A r \in Members : \E p \in Members' : Stands(p, r)
    BY <1>1, <1>2 DEF Stands
  <2>2. QED
    BY <2>1, ListingGoesOn DEF Inv
<1>9. QED
  BY <1>1, <1>3, <1>6, <1>7, <1>8 DEF Inv, Typing, PageTypes, PendingTypes

\* A request that was served is what it was, but for its answer.
Same(q, r) ==
  /\ q.kind = r.kind /\ q.mount = r.mount /\ q.card = r.card /\ q.view = r.view
  /\ q.row = r.row /\ q.prev = r.prev

\* The server answers a request: what is claimed of it, of the answer.
LEMMA ServedClaims ==
  ASSUME Typing, Inv, NEW r \in Members, NEW q \in Requests, Same(q, r), r.stage = "sent",
         UNCHANGED <<all, inputs, page, pending, known, mixed>>, Later,
         q.kind # "detail" => \A c \in Cards : q.reply.known[c] <= db'[c].ver,
         q.kind \in Reads /\ q.stage = "ok" =>
           \A c \in Cards : Right(q.reply.list, q.reply.known, c)',
         q.kind = "complete" /\ q.stage = "ok" =>
           /\ q.reply.known[q.card] = db'[q.card].ver /\ db'[q.card].done
           /\ db[q.card].ver < db'[q.card].ver
  PROVE  Whole(q) /\ Stands(q, r) /\ Known(q)' /\ Working(q)'
<1>1. r \in Requests /\ Whole(r) /\ Known(r) /\ Working(r)
  BY MemberIs
<1>2. Whole(q) /\ Stands(q, r)
  BY <1>1 DEF Same, Whole, Stands
<1>3. GoesOn /\ inputs \in Nat /\ page.mount \in Nat /\ mixed \in BOOLEAN /\ known \in Versions
      /\ \A c \in Cards : known[c] <= db[c].ver
  BY DEF GoesOn, Typing, PageTypes, Inv, PageState
<1>4. Known(r)'
  BY <1>1, <1>3, KnownLasts
<1>5. Known(q)'
  BY <1>4 DEF Known, Same, OfThisPage
<1>6. Spares(r)
  <2>1. OfThisPage(r) /\ r.kind \in SnoozeKinds \cup {"complete"} => page.phase = "ready"
    BY <1>1 DEF Known, SnoozeKinds, Snoozes
  <2>2. QED
    BY <1>1, <2>1 DEF Spares, Working, Settled, IsPending, Hidden
<1>7. Working(r)'
  BY <1>1, <1>3, <1>6, WorkingLasts
<1>8. Working(q)'
  <2> SUFFICES ASSUME Settled', OfThisPage(q)'
               PROVE  /\ q.kind \in SnoozeKinds => pending' = {}
                      /\ q.kind \in Snoozes => \A c \in Cards : Right(q.prev.list, q.prev.known, c)'
                      /\ q.kind = "complete" => ~IsPending(q.card)' /\ Hidden(q.card)'
                                                /\ Completed(q)'
    BY DEF Working
  <2>1. OfThisPage(r)'
    BY DEF Same, OfThisPage
  <2>2. /\ q.kind \in SnoozeKinds => pending' = {}
        /\ q.kind \in Snoozes => \A c \in Cards : Right(q.prev.list, q.prev.known, c)'
    BY <1>7, <2>1 DEF Working, Same
  <2>3. ASSUME q.kind = "complete"
        PROVE  ~IsPending(q.card)' /\ Hidden(q.card)' /\ Completed(q)'
    <3>1. ~IsPending(q.card)' /\ Hidden(q.card)' /\ Completed(r)'
      BY <1>7, <2>1, <2>3 DEF Working, Same
    <3>2. CASE q.stage = "ok"
      <4>1. q.card \in Cards /\ known[q.card] \in Nat /\ db[q.card].ver \in Nat
        BY <1>2, <1>3, <2>3 DEF Whole, Versions, Later
      <4>2. known[q.card] < db'[q.card].ver
        BY <1>3, <2>3, <3>2, <4>1 DEF Later
      <4>3. Completed(q)'
        BY <2>3, <3>2, <4>2 DEF Completed
      <4>4. QED
        BY <3>1, <4>3
    <3>3. CASE q.stage # "ok"
      BY <3>1, <3>3 DEF Completed, Same
    <3>4. QED
      BY <3>2, <3>3
  <2>4. QED
    BY <2>2, <2>3
<1>9. QED
  BY <1>2, <1>5, <1>8

\* What stays when a request is served.
Serving == UNCHANGED <<all, inputs, page, pending, view, toasts, known, mixed, owed>>

\* The boxes of the others, and the view, when no box is written.
LEMMA UnwrittenIs ==
  ASSUME Typing, Inv, Serving, SameBoxes, NEW i \in DOMAIN reqs, NEW q \in Requests,
         Stands(q, reqs[i]), Whole(q), reqs' = [reqs EXCEPT ![i] = q]
  PROVE  /\ \A a \in Others(i) : Boxed(a)'
         /\ ViewState'
         /\ q.kind \notin ViewKinds => Boxed(q)'
<1>1. Members' = Others(i) \cup {q} /\ Members = Others(i) \cup {reqs[i]}
  BY ChangedIs, MembersAre DEF Typing
<1>2. ViewGoesOn
  BY DEF Serving, ViewGoesOn
<1>3. ASSUME NEW a \in Others(i) PROVE Boxed(a)'
  <2>1. a \in Requests /\ Whole(a) /\ Boxed(a)
    BY <1>1, MemberIs
  <2>2. QED
    BY <1>2, <2>1, BoxedLasts
<1>4. ViewState'
  <2>1. \A r \in Members : \E p \in Members' : Stands(p, r)
    BY <1>1 DEF Stands
  <2>2. QED
    BY <2>1, ViewStateGoesOn DEF Inv, Serving
<1>5. q.kind \notin ViewKinds => Boxed(q)'
  BY DEF Boxed, Whole, Viewed, Serving, ViewKinds
<1>6. QED
  BY <1>3, <1>4, <1>5

\* The server does what a row's request asks.
LEMMA ServeWrites ==
  ASSUME Typing, Inv, Serving, NEW i \in DOMAIN reqs, reqs[i].stage = "sent",
         reqs[i].kind \in {"complete", "snooze", "unsnooze"}, NEW c, c = reqs[i].card,
         NEW row \in DbRows, row.ver = db[c].ver, row.sub = db[c].sub,
         row.subver = db[c].subver, reqs[i].kind = "complete" => row.done,
         db' = Wrote(c, row),
         reqs' = [reqs EXCEPT ![i].stage = "ok", ![i].reply.known[c] = db[c].ver + 1]
  PROVE  Typing' /\ Inv'
<1>1. PICK r \in Members : r = reqs[i]
  BY DEF Members, ToSet
<1>2. r \in Requests /\ Whole(r) /\ Known(r) /\ c \in Cards /\ c = r.card
  <2>1. r \in Requests /\ Whole(r) /\ Known(r)
    BY MemberIs
  <2>2. QED
    BY <1>1, <2>1 DEF Whole
<1>3. PICK q : q = [r EXCEPT !.stage = "ok", !.reply.known[c] = db[c].ver + 1]
  OBVIOUS
<1>4. reqs' = [reqs EXCEPT ![i] = q]
  BY <1>1, <1>3
<1>5. db[c].ver \in Nat /\ db[c].ver + 1 \in Nat
  BY <1>2 DEF Typing, DbRows
<1>6. /\ q \in Requests /\ Same(q, r) /\ q.stage = "ok" /\ q.reply.known[c] = db[c].ver + 1
      /\ \A d \in Cards : d # c => q.reply.known[d] = r.reply.known[d]
  BY <1>2, <1>3, <1>5 DEF Requests, Same, Datas, Versions
<1>7. /\ db' \in [Cards -> DbRows] /\ Later /\ SameBoxes
      /\ db'[c] = [row EXCEPT !.ver = @ + 1]
  BY <1>2, WroteIs DEF Typing, Serving
<1>8. db'[c].ver = db[c].ver + 1 /\ (r.kind = "complete" => db'[c].done)
  BY <1>1, <1>7 DEF DbRows
<1>9. \A d \in Cards : q.reply.known[d] <= db'[d].ver
  <2>1. ASSUME NEW d \in Cards, d # c PROVE r.reply.known[d] <= db'[d].ver
    <3>1. r.reply.known[d] \in Nat /\ r.reply.known[d] <= db[d].ver
      BY <1>1, <1>2 DEF Requests, Datas, Versions, Known
    <3>2. QED
      BY <1>7, <3>1 DEF Later
  <2>2. db[c].ver + 1 <= db'[c].ver
    BY <1>5, <1>8
  <2>3. QED
    BY <1>6, <2>1, <2>2
<1>10. Whole(q) /\ Stands(q, r) /\ Known(q)' /\ Working(q)'
  <2>1. q.kind \notin Reads /\ q.kind = r.kind /\ q.card = c
    BY <1>1, <1>2, <1>6 DEF Same, Reads
  <2>2. q.kind = "complete" =>
          /\ q.reply.known[q.card] = db'[q.card].ver /\ db'[q.card].done
          /\ db[q.card].ver < db'[q.card].ver
    BY <1>5, <1>6, <1>8, <2>1
  <2>3. QED
    BY <1>1, <1>6, <1>7, <1>9, <2>1, <2>2, ServedClaims DEF Serving
<1>11. (\A a \in Others(i) : Boxed(a)') /\ ViewState' /\ Boxed(q)'
  <2>1. q.kind \notin ViewKinds
    BY <1>1, <1>6 DEF Same, ViewKinds
  <2>2. QED
    BY <1>1, <1>4, <1>6, <1>7, <1>10, <2>1, UnwrittenIs
<1>12. QED
  BY <1>1, <1>4, <1>6, <1>7, <1>10, <1>11, ServedKeeps DEF Serving

\* The server refuses it, or reads for it.
LEMMA ServeAnswers ==
  ASSUME Typing, Inv, Serving, db' = db, NEW i \in DOMAIN reqs, reqs[i].stage = "sent",
         NEW q \in Requests, Same(q, reqs[i]), reqs' = [reqs EXCEPT ![i] = q],
         \/ q.stage = "refused" /\ q.kind \notin ViewKinds /\ q.reply = reqs[i].reply
         \/ q.stage = "ok" /\ q.kind \in Reads /\ q.reply = Inbox
         \/ /\ q.stage = "ok" /\ q.kind = "detail" /\ q.value = db[q.card].sub
            /\ q.reply.known[q.card] = db[q.card].subver
  PROVE  Typing' /\ Inv'
<1>1. PICK r \in Members : r = reqs[i]
  BY DEF Members, ToSet
<1>2. r \in Requests /\ Whole(r) /\ Known(r) /\ Boxed(r)
  BY MemberIs
<1>3. Later /\ SameBoxes
  BY SameDb DEF Typing, Serving
<1>4. \A c \in Cards : db[c].ver \in Nat /\ db[c].subver \in Nat
  BY DEF Typing, DbRows
<1>5. q.kind # "detail" => \A c \in Cards : q.reply.known[c] <= db'[c].ver
  BY <1>1, <1>2, <1>4, InboxIs DEF Typing, Known, Same
<1>6. q.kind \in Reads /\ q.stage = "ok" => \A c \in Cards : Right(q.reply.list, q.reply.known, c)'
  BY InboxIs DEF Typing, Right, Stored, InInbox, Serving, Reads
<1>7. Whole(q) /\ Stands(q, r) /\ Known(q)' /\ Working(q)'
  <2>1. ~(q.kind = "complete" /\ q.stage = "ok")
    BY DEF Reads
  <2>2. QED
    BY <1>1, <1>3, <1>5, <1>6, <2>1, ServedClaims DEF Serving
<1>8. (\A a \in Others(i) : Boxed(a)') /\ ViewState' /\ (q.kind \notin ViewKinds => Boxed(q)')
  BY <1>1, <1>3, <1>7, UnwrittenIs
<1>9. Boxed(q)'
  <2>1. CASE q.kind \notin ViewKinds
    BY <1>8, <2>1
  <2>2. CASE q.kind \in ViewKinds
    <3>1. /\ q.stage = "ok" /\ q.kind = "detail" /\ q.value = db[q.card].sub
          /\ q.reply.known[q.card] = db[q.card].subver
      BY <2>2 DEF ViewKinds, Reads
    <3>2. q.card \in Cards /\ db[q.card].subver \in Nat
      BY <1>4, <1>7, <3>1 DEF Whole
    <3>3. Viewed(q)' => /\ q.card = view.row.card /\ view.state = "loading"
      BY <1>1, <1>2, <3>1 DEF Boxed, Viewed, Same, Serving
    <3>4. QED
      BY <3>1, <3>2, <3>3 DEF Boxed, Serving
  <2>3. QED
    BY <2>1, <2>2
<1>10. db' \in [Cards -> DbRows]
  BY DEF Typing
<1>11. QED
  BY <1>1, <1>3, <1>7, <1>8, <1>9, <1>10, ServedKeeps DEF Serving

\* The server writes a box: what was claimed of older writes is over.
LEMMA ServeToggles ==
  ASSUME Typing, Inv, Serving, NEW i \in DOMAIN reqs, reqs[i].stage = "sent",
         reqs[i].kind = "toggle", NEW q \in Requests, Same(q, reqs[i]), q.stage = "ok",
         q.value = reqs[i].value, q.reply = reqs[i].reply, reqs' = [reqs EXCEPT ![i] = q],
         db' = [db EXCEPT ![q.card].sub = q.value, ![q.card].subver = @ + 1]
  PROVE  Typing' /\ Inv'
<1> DEFINE c == q.card
<1>1. PICK r \in Members : r = reqs[i]
  BY DEF Members, ToSet
<1>2. /\ r \in Requests /\ Whole(r) /\ Known(r) /\ Boxed(r) /\ Same(q, r)
      /\ q.kind = "toggle" /\ c \in Cards /\ r.card = c /\ r.view = q.view
      /\ c = reqs[i].card /\ q.value \in BOOLEAN /\ r.kind = "toggle" /\ r.value = q.value
  <2>1. r \in Requests /\ Whole(r) /\ Known(r) /\ Boxed(r)
    BY MemberIs
  <2>2. QED
    BY <1>1, <2>1 DEF Whole, Same, Requests
<1>3. /\ db' \in [Cards -> DbRows]
      /\ \A d \in Cards : d # c => db'[d] = db[d]
      /\ db'[c].sub = q.value /\ db'[c].subver = db[c].subver + 1
      /\ db'[c].ver = db[c].ver /\ db'[c].done = db[c].done /\ db'[c].due = db[c].due
      /\ db'[c].holder = db[c].holder
  BY <1>2 DEF Typing, DbRows
<1>4. \A d \in Cards : db[d].ver \in Nat /\ db[d].subver \in Nat
  BY DEF Typing, DbRows
<1>5. Later
  <2> SUFFICES ASSUME NEW d \in Cards
               PROVE  /\ db[d].ver <= db'[d].ver /\ db[d].ver \in Nat /\ db'[d].ver \in Nat
                      /\ Stored(d)' = Stored(d) /\ db'[d].done = db[d].done
    BY DEF Later
  <2>1. /\ db'[d].ver = db[d].ver /\ db'[d].done = db[d].done
        /\ db'[d].due = db[d].due /\ db'[d].holder = db[d].holder
    BY <1>3
  <2>2. Stored(d)' = Stored(d)
    BY <2>1 DEF Stored, InInbox, Serving
  <2>3. QED
    BY <1>4, <2>1, <2>2
<1>6. \A d \in Cards : db[d].subver <= db'[d].subver
  BY <1>3, <1>4
<1>7. Whole(q) /\ Stands(q, r) /\ Known(q)' /\ Working(q)'
  <2>1. \A d \in Cards : q.reply.known[d] <= db'[d].ver
    BY <1>1, <1>2, <1>3 DEF Known
  <2>2. q.kind \notin Reads /\ q.kind # "complete"
    BY <1>2 DEF Reads
  <2>3. QED
    BY <1>1, <1>2, <1>5, <2>1, <2>2, ServedClaims DEF Serving
<1>8. \A a : Viewed(a)' <=> Viewed(a)
  BY DEF Viewed, Serving
<1>9. view.id # Closed /\ view.state = "shown" /\ ~view.muddled =>
        view.known <= db[view.row.card].subver /\ view.known \in Nat /\ view.row.card \in Cards
  BY DEF Inv, ViewState, Typing, Views, CardRows
<1>10. Members' = Others(i) \cup {q} /\ Members = Others(i) \cup {r}
  BY <1>1, <1>7, ChangedIs, MembersAre DEF Typing
<1>11. ASSUME NEW a \in Others(i) PROVE Boxed(a)'
  <2>1. a \in Requests /\ Whole(a) /\ Boxed(a)
    BY <1>10, MemberIs
  <2>2. ASSUME a.kind = "detail"
        PROVE  /\ a.reply.known[a.card] <= db'[a.card].subver
               /\ a.stage = "ok" /\ a.reply.known[a.card] = db'[a.card].subver =>
                    a.value = db'[a.card].sub
    <3>1. a.card \in Cards /\ a.reply.known[a.card] \in Nat
          /\ a.reply.known[a.card] <= db[a.card].subver
      BY <2>1, <2>2 DEF Whole, Boxed, Requests, Datas, Versions
    <3>2. CASE a.card = c
      BY <1>3, <1>4, <3>1, <3>2
    <3>3. CASE a.card # c
      BY <1>3, <2>1, <2>2, <3>1, <3>3 DEF Boxed
    <3>4. QED
      BY <3>2, <3>3
  <2>3. ASSUME Viewed(a)
        PROVE  /\ a.card = view.row.card
               /\ view.state = IF a.kind = "detail" THEN "loading" ELSE "shown"
    BY <2>1, <2>3 DEF Boxed
  <2>4. ASSUME Viewed(a), a.kind = "toggle", ~view.muddled PROVE Toggled(a)'
    <3>1. Toggled(a) /\ a.card = view.row.card /\ view.state = "shown" /\ view.id # Closed
      BY <2>1, <2>4 DEF Boxed, Viewed
    <3>2. a.card \in Cards /\ view.known \in Nat /\ view.known <= db[a.card].subver
      BY <1>9, <2>4, <3>1
    <3>3. CASE a.card = c
      BY <1>3, <1>4, <3>1, <3>2, <3>3 DEF Toggled, Serving
    <3>4. CASE a.card # c
      BY <1>3, <3>1, <3>2, <3>4 DEF Toggled, Serving
    <3>5. QED
      BY <3>3, <3>4
  <2>5. QED
    BY <1>8, <2>2, <2>3, <2>4 DEF Boxed, Serving
<1>12. Boxed(q)'
  <2> SUFFICES ASSUME Viewed(q)
               PROVE  /\ q.card = view.row.card /\ view.state = "shown"
                      /\ ~view.muddled => Toggled(q)'
    BY <1>2, <1>8 DEF Boxed, Serving
  <2>1. Viewed(r) /\ r.card = view.row.card /\ view.state = "shown" /\ view.id # Closed
        /\ (~view.muddled => Toggled(r))
    BY <1>2 DEF Boxed, Viewed
  <2>2. ASSUME ~view.muddled PROVE Toggled(q)'
    <3>1. view.known \in Nat /\ view.known <= db[c].subver /\ q.value = view.sub
      BY <1>2, <1>9, <2>1, <2>2 DEF Toggled
    <3>2. QED
      BY <1>2, <1>3, <1>4, <3>1 DEF Toggled, Serving
  <2>3. QED
    BY <1>2, <2>1, <2>2
<1>13. ViewState'
  <2>1. view.id <= inputs
    BY DEF Inv, ViewState
  <2>2. ASSUME view.id # Closed, view.state = "shown", ~view.muddled
        PROVE  /\ view.known <= db'[view.row.card].subver
               /\ ~(\E a \in Members' : Viewed(a)) /\ view.known = db'[view.row.card].subver
                    => view.sub = db'[view.row.card].sub
    <3>1. /\ view.row.card \in Cards /\ view.known \in Nat
          /\ view.known <= db[view.row.card].subver
      BY <1>9, <2>2
    <3>2. CASE view.row.card = c
      BY <1>3, <1>4, <3>1, <3>2
    <3>3. CASE view.row.card # c
      <4>1. (\E a \in Members : Viewed(a)) => \E a \in Members' : Viewed(a)
        BY <1>2, <1>10 DEF Viewed
      <4>2. QED
        BY <1>3, <2>2, <3>1, <3>3, <4>1 DEF Inv, ViewState
    <3>4. QED
      BY <3>2, <3>3
  <2>3. QED
    BY <1>8, <2>1, <2>2 DEF ViewState, Serving
<1>14. QED
  BY <1>1, <1>3, <1>5, <1>7, <1>11, <1>12, <1>13, ServedKeeps DEF Serving

\* Serve is one of these.
LEMMA ServeKeeps ==
  ASSUME Typing, Inv, NEW i \in DOMAIN reqs, Serve(i) PROVE Typing' /\ Inv'
<1> DEFINE c == reqs[i].card
           done == [reqs EXCEPT ![i].stage = "ok", ![i].reply.known[c] = db[c].ver + 1]
           refused == [reqs EXCEPT ![i].stage = "refused"]
<1>1. PICK r \in Members : r = reqs[i]
  BY DEF Members, ToSet
<1>2. r \in Requests /\ Whole(r) /\ r.stage = "sent" /\ Serving
  <2>1. r \in Requests /\ Whole(r)
    BY MemberIs
  <2>2. QED
    BY <1>1, <2>1 DEF Serve, Serving, NoInput, history
<1>3. ASSUME r.kind \in {"complete", "snooze", "unsnooze"}, reqs' = refused, db' = db
      PROVE  Typing' /\ Inv'
  <2>1. PICK q : q = [r EXCEPT !.stage = "refused"]
    OBVIOUS
  <2>2. /\ q \in Requests /\ Same(q, r) /\ q.stage = "refused" /\ q.reply = r.reply
        /\ reqs' = [reqs EXCEPT ![i] = q]
    BY <1>1, <1>2, <1>3, <2>1 DEF Requests, Same
  <2>3. q.kind \notin ViewKinds
    BY <1>3, <2>2 DEF Same, ViewKinds
  <2>4. QED
    BY <1>1, <1>2, <1>3, <2>2, <2>3, ServeAnswers
<1>4. ASSUME r.kind \in {"complete", "snooze", "unsnooze"}, reqs' = done,
             NEW row \in DbRows, row.ver = db[c].ver, row.sub = db[c].sub,
             row.subver = db[c].subver, r.kind = "complete" => row.done, db' = Wrote(c, row)
      PROVE  Typing' /\ Inv'
  BY <1>1, <1>2, <1>4, ServeWrites
<1>5. r.kind \in {"complete", "snooze", "unsnooze", "toggle", "detail"} =>
        c \in Cards /\ db[c] \in DbRows
  BY <1>1, <1>2 DEF Whole, Typing
<1>6. CASE r.kind = "complete"
  <2>1. CASE reqs' = refused /\ db' = db
    BY <1>3, <1>6, <2>1
  <2>2. CASE reqs' = done /\ db' = Wrote(c, [db[c] EXCEPT !.done = TRUE])
    <3>1. PICK row : row = [db[c] EXCEPT !.done = TRUE]
      OBVIOUS
    <3>2. row \in DbRows /\ row.ver = db[c].ver /\ row.sub = db[c].sub
          /\ row.subver = db[c].subver /\ row.done
      BY <1>5, <1>6, <3>1 DEF DbRows
    <3> HIDE DEF c, done
    <3>3. QED
      BY <1>4, <1>6, <2>2, <3>1, <3>2
  <2>3. QED
    BY <1>1, <1>6, <2>1, <2>2 DEF Serve, Reads
<1>7. CASE r.kind \in {"snooze", "unsnooze"}
  <2>1. CASE reqs' = refused /\ db' = db
    BY <1>3, <1>7, <2>1
  <2>2. CASE reqs' = done /\ db' = Wrote(c, [db[c] EXCEPT !.due = reqs[i].due])
    <3>1. PICK row : row = [db[c] EXCEPT !.due = reqs[i].due]
      OBVIOUS
    <3>2. row \in DbRows /\ row.ver = db[c].ver /\ row.sub = db[c].sub
          /\ row.subver = db[c].subver
      BY <1>1, <1>2, <1>5, <1>7, <3>1 DEF DbRows, Requests
    <3> HIDE DEF c, done
    <3>3. QED
      BY <1>4, <1>7, <2>2, <3>1, <3>2
  <2>3. QED
    BY <1>1, <1>7, <2>1, <2>2 DEF Serve, Reads
<1>8. CASE r.kind \in Reads
  <2>1. reqs' = [reqs EXCEPT ![i].stage = "ok", ![i].reply = Inbox] /\ db' = db
    BY <1>1, <1>8 DEF Serve, Reads
  <2>2. PICK q : q = [r EXCEPT !.stage = "ok", !.reply = Inbox]
    OBVIOUS
  <2>3. /\ q \in Requests /\ Same(q, r) /\ q.stage = "ok" /\ q.reply = Inbox
        /\ reqs' = [reqs EXCEPT ![i] = q]
    BY <1>1, <1>2, <2>1, <2>2, InboxIs DEF Requests, Same, Typing
  <2>4. QED
    BY <1>1, <1>2, <1>8, <2>1, <2>3, ServeAnswers DEF Same
<1>9. CASE r.kind = "toggle"
  <2>1. /\ reqs' = [reqs EXCEPT ![i].stage = "ok"]
        /\ db' = [db EXCEPT ![c].sub = reqs[i].value, ![c].subver = @ + 1]
    BY <1>1, <1>9 DEF Serve, Reads
  <2>2. PICK q : q = [r EXCEPT !.stage = "ok"]
    OBVIOUS
  <2>3. /\ q \in Requests /\ Same(q, r) /\ q.stage = "ok" /\ q.reply = r.reply
        /\ q.value = r.value /\ reqs' = [reqs EXCEPT ![i] = q] /\ q.card = c
    BY <1>1, <1>2, <2>1, <2>2 DEF Requests, Same
  <2>4. db' = [db EXCEPT ![q.card].sub = q.value, ![q.card].subver = @ + 1]
    BY <1>1, <2>1, <2>3
  <2>5. QED
    BY <1>1, <1>2, <1>9, <2>3, <2>4, ServeToggles
<1>10. CASE r.kind = "detail"
  <2>1. /\ reqs' = [reqs EXCEPT ![i].stage = "ok", ![i].value = db[c].sub,
                                ![i].reply.known[c] = db[c].subver]
        /\ db' = db
    BY <1>1, <1>10 DEF Serve, Reads
  <2>2. PICK q : q = [r EXCEPT !.stage = "ok", !.value = db[c].sub,
                               !.reply.known[c] = db[c].subver]
    OBVIOUS
  <2>3. reqs' = [reqs EXCEPT ![i] = q]
    BY <1>1, <2>1, <2>2
  <2>4. db[c].sub \in BOOLEAN /\ db[c].subver \in Nat /\ c \in Cards
    BY <1>5, <1>10 DEF DbRows
  <2>5. /\ q \in Requests /\ Same(q, r) /\ q.stage = "ok" /\ q.value = db[c].sub
        /\ q.reply.known[c] = db[c].subver /\ q.card = c /\ q.kind = "detail"
    BY <1>1, <1>2, <1>10, <2>2, <2>4 DEF Requests, Same, Datas, Versions
  <2>6. QED
    BY <1>1, <1>2, <2>1, <2>3, <2>5, ServeAnswers
<1>11. QED
  BY <1>1, <1>6, <1>7, <1>8, <1>9, <1>10 DEF Serve

-----------------------------------------------------------------------------
(* The tab gets an answer *)

\* Of another request than the one answered, and that it rivals none.
LEMMA OtherIs ==
  ASSUME Typing, Inv, NEW i \in DOMAIN reqs, NEW r, r = reqs[i], NEW a \in Others(i)
  PROVE  /\ a \in Members /\ a \in Requests /\ Whole(a)
         /\ Known(a) /\ Working(a) /\ Boxed(a)
         /\ ~Rivals(a, r) /\ ~Rivals(r, a)
<1>1. a \in Members
  BY MembersAre DEF Typing
<1>2. ~Rivals(a, reqs[i]) /\ ~Rivals(reqs[i], a)
  BY OthersAre DEF Typing, Inv
<1>3. QED
  BY <1>1, <1>2, MemberIs

\* A request that is away: what is claimed of the others goes on.
LEMMA AwayRequests ==
  ASSUME Typing, Inv, NEW i \in DOMAIN reqs, reqs' = Away(i),
         \A a, b \in Others(i) : Rivals(a, b)' => Rivals(a, b),
         \A a \in Others(i) : Known(a)' /\ Working(a)' /\ Boxed(a)'
  PROVE  /\ ReqTypes' /\ Members' = Others(i) /\ Apart'
         /\ \A a \in Members' : Known(a)' /\ Working(a)' /\ Boxed(a)'
<1>1. ReqTypes' /\ Members' = Others(i)
  BY AwayIs DEF Typing
<1>2. Apart'
  BY ApartAway DEF Typing, Inv
<1>3. QED
  BY <1>1, <1>2

\* The page has one number, and a version that it knows is not to come.
LEMMA AnsweredComplete ==
  ASSUME Typing, Inv, NEW i \in DOMAIN reqs, NEW r \in Members, r = reqs[i],
         r.kind = "complete", r.stage = "ok", reqs' = Away(i),
         IF OfThisPage(r)
         THEN known' = [known EXCEPT ![r.card] =
                IF @ + 1 = r.reply.known[r.card] THEN @ + 1 ELSE @]
         ELSE known' = known,
         UNCHANGED <<db, all, inputs, page, pending, view, toasts, mixed, owed>>
  PROVE  Typing' /\ Inv'
<1> DEFINE c == r.card
<1>1. /\ r \in Requests /\ Whole(r) /\ Known(r) /\ Working(r) /\ c \in Cards
      /\ r.reply.known[c] \in Nat /\ r.reply.known[c] <= db[c].ver
  <2>1. r \in Requests /\ Whole(r) /\ Known(r) /\ Working(r)
    BY MemberIs
  <2>2. QED
    BY <2>1 DEF Whole, Requests, Datas, Versions, Known
<1>2. /\ Later /\ SameBoxes /\ GoesOn /\ ViewGoesOn /\ inputs \in Nat /\ page.mount \in Nat
      /\ mixed \in BOOLEAN /\ \A d \in Cards : known[d] <= db[d].ver /\ known[d] \in Nat
  BY SameDb DEF GoesOn, ViewGoesOn, Typing, PageTypes, Inv, PageState, Versions
<1>3. /\ known' \in Versions /\ \A d \in Cards : known'[d] <= db'[d].ver
      /\ \A d \in Cards : d # c \/ ~OfThisPage(r) => known'[d] = known[d]
      /\ known'[c] \in {known[c], r.reply.known[c]}
      /\ OfThisPage(r) /\ known[c] + 1 = r.reply.known[c] => known'[c] = r.reply.known[c]
      /\ OfThisPage(r) /\ known[c] + 1 # r.reply.known[c] => known'[c] = known[c]
  BY <1>1, <1>2 DEF Typing, Versions
<1>4. ASSUME NEW a \in Others(i) PROVE Known(a)' /\ Working(a)' /\ Boxed(a)'
  <2>1. a \in Requests /\ Whole(a) /\ Known(a) /\ Working(a) /\ Boxed(a) /\ ~Rivals(a, r)
    BY OtherIs
  <2>2. Known(a)'
    BY <1>2, <2>1, KnownLasts
  <2>3. Spares(a)
    <3> SUFFICES ASSUME ~mixed, OfThisPage(a)
                 PROVE  /\ a.kind \in SnoozeKinds => pending' = {}
                        /\ a.kind = "complete" => ~IsPending(a.card)' /\ Hidden(a.card)'
                                                  /\ known'[a.card] = known[a.card]
      BY DEF Spares
    <3>1. a.kind \in SnoozeKinds \cup {"complete"} => Settled
      BY <2>1 DEF Known, SnoozeKinds, Snoozes, Settled
    <3>2. a.kind = "complete" => a.card \in Cards /\ (a.card # c \/ ~OfThisPage(r))
      BY <2>1 DEF Rivals, PageRivals, Whole
    <3>3. QED
      BY <1>3, <2>1, <3>1, <3>2 DEF Working, IsPending, Hidden
  <2>4. Working(a)'
    BY <1>2, <2>1, <2>3, WorkingLasts DEF Typing
  <2>5. Boxed(a)'
    BY <1>2, <2>1, BoxedLasts
  <2>6. QED
    BY <2>2, <2>4, <2>5
<1>5. /\ ReqTypes' /\ Members' = Others(i) /\ Apart' /\ Members = Others(i) \cup {r}
      /\ \A a \in Members' : Known(a)' /\ Working(a)' /\ Boxed(a)'
  <2>1. \A a, b \in Others(i) : Rivals(a, b)' => Rivals(a, b)
    BY <1>2, RivalsLast
  <2>2. QED
    BY <1>4, <2>1, AwayRequests, MembersAre DEF Typing
<1>6. ViewState'
  <2>1. ~Viewed(r)
    BY <1>1 DEF Whole, ViewKinds, Viewed
  <2>2. \A a \in Members : Viewed(a) => \E p \in Members' : Stands(p, a)
    BY <1>5, <2>1 DEF Stands
  <2>3. QED
    BY <1>2, <2>2, ViewStateGoesOn DEF Inv
<1>7. PageState'
  <2>1. ASSUME Settled', NEW p \in pending' PROVE Hidden(p.card)' /\ Listable(p)'
    <3>1. Hidden(p.card) /\ Listable(p) /\ p.card \in Cards
      BY <2>1 DEF Inv, PageState, Settled, Typing, PendingTypes, CardRows
    <3>2. p.card # c \/ ~OfThisPage(r)
      BY <1>1, <2>1 DEF Working, Settled, IsPending
    <3>3. QED
      BY <1>3, <3>1, <3>2 DEF Hidden, Listable, Stored, InInbox
  <2>2. QED
    BY <1>3, <2>1 DEF Inv, PageState
<1>8. Listing'
  <2> SUFFICES ASSUME Settled', NEW d \in Cards
               PROVE  Out(Snoozes)' \/ IsPending(d)' \/ Finishing(d)' \/ Right(page.list, known, d)'
    BY DEF Listing
  <2>1. Out(Snoozes) \/ IsPending(d) \/ Finishing(d) \/ Right(page.list, known, d)
    BY DEF Inv, Listing, Settled
  <2>2. Out(Snoozes) => Out(Snoozes)'
    BY <1>5 DEF Out, Snoozes, OfThisPage
  <2>3. IsPending(d) => IsPending(d)'
    BY DEF IsPending
  <2>4. CASE d # c \/ ~OfThisPage(r)
    <3>1. Finishing(d) => Finishing(d)'
      BY <1>5, <2>4 DEF Finishing, OfThisPage
    <3>2. Right(page.list, known, d) => Right(page.list, known, d)'
      BY <1>3, <2>4 DEF Right, Stored, InInbox
    <3>3. QED
      BY <2>1, <2>2, <2>3, <3>1, <3>2
  <2>5. CASE d = c /\ OfThisPage(r)
    <3>1. Hidden(c) /\ Completed(r)
      BY <1>1, <2>5 DEF Working, Settled
    <3>2. known[c] < r.reply.known[c] /\ (r.reply.known[c] = db[c].ver => db[c].done)
      BY <3>1 DEF Completed
    <3>3. ASSUME known'[c] = db'[c].ver PROVE db[c].done
      BY <1>1, <1>2, <1>3, <2>5, <3>2, <3>3
    <3>4. Right(page.list, known, c)'
      BY <3>1, <3>3 DEF Right, Hidden, Stored, InInbox
    <3>5. QED
      BY <2>5, <3>4
  <2>6. QED
    BY <2>4, <2>5
<1>9. QED
  BY <1>3, <1>5, <1>6, <1>7, <1>8 DEF Inv, Typing, PageTypes, PendingTypes

\* After the PATCH of a snooze, or of its undo, comes its GET.
LEMMA AnsweredSnooze ==
  ASSUME Typing, Inv, NEW i \in DOMAIN reqs, NEW r \in Members, r = reqs[i],
         r.kind \in {"snooze", "unsnooze"},
         reqs' = Then(i, IF r.kind = "snooze" THEN "snoozed" ELSE "unsnoozed"),
         UNCHANGED <<db, all, inputs, page, pending, view, toasts, known, mixed, owed>>
  PROVE  Typing' /\ Inv'
<1> DEFINE kind == IF r.kind = "snooze" THEN "snoozed" ELSE "unsnoozed"
<1>1. r \in Requests /\ Whole(r) /\ Known(r) /\ Working(r)
  BY MemberIs
<1>2. PICK q : q = [r EXCEPT !.kind = kind, !.stage = "sent"]
  OBVIOUS
<1>3. reqs' = [reqs EXCEPT ![i] = q]
  BY <1>2 DEF Then
<1>4. /\ kind \in Kinds /\ kind \in SnoozeKinds
      /\ (kind \in Snoozes => r.kind \in Snoozes) /\ r.kind \in SnoozeKinds
  BY DEF Kinds, SnoozeKinds, Snoozes
<1>5. /\ q \in Requests /\ q.kind = kind /\ q.stage = "sent" /\ q.mount = r.mount
      /\ q.card = r.card /\ q.view = r.view /\ q.prev = r.prev /\ q.reply = r.reply
  <2> HIDE DEF kind, Kinds
  <2>1. QED
    BY <1>1, <1>2, <1>4 DEF Requests
<1>6. Stands(q, r) /\ Whole(q)
  BY <1>1, <1>5 DEF Stands, Whole, ViewKinds
<1>7. Later /\ SameBoxes /\ Serving
  BY SameDb DEF Typing, Serving
<1>8. Known(q)'
  BY <1>1, <1>5 DEF Known, OfThisPage
<1>9. Working(q)'
  <2>1. \A d \in Cards : Right(r.prev.list, r.prev.known, d)
          => Right(q.prev.list, q.prev.known, d)'
    BY <1>5 DEF Right, Stored, InInbox
  <2>2. QED
    BY <1>1, <1>4, <1>5, <2>1 DEF Working, OfThisPage, Settled
<1>10. (\A a \in Others(i) : Boxed(a)') /\ ViewState' /\ Boxed(q)'
  <2>1. q.kind \notin ViewKinds
    BY <1>5 DEF ViewKinds
  <2>2. QED
    BY <1>3, <1>5, <1>6, <1>7, <2>1, UnwrittenIs
<1>11. db' \in [Cards -> DbRows]
  BY DEF Typing
<1>12. QED
  BY <1>3, <1>5, <1>6, <1>7, <1>8, <1>9, <1>10, <1>11, ServedKeeps

\* What stays when nothing of the page is answered.
Untouched == UNCHANGED <<db, all, inputs, page, pending, known, mixed, owed>>

\* The others still say what they said when one is answered.
LEMMA OthersGoOn ==
  ASSUME Typing, Inv, NEW i \in DOMAIN reqs, Untouched, NEW a \in Others(i)
  PROVE  Known(a)' /\ Working(a)'
<1>1. a \in Requests /\ Whole(a) /\ Known(a) /\ Working(a)
  <2>1. PICK r : r = reqs[i]
    OBVIOUS
  <2>2. QED
    BY <2>1, OtherIs
<1>2. /\ Later /\ GoesOn /\ inputs \in Nat /\ page.mount \in Nat /\ mixed \in BOOLEAN
      /\ known \in Versions /\ \A d \in Cards : known[d] <= db[d].ver
  BY SameDb DEF Untouched, GoesOn, Typing, PageTypes, Inv, PageState
<1>3. Known(a)'
  BY <1>1, <1>2, KnownLasts DEF Untouched
<1>4. Spares(a)
  <2>1. OfThisPage(a) /\ a.kind \in SnoozeKinds \cup {"complete"} => page.phase = "ready"
    BY <1>1 DEF Known, SnoozeKinds, Snoozes
  <2>2. QED
    BY <1>1, <2>1 DEF Spares, Working, Settled, IsPending, Hidden, Untouched
<1>5. Working(a)'
  BY <1>1, <1>2, <1>4, WorkingLasts DEF Untouched
<1>6. QED
  BY <1>3, <1>5

\* An answer that is not for this page, or not for the page's list.
LEMMA UntouchedKeeps ==
  ASSUME Typing, Inv, NEW i \in DOMAIN reqs, NEW r \in Members, r = reqs[i],
         OfThisPage(r) => r.kind \notin Snoozes \cup {"complete"},
         reqs' = Away(i), Untouched, toasts' \in SUBSET Toasts,
         \A t \in toasts' : t \in toasts \/ (t.mount = r.mount /\ ~OfThisPage(r)),
         view' \in Views, view'.id = view.id, view'.row = view.row,
         \A a \in Others(i) : Boxed(a)',
         \A a, b \in Others(i) : ViewRivals(a, b)' => ViewRivals(a, b), ViewState'
  PROVE  Typing' /\ Inv'
<1>1. \A a \in Others(i) : Known(a)' /\ Working(a)' /\ Boxed(a)'
  BY OthersGoOn
<1>2. \A a, b \in Others(i) : Rivals(a, b)' => Rivals(a, b)
  BY DEF Rivals, PageRivals, OfThisPage, Untouched
<1>3. /\ ReqTypes' /\ Members' = Others(i) /\ Apart' /\ Members = Others(i) \cup {r}
      /\ \A a \in Members' : Known(a)' /\ Working(a)' /\ Boxed(a)'
  BY <1>1, <1>2, AwayRequests, MembersAre DEF Typing
<1>4. Later
  BY SameDb DEF Typing, Untouched
<1>5. Listing'
  <2>1. \A a \in Members : OfThisPage(a) /\ a.kind \in Snoozes \cup {"complete"}
          => \E p \in Members' : Stands(p, a)
    BY <1>3 DEF Stands
  <2>2. QED
    BY <1>4, <2>1, ListingGoesOn DEF Inv, Untouched
<1>6. PageState'
  <2>1. \A t \in toasts' : t \in toasts \/ (t.mount = r.mount /\ r.mount <= page.mount
                                           /\ (page.phase # "left" => r.mount # page.mount))
    BY MemberIs DEF Known, OfThisPage
  <2>2. /\ \A t \in toasts' : t.mount <= page.mount
        /\ page.phase \in {"loading", "failed"} => \A t \in toasts' : t.mount # page.mount
    BY <2>1 DEF Inv, PageState
  <2>3. Settled' => \A p \in pending' : Hidden(p.card)' /\ Listable(p)'
    BY DEF Inv, PageState, Settled, Hidden, Listable, Stored, InInbox, Untouched
  <2>4. QED
    BY <2>2, <2>3 DEF Inv, PageState, Untouched
<1>7. QED
  BY <1>3, <1>5, <1>6 DEF Inv, Typing, PageTypes, PendingTypes, Untouched

\* The list of a GET is the page's.
LEMMA AnsweredRead ==
  ASSUME Typing, Inv, NEW i \in DOMAIN reqs, NEW r \in Members, r = reqs[i],
         r.kind \in Reads, r.stage = "ok", OfThisPage(r), reqs' = Away(i),
         toasts' \in SUBSET Toasts,
         \A t \in toasts' : t \in toasts \/ t.mount = r.mount,
         page' = Refreshed(IF r.kind = "load" THEN filterPending(r.reply.list)
                           ELSE r.reply.list, r.reply),
         known' = r.reply.known, mixed' = (mixed /\ ~Alone(i)),
         UNCHANGED <<db, all, inputs, pending, view, owed>>
  PROVE  Typing' /\ Inv'
<1>1. /\ r \in Requests /\ Whole(r) /\ Known(r) /\ Working(r)
      /\ r.reply \in Datas /\ r.reply.list \in Seq(CardRows) /\ r.reply.known \in Versions
  <2>1. r \in Requests /\ Whole(r) /\ Known(r) /\ Working(r)
    BY MemberIs
  <2>2. r.reply \in Datas
    BY <2>1 DEF Requests
  <2>3. QED
    BY <2>1, <2>2 DEF Datas
<1>2. /\ page'.phase = "ready" /\ page'.mount = page.mount /\ DOMAIN page' = DOMAIN page
      /\ page'.list = IF r.kind = "load" THEN filterPending(r.reply.list) ELSE r.reply.list
      /\ page.phase # "left" /\ page.mount = r.mount /\ page.mount \in Nat
  BY DEF Refreshed, OfThisPage, Typing, PageTypes
<1>3. /\ r.kind = "load" => page.phase = "loading" /\ pending = {} /\ view.id = Closed
      /\ r.kind # "load" => page.phase = "ready" /\ r.kind \in SnoozeKinds
  BY <1>1 DEF Known, Inv, PageState, Reads, SnoozeKinds, Snoozes
<1>4. page'.list \in Seq(CardRows) /\ \A c \in Cards : Right(page.list, known, c)'
  <2>1. \A c \in Cards : Right(r.reply.list, r.reply.known, c)
    BY <1>1 DEF Known
  <2>2. \A c \in Cards : DuesIn(page'.list, c) = DuesIn(r.reply.list, c)
    BY <1>1, <1>2, <1>3, UnfilteredIs
  <2>3. page'.list \in Seq(CardRows)
    BY <1>1, <1>2, <1>3, UnfilteredIs
  <2>4. QED
    BY <2>1, <2>2, <2>3 DEF Right, Stored, InInbox
<1>5. /\ Later /\ SameBoxes /\ ViewGoesOn /\ inputs \in Nat /\ mixed \in BOOLEAN /\ mixed' \in BOOLEAN
  BY SameDb DEF Typing, ViewGoesOn
<1>6. ASSUME Settled' PROVE pending = {}
  <2>1. ~mixed => pending = {}
    BY <1>1, <1>3 DEF Working, Settled
  <2>2. Alone(i) => pending = {}
    BY DEF Alone
  <2>3. QED
    BY <1>6, <2>1, <2>2 DEF Settled
<1>7. ASSUME NEW a \in Others(i) PROVE OfThisPage(a) => ~Alone(i)
  BY <1>7 DEF Others, Alone
<1>8. ASSUME NEW a \in Others(i) PROVE Known(a)' /\ Working(a)' /\ Boxed(a)'
  <2>1. /\ a \in Requests /\ Whole(a) /\ Known(a) /\ Working(a) /\ Boxed(a)
        /\ ~Rivals(a, r) /\ ~Rivals(r, a)
    BY OtherIs
  <2>2. OfThisPage(a)' <=> OfThisPage(a)
    BY <1>2 DEF OfThisPage
  <2>3. OfThisPage(a) => a.kind # "load" /\ r.kind # "load"
    BY <1>3, <2>1 DEF Known, Rivals, PageRivals
  <2>4. Known(a)'
    BY <1>2, <2>1, <2>2, <2>3 DEF Known, Right, Stored, InInbox
  <2>5. Working(a)'
    <3> SUFFICES ASSUME Settled', OfThisPage(a)
                 PROVE a.kind \notin SnoozeKinds \cup {"complete"}
      BY <2>2 DEF Working, SnoozeKinds
    <3>1. ~mixed
      BY <1>7 DEF Settled
    <3>2. r.kind \in SnoozeKinds
      BY <1>3, <2>3
    <3>3. QED
      BY <2>1, <3>1, <3>2 DEF Rivals, PageRivals
  <2>6. Boxed(a)'
    BY <1>5, <2>1, BoxedLasts
  <2>7. QED
    BY <2>4, <2>5, <2>6
<1>9. ASSUME NEW a \in Others(i), NEW b \in Others(i), Rivals(a, b)' PROVE Rivals(a, b)
  <2>1. PageRivals(a, b)' => PageRivals(a, b)
    BY <1>2, <1>7 DEF PageRivals, OfThisPage
  <2>2. ViewRivals(a, b)' => ViewRivals(a, b)
    BY DEF ViewRivals, Viewed
  <2>3. QED
    BY <1>9, <2>1, <2>2 DEF Rivals
<1>10. /\ ReqTypes' /\ Members' = Others(i) /\ Apart' /\ Members = Others(i) \cup {r}
       /\ \A a \in Members' : Known(a)' /\ Working(a)' /\ Boxed(a)'
  BY <1>8, <1>9, AwayRequests, MembersAre DEF Typing
<1>11. ViewState'
  <2>1. ~Viewed(r)
    BY <1>1 DEF Whole, ViewKinds, Viewed, Reads
  <2>2. \A a \in Members : Viewed(a) => \E p \in Members' : Stands(p, a)
    BY <1>10, <2>1 DEF Stands
  <2>3. QED
    BY <1>5, <2>2, ViewStateGoesOn DEF Inv
<1>12. Listing'
  BY <1>4 DEF Listing
<1>13. PageState'
  <2>1. \A t \in toasts' : t.mount <= page.mount
    BY <1>1, <1>2 DEF Known, Inv, PageState
  <2>2. \A c \in Cards : known'[c] <= db'[c].ver
    BY <1>1 DEF Known, Reads
  <2>3. QED
    BY <1>2, <1>6, <2>1, <2>2 DEF Inv, PageState
<1>14. QED
  BY <1>1, <1>2, <1>4, <1>5, <1>10, <1>11, <1>12, <1>13 DEF Inv, Typing, PageTypes, PendingTypes

\* The answer to a click counts one more write of the box.
LEMMA AnsweredToggle ==
  ASSUME Typing, Inv, NEW i \in DOMAIN reqs, NEW r \in Members, r = reqs[i],
         r.kind = "toggle", r.stage = "ok", reqs' = Away(i), Untouched, toasts' = toasts,
         view' = IF view.id = r.view THEN [view EXCEPT !.known = @ + 1] ELSE view
  PROVE  Typing' /\ Inv'
<1>1. r \in Requests /\ Whole(r) /\ Boxed(r) /\ r.view # Closed
  BY MemberIs DEF Whole, ViewKinds
<1>2. /\ view' \in Views /\ view'.id = view.id /\ view'.row = view.row
      /\ view'.state = view.state /\ view'.sub = view.sub /\ view'.muddled = view.muddled
      /\ (Viewed(r) => view'.known = view.known + 1) /\ (~Viewed(r) => view' = view)
  BY <1>1 DEF Typing, Views, Viewed
<1>3. Viewed(r) => /\ r.card = view.row.card /\ view.state = "shown"
                   /\ ~view.muddled => Toggled(r)
  BY <1>1 DEF Boxed, Viewed
<1>4. \A a : Viewed(a)' <=> Viewed(a)
  BY <1>2 DEF Viewed
<1>5. SameBoxes /\ Members' = Others(i) /\ Members = Others(i) \cup {r}
  BY SameDb, AwayIs, MembersAre DEF Typing, Untouched
<1>6. ASSUME NEW a \in Others(i) PROVE Boxed(a)'
  <2>1. a \in Requests /\ Whole(a) /\ Boxed(a) /\ ~Rivals(a, r)
    BY OtherIs
  <2>2. Viewed(r) /\ Viewed(a) => view.muddled
    BY <2>1 DEF Rivals, ViewRivals
  <2>3. Viewed(a) /\ ~view.muddled => view' = view
    BY <1>2, <2>2
  <2>4. QED
    BY <1>2, <1>4, <2>1, <2>3 DEF Boxed, Toggled, Untouched
<1>7. ViewState'
  <2>1. CASE ~Viewed(r)
    <3>1. \A a \in Members : Viewed(a) => \E p \in Members' : Stands(p, a)
      BY <1>5, <2>1 DEF Stands
    <3>2. QED
      BY <1>2, <1>5, <2>1, <3>1, ViewStateGoesOn DEF Inv, Untouched
  <2>2. CASE Viewed(r)
    <3>1. view.known \in Nat /\ view.id \in Nat /\ view.id <= inputs /\ r.card \in Cards
          /\ db[r.card].subver \in Nat
      BY <1>1 DEF Typing, Views, Inv, ViewState, Whole, DbRows
    <3>2. ~view.muddled => /\ view.known < db[r.card].subver
                           /\ view.known + 1 = db[r.card].subver => db[r.card].sub = view.sub
      BY <1>3, <2>2 DEF Toggled
    <3>3. QED
      BY <1>2, <1>3, <2>2, <3>1, <3>2 DEF ViewState, Untouched
  <2>3. QED
    BY <2>1, <2>2
<1>8. \A a, b \in Others(i) : ViewRivals(a, b)' => ViewRivals(a, b)
  BY <1>2, <1>4 DEF ViewRivals
<1>9. toasts' \in SUBSET Toasts /\ \A t \in toasts' : t \in toasts
  BY DEF Typing
<1>10. OfThisPage(r) => r.kind \notin Snoozes \cup {"complete"}
  BY DEF Snoozes
<1>11. QED
  BY <1>2, <1>6, <1>7, <1>8, <1>9, <1>10, UntouchedKeeps

\* The detail is shown.
LEMMA AnsweredDetail ==
  ASSUME Typing, Inv, NEW i \in DOMAIN reqs, NEW r \in Members, r = reqs[i],
         r.kind = "detail", r.stage = "ok", reqs' = Away(i), Untouched, toasts' = toasts,
         view' = IF view.id = r.view
                 THEN [view EXCEPT !.state = "shown", !.sub = r.value,
                                   !.known = r.reply.known[r.card]]
                 ELSE view
  PROVE  Typing' /\ Inv'
<1>1. /\ r \in Requests /\ Whole(r) /\ Boxed(r) /\ r.view # Closed /\ r.card \in Cards
      /\ r.value \in BOOLEAN /\ r.reply.known[r.card] \in Nat
  <2>1. r \in Requests /\ Whole(r) /\ Boxed(r)
    BY MemberIs
  <2>2. r.view # Closed /\ r.card \in Cards
    BY <2>1 DEF Whole, ViewKinds
  <2>3. QED
    BY <2>1, <2>2 DEF Requests, Datas, Versions
<1>2. /\ view' \in Views /\ view'.id = view.id /\ view'.row = view.row
      /\ view'.muddled = view.muddled /\ (~Viewed(r) => view' = view)
      /\ Viewed(r) => /\ view'.state = "shown" /\ view'.sub = r.value
                      /\ view'.known = r.reply.known[r.card]
  BY <1>1 DEF Typing, Views, Viewed
<1>3. \A a : Viewed(a)' <=> Viewed(a)
  BY <1>2 DEF Viewed
<1>4. SameBoxes /\ Members' = Others(i) /\ Members = Others(i) \cup {r}
  BY SameDb, AwayIs, MembersAre DEF Typing, Untouched
<1>5. ASSUME NEW a \in Others(i), Viewed(a) PROVE ~Viewed(r)
  <2>1. ~Rivals(a, r)
    BY OtherIs
  <2>2. QED
    BY <1>5, <2>1 DEF Rivals, ViewRivals
<1>6. ASSUME NEW a \in Others(i) PROVE Boxed(a)'
  <2>1. a \in Requests /\ Whole(a) /\ Boxed(a)
    BY OtherIs
  <2>2. Viewed(a) => view' = view
    BY <1>2, <1>5
  <2>3. QED
    BY <1>3, <2>1, <2>2 DEF Boxed, Toggled, Untouched
<1>7. ViewState'
  <2>1. CASE ~Viewed(r)
    <3>1. \A a \in Members : Viewed(a) => \E p \in Members' : Stands(p, a)
      BY <1>4, <2>1 DEF Stands
    <3>2. QED
      BY <1>2, <1>4, <2>1, <3>1, ViewStateGoesOn DEF Inv, Untouched
  <2>2. CASE Viewed(r)
    <3>1. r.card = view.row.card /\ view.id <= inputs
      BY <1>1, <2>2 DEF Boxed, Inv, ViewState
    <3>2. QED
      BY <1>1, <1>2, <2>2, <3>1 DEF Boxed, ViewState, Untouched
  <2>3. QED
    BY <2>1, <2>2
<1>8. \A a, b \in Others(i) : ViewRivals(a, b)' => ViewRivals(a, b)
  BY <1>2, <1>3 DEF ViewRivals
<1>9. toasts' \in SUBSET Toasts /\ \A t \in toasts' : t \in toasts
  BY DEF Typing
<1>10. OfThisPage(r) => r.kind \notin Snoozes \cup {"complete"}
  BY DEF Snoozes
<1>11. QED
  BY <1>2, <1>6, <1>7, <1>8, <1>9, <1>10, UntouchedKeeps

\* An answer that is not for the quick view leaves it as it is.
LEMMA UnseenIs ==
  ASSUME Typing, Inv, NEW i \in DOMAIN reqs, NEW r \in Members, r = reqs[i], ~Viewed(r),
         reqs' = Away(i), UNCHANGED <<db, all, inputs, view>>
  PROVE  /\ \A a \in Others(i) : Boxed(a)'
         /\ \A a, b : ViewRivals(a, b)' => ViewRivals(a, b)
         /\ ViewState'
<1>1. SameBoxes /\ ViewGoesOn /\ Members' = Others(i) /\ Members = Others(i) \cup {r}
  BY SameDb, AwayIs, MembersAre DEF Typing, ViewGoesOn
<1>2. ASSUME NEW a \in Others(i) PROVE Boxed(a)'
  <2>1. a \in Requests /\ Whole(a) /\ Boxed(a)
    BY <1>1, MemberIs
  <2>2. QED
    BY <1>1, <2>1, BoxedLasts
<1>3. \A a, b : ViewRivals(a, b)' => ViewRivals(a, b)
  BY DEF ViewRivals, Viewed
<1>4. ViewState'
  <2>1. \A a \in Members : Viewed(a) => \E p \in Members' : Stands(p, a)
    BY <1>1 DEF Stands
  <2>2. QED
    BY <1>1, <2>1, ViewStateGoesOn DEF Inv
<1>5. QED
  BY <1>2, <1>3, <1>4

\* The tab gets an answer, of any request.
LEMMA AnsweredKeeps ==
  ASSUME Typing, Inv, NEW i \in DOMAIN reqs, Answered(i) PROVE Typing' /\ Inv'
<1>1. PICK r \in Members : r = reqs[i]
  BY DEF Members, ToSet
<1>2. /\ r \in Requests /\ Whole(r) /\ r.stage = "ok"
      /\ UNCHANGED <<db, all, inputs, pending, owed>>
  <2>1. r \in Requests /\ Whole(r)
    BY MemberIs
  <2>2. QED
    BY <1>1, <2>1 DEF Answered, NoInput
<1>3. CASE r.kind = "complete"
  <2>1. /\ reqs' = Away(i)
        /\ IF OfThisPage(r)
           THEN known' = [known EXCEPT ![r.card] =
                  IF @ + 1 = r.reply.known[r.card] THEN @ + 1 ELSE @]
           ELSE known' = known
        /\ UNCHANGED <<page, view, toasts, mixed>>
    BY <1>1, <1>3 DEF Answered, Reads
  <2>2. QED
    BY <1>1, <1>2, <1>3, <2>1, AnsweredComplete
<1>4. CASE r.kind \in {"snooze", "unsnooze"}
  <2>1. /\ reqs' = Then(i, IF r.kind = "snooze" THEN "snoozed" ELSE "unsnoozed")
        /\ UNCHANGED <<page, view, toasts, known, mixed>>
    BY <1>1, <1>4 DEF Answered, Reads
  <2>2. QED
    BY <1>1, <1>2, <1>4, <2>1, AnsweredSnooze
<1>5. CASE r.kind \in Reads
  <2>1. /\ reqs' = Away(i) /\ view' = view
        /\ toasts' = IF r.kind = "snoozed"
                     THEN toasts \cup {[card |-> r.card, due |-> r.row.due, mount |-> r.mount]}
                     ELSE toasts
        /\ IF OfThisPage(r)
           THEN /\ page' = Refreshed(IF r.kind = "load" THEN filterPending(r.reply.list)
                                     ELSE r.reply.list, r.reply)
                /\ known' = r.reply.known
                /\ mixed' = (mixed /\ ~Alone(i))
           ELSE UNCHANGED <<page, known, mixed>>
    BY <1>1, <1>5 DEF Answered, Reads
  <2>2. toasts' \in SUBSET Toasts /\ \A t \in toasts' : t \in toasts \/ t.mount = r.mount
    <3>1. r.mount \in Nat /\ r.row.due \in Nat
      BY <1>2 DEF Requests, CardRows, NoRow, NoDate
    <3>2. r.kind = "snoozed" => r.card \in Cards
      BY <1>2 DEF Whole
    <3>3. QED
      BY <2>1, <3>1, <3>2 DEF Typing, Toasts
  <2>3. CASE OfThisPage(r)
    BY <1>1, <1>2, <1>5, <2>1, <2>2, <2>3, AnsweredRead
  <2>4. CASE ~OfThisPage(r)
    <3>1. ~Viewed(r) /\ Untouched
      BY <1>2, <1>5, <2>1, <2>4 DEF Whole, ViewKinds, Viewed, Reads, Untouched
    <3>2. /\ \A a \in Others(i) : Boxed(a)'
          /\ \A a, b : ViewRivals(a, b)' => ViewRivals(a, b)
          /\ ViewState'
      BY <1>1, <1>2, <2>1, <3>1, UnseenIs
    <3>3. view' \in Views
      BY <2>1 DEF Typing
    <3>4. QED
      BY <1>1, <2>1, <2>2, <2>4, <3>1, <3>2, <3>3, UntouchedKeeps
  <2>5. QED
    BY <2>3, <2>4
<1>6. CASE r.kind = "toggle"
  <2>1. /\ reqs' = Away(i) /\ toasts' = toasts /\ Untouched
        /\ view' = IF view.id = r.view THEN [view EXCEPT !.known = @ + 1] ELSE view
    BY <1>1, <1>2, <1>6 DEF Answered, Reads, Untouched
  <2>2. QED
    BY <1>1, <1>2, <1>6, <2>1, AnsweredToggle
<1>7. CASE r.kind = "detail"
  <2>1. /\ reqs' = Away(i) /\ toasts' = toasts /\ Untouched
        /\ view' = IF view.id = r.view
                   THEN [view EXCEPT !.state = "shown", !.sub = r.value,
                                     !.known = r.reply.known[r.card]]
                   ELSE view
    BY <1>1, <1>2, <1>7 DEF Answered, Reads, Untouched
  <2>2. QED
    BY <1>1, <1>2, <1>7, <2>1, AnsweredDetail
<1>8. QED
  BY <1>1, <1>3, <1>4, <1>5, <1>6, <1>7 DEF Answered

-----------------------------------------------------------------------------
(* The tab gets an error *)

\* The row of a completion that failed is put back.
LEMMA FailedComplete ==
  ASSUME Typing, Inv, NEW i \in DOMAIN reqs, NEW r \in Members, r = reqs[i],
         r.kind = "complete", OfThisPage(r), reqs' = Away(i), page' = restorePending(r.row),
         UNCHANGED <<db, all, inputs, pending, view, toasts, known, mixed, owed>>
  PROVE  Typing' /\ Inv'
<1> DEFINE c == r.card
<1>1. /\ r \in Requests /\ Whole(r) /\ Known(r) /\ Working(r) /\ c \in Cards
      /\ r.row \in CardRows /\ r.row.card = c /\ page.phase = "ready"
      /\ r.reply.known[c] \in Nat /\ r.reply.known[c] <= db[c].ver
  <2>1. r \in Requests /\ Whole(r) /\ Known(r) /\ Working(r)
    BY MemberIs
  <2>2. QED
    BY <2>1 DEF Whole, Requests, Datas, Versions, Known
<1>2. /\ DOMAIN page' = DOMAIN page /\ page'.list = Append(page.list, r.row)
      /\ page'.phase = page.phase /\ page'.mount = page.mount
  BY DEF restorePending, Typing, PageTypes
<1>3. /\ page'.list \in Seq(CardRows)
      /\ DuesIn(page'.list, c) = DuesIn(page.list, c) \cup {r.row.due}
      /\ \A d : d # c => DuesIn(page'.list, d) = DuesIn(page.list, d)
  <2>1. PICK row \in CardRows : row = r.row
    BY <1>1
  <2>2. /\ Append(page.list, row) \in Seq(CardRows)
        /\ DuesIn(Append(page.list, row), row.card) = DuesIn(page.list, row.card) \cup {row.due}
        /\ \A d : d # row.card => DuesIn(Append(page.list, row), d) = DuesIn(page.list, d)
    BY AppendedIs DEF Typing, PageTypes
  <2>3. QED
    BY <1>1, <1>2, <2>1, <2>2
<1>4. /\ Later /\ SameBoxes /\ GoesOn /\ ViewGoesOn /\ inputs \in Nat /\ page.mount \in Nat
      /\ mixed \in BOOLEAN /\ \A d \in Cards : known[d] <= db[d].ver /\ known[d] \in Nat
  BY <1>2, SameDb DEF GoesOn, ViewGoesOn, Typing, PageTypes, Inv, PageState, Versions
<1>5. ASSUME NEW a \in Others(i) PROVE Known(a)' /\ Working(a)' /\ Boxed(a)'
  <2>1. a \in Requests /\ Whole(a) /\ Known(a) /\ Working(a) /\ Boxed(a) /\ ~Rivals(a, r)
    BY OtherIs
  <2>2. Known(a)'
    BY <1>4, <2>1, KnownLasts
  <2>3. Spares(a)
    <3> SUFFICES ASSUME ~mixed, OfThisPage(a)
                 PROVE  /\ a.kind \in SnoozeKinds => pending' = {}
                        /\ a.kind = "complete" => ~IsPending(a.card)' /\ Hidden(a.card)'
      BY DEF Spares
    <3>1. Settled
      BY <1>1 DEF Settled
    <3>2. a.kind = "complete" => a.card # c
      BY <2>1 DEF Rivals, PageRivals
    <3>3. QED
      BY <1>3, <2>1, <3>1, <3>2 DEF Working, IsPending, Hidden
  <2>4. Working(a)'
    BY <1>4, <2>1, <2>3, WorkingLasts DEF Typing
  <2>5. Boxed(a)'
    BY <1>4, <2>1, BoxedLasts
  <2>6. QED
    BY <2>2, <2>4, <2>5
<1>6. /\ ReqTypes' /\ Members' = Others(i) /\ Apart' /\ Members = Others(i) \cup {r}
      /\ \A a \in Members' : Known(a)' /\ Working(a)' /\ Boxed(a)'
  <2>1. \A a, b \in Others(i) : Rivals(a, b)' => Rivals(a, b)
    BY <1>4, RivalsLast
  <2>2. QED
    BY <1>5, <2>1, AwayRequests, MembersAre DEF Typing
<1>7. ViewState'
  <2>1. ~Viewed(r)
    BY <1>1 DEF Whole, ViewKinds, Viewed
  <2>2. QED
    BY <2>1, UnseenIs
<1>8. Settled' => Settled /\ Hidden(c) /\ ~IsPending(c) /\ Completed(r)
  BY <1>1, <1>2 DEF Settled, Working
<1>9. PageState'
  <2>1. ASSUME Settled', NEW p \in pending' PROVE Hidden(p.card)' /\ Listable(p)'
    <3>1. Hidden(p.card) /\ Listable(p) /\ p.card # c
      BY <1>8, <2>1 DEF Inv, PageState, IsPending
    <3>2. QED
      BY <1>3, <3>1 DEF Hidden, Listable, Stored, InInbox
  <2>2. QED
    BY <1>1, <1>2, <2>1 DEF Inv, PageState
<1>10. Listing'
  <2> SUFFICES ASSUME Settled', NEW d \in Cards
               PROVE  Out(Snoozes)' \/ IsPending(d)' \/ Finishing(d)' \/ Right(page.list, known, d)'
    BY DEF Listing
  <2>1. CASE d # c
    <3>1. Out(Snoozes) \/ IsPending(d) \/ Finishing(d) \/ Right(page.list, known, d)
      BY <1>8 DEF Inv, Listing
    <3>2. /\ Out(Snoozes) => Out(Snoozes)'
          /\ Finishing(d) => Finishing(d)'
      BY <1>2, <1>6, <2>1 DEF Out, Snoozes, Finishing, OfThisPage
    <3>3. IsPending(d) => IsPending(d)'
      BY DEF IsPending
    <3>4. Right(page.list, known, d) => Right(page.list, known, d)'
      BY <1>3, <2>1 DEF Right, Stored, InInbox
    <3>5. QED
      BY <3>1, <3>2, <3>3, <3>4
  <2>2. CASE d = c
    <3>1. DuesIn(page'.list, c) = {r.row.due}
      BY <1>3, <1>8 DEF Hidden
    <3>2. known[c] = db[c].ver => Stored(c) = {r.row.due}
      BY <1>1, <1>4, <1>8 DEF Completed, Listable
    <3>3. QED
      BY <2>2, <3>1, <3>2 DEF Right, Stored, InInbox
  <2>3. QED
    BY <2>1, <2>2
<1>11. QED
  BY <1>2, <1>3, <1>4, <1>6, <1>7, <1>9, <1>10 DEF Inv, Typing, PageTypes, PendingTypes

\* A snooze that failed puts back the list it took, and what was known then.
LEMMA FailedSnooze ==
  ASSUME Typing, Inv, NEW i \in DOMAIN reqs, NEW r \in Members, r = reqs[i],
         r.kind \in Snoozes, OfThisPage(r), reqs' = Away(i),
         page' = [page EXCEPT !.list = RolledBack(r)], known' = r.prev.known,
         UNCHANGED <<db, all, inputs, pending, view, toasts, mixed, owed>>
  PROVE  Typing' /\ Inv'
<1>1. /\ r \in Requests /\ Whole(r) /\ Known(r) /\ Working(r) /\ page.phase = "ready"
      /\ r.prev.list \in Seq(CardRows) /\ r.prev.known \in Versions
  <2>1. r \in Requests /\ Whole(r) /\ Known(r) /\ Working(r)
    BY MemberIs
  <2>2. r.prev \in Datas
    BY <2>1 DEF Requests
  <2>3. QED
    BY <2>1, <2>2 DEF Datas, Known, Snoozes
<1>2. /\ DOMAIN page' = DOMAIN page /\ page'.list = r.prev.list
      /\ page'.phase = page.phase /\ page'.mount = page.mount
  BY DEF RolledBack, Typing, PageTypes
<1>3. /\ Later /\ SameBoxes /\ GoesOn /\ ViewGoesOn /\ inputs \in Nat /\ page.mount \in Nat
      /\ mixed \in BOOLEAN
  BY <1>2, SameDb DEF GoesOn, ViewGoesOn, Typing, PageTypes
<1>4. Settled' => /\ Settled /\ pending = {}
                  /\ \A c \in Cards : Right(r.prev.list, r.prev.known, c)
  BY <1>1, <1>2 DEF Settled, Working, SnoozeKinds
<1>5. ASSUME NEW a \in Others(i) PROVE Known(a)' /\ Working(a)' /\ Boxed(a)'
  <2>1. a \in Requests /\ Whole(a) /\ Known(a) /\ Boxed(a) /\ ~Rivals(a, r) /\ ~Rivals(r, a)
    BY OtherIs
  <2>2. Known(a)'
    BY <1>3, <2>1, KnownLasts
  <2>3. Working(a)'
    <3>1. OfThisPage(a)' <=> OfThisPage(a)
      BY <1>2 DEF OfThisPage
    <3>2. ~mixed /\ OfThisPage(a) => a.kind \notin SnoozeKinds \cup {"complete"}
      BY <2>1 DEF Rivals, PageRivals, SnoozeKinds
    <3>3. QED
      BY <3>1, <3>2 DEF Working, Settled, SnoozeKinds
  <2>4. Boxed(a)'
    BY <1>3, <2>1, BoxedLasts
  <2>5. QED
    BY <2>2, <2>3, <2>4
<1>6. /\ ReqTypes' /\ Members' = Others(i) /\ Apart'
      /\ \A a \in Members' : Known(a)' /\ Working(a)' /\ Boxed(a)'
  <2>1. \A a, b \in Others(i) : Rivals(a, b)' => Rivals(a, b)
    BY <1>3, RivalsLast
  <2>2. QED
    BY <1>5, <2>1, AwayRequests
<1>7. ViewState'
  <2>1. ~Viewed(r)
    BY <1>1 DEF Whole, ViewKinds, Viewed, Snoozes
  <2>2. QED
    BY <2>1, UnseenIs
<1>8. Listing'
  BY <1>2, <1>4 DEF Listing, Right, Stored, InInbox
<1>9. PageState'
  <2>1. \A c \in Cards : known'[c] <= db'[c].ver
    BY <1>1 DEF Known
  <2>2. QED
    BY <1>1, <1>2, <1>4, <2>1 DEF Inv, PageState
<1>10. QED
  BY <1>1, <1>2, <1>6, <1>7, <1>8, <1>9 DEF Inv, Typing, PageTypes, PendingTypes

\* A page whose load failed has nothing else on its way.
LEMMA FailedLoad ==
  ASSUME Typing, Inv, NEW i \in DOMAIN reqs, NEW r \in Members, r = reqs[i],
         r.kind = "load", OfThisPage(r), reqs' = Away(i),
         page' = [page EXCEPT !.phase = "failed"],
         UNCHANGED <<db, all, inputs, pending, view, toasts, known, mixed, owed>>
  PROVE  Typing' /\ Inv'
<1>1. /\ r \in Requests /\ Whole(r) /\ page.phase = "loading"
      /\ pending = {} /\ view.id = Closed
  BY MemberIs DEF Known, Inv, PageState
<1>2. /\ DOMAIN page' = DOMAIN page /\ page'.list = page.list
      /\ page'.phase = "failed" /\ page'.mount = page.mount
  BY DEF Typing, PageTypes
<1>3. ~Settled' /\ \A a : ~Viewed(a) /\ ~Viewed(a)'
  BY <1>1, <1>2 DEF Settled, Viewed
<1>4. ASSUME NEW a \in Others(i)
      PROVE  ~OfThisPage(a)' /\ Known(a)' /\ Working(a)' /\ Boxed(a)'
  <2>1. a \in Requests /\ Whole(a) /\ Known(a) /\ Boxed(a) /\ ~Rivals(a, r)
    BY OtherIs
  <2>2. ~OfThisPage(a)
    BY <1>1, <2>1 DEF Known, Rivals, PageRivals
  <2>3. ~OfThisPage(a)'
    BY <1>1, <1>2, <2>2 DEF OfThisPage
  <2>4. Known(a)'
    BY <1>2, <2>1, <2>3 DEF Known, Right, Stored, InInbox
  <2>5. Boxed(a)'
    BY <1>3, <2>1 DEF Boxed
  <2>6. QED
    BY <2>3, <2>4, <2>5 DEF Working
<1>5. /\ ReqTypes' /\ Members' = Others(i) /\ Apart'
      /\ \A a \in Members' : Known(a)' /\ Working(a)' /\ Boxed(a)'
  <2>1. \A a, b \in Others(i) : Rivals(a, b)' => Rivals(a, b)
    BY <1>3, <1>4 DEF Rivals, PageRivals, ViewRivals
  <2>2. QED
    BY <1>4, <2>1, AwayRequests
<1>6. ViewState' /\ Listing' /\ PageState'
  <2>1. ViewState'
    BY <1>3, UnseenIs
  <2>2. Listing'
    BY <1>3 DEF Listing
  <2>3. PageState'
    BY <1>1, <1>2, <1>3 DEF Inv, PageState
  <2>4. QED
    BY <2>1, <2>2, <2>3
<1>7. QED
  BY <1>2, <1>5, <1>6 DEF Inv, Typing, PageTypes, PendingTypes

\* The quick view hears of an error of its own requests.
LEMMA FailedView ==
  ASSUME Typing, Inv, NEW i \in DOMAIN reqs, NEW r \in Members, r = reqs[i], Viewed(r),
         reqs' = Away(i), Untouched, toasts' = toasts,
         view' = IF r.kind = "detail" THEN [view EXCEPT !.state = "failed"]
                 ELSE [view EXCEPT !.sub = BoxAfterError(r)]
  PROVE  Typing' /\ Inv'
<1>1. /\ r \in Requests /\ Whole(r) /\ Boxed(r) /\ r.kind \in ViewKinds /\ r.card \in Cards
      /\ r.value \in BOOLEAN
  <2>1. r \in Requests /\ Whole(r) /\ Boxed(r)
    BY MemberIs
  <2>2. r.kind \in ViewKinds
    BY <2>1 DEF Whole, Viewed
  <2>3. QED
    BY <2>1, <2>2 DEF Whole, ViewKinds, Requests
<1>2. /\ view' \in Views /\ view'.id = view.id /\ view'.row = view.row
      /\ view'.muddled = view.muddled /\ view'.known = view.known
      /\ r.kind = "detail" => view'.state = "failed" /\ view'.sub = view.sub
      /\ r.kind = "toggle" => view'.state = view.state /\ view'.sub = ~r.value
  <2>1. CASE r.kind = "detail"
    BY <2>1 DEF Typing, Views
  <2>2. CASE r.kind = "toggle"
    BY <1>1, <2>2 DEF Typing, Views, BoxAfterError
  <2>3. QED
    BY <1>1, <2>1, <2>2 DEF ViewKinds
<1>3. /\ r.card = view.row.card
      /\ r.kind = "toggle" => view.state = "shown" /\ (~view.muddled => Toggled(r))
  BY <1>1 DEF Boxed
<1>4. \A a : Viewed(a)' <=> Viewed(a)
  BY <1>2 DEF Viewed
<1>5. ASSUME NEW a \in Others(i) PROVE Boxed(a)'
  <2>1. a \in Requests /\ Whole(a) /\ Boxed(a) /\ ~Rivals(a, r)
    BY OtherIs
  <2>2. Viewed(a) => r.kind = "toggle" /\ a.kind = "toggle" /\ view.muddled
    BY <2>1 DEF Rivals, ViewRivals
  <2>3. QED
    BY <1>2, <1>4, <2>1, <2>2 DEF Boxed, Untouched
<1>6. ViewState'
  <2>1. view.id <= inputs /\ view.known \in Nat /\ db[r.card].subver \in Nat
    BY <1>1 DEF Inv, ViewState, Typing, Views, DbRows
  <2>2. CASE r.kind = "detail"
    BY <1>2, <2>1, <2>2 DEF ViewState, Untouched
  <2>3. CASE r.kind = "toggle"
    <3>1. ASSUME ~view.muddled
          PROVE  /\ view.known <= db[r.card].subver
                 /\ view.known = db[r.card].subver => db[r.card].sub = ~r.value
      <4>1. Toggled(r) /\ view.state = "shown" /\ view.id # Closed
        BY <1>3, <2>3, <3>1 DEF Viewed
      <4>2. view.known <= db[r.card].subver
        BY <1>3, <3>1, <4>1 DEF Inv, ViewState
      <4>3. QED
        BY <2>1, <4>1, <4>2 DEF Toggled
    <3>2. QED
      BY <1>2, <1>3, <2>1, <2>3, <3>1 DEF ViewState, Untouched
  <2>4. QED
    BY <1>1, <2>2, <2>3 DEF ViewKinds
<1>7. \A a, b \in Others(i) : ViewRivals(a, b)' => ViewRivals(a, b)
  BY <1>2, <1>4 DEF ViewRivals
<1>8. toasts' \in SUBSET Toasts /\ \A t \in toasts' : t \in toasts
  BY DEF Typing
<1>9. OfThisPage(r) => r.kind \notin Snoozes \cup {"complete"}
  BY <1>1 DEF Snoozes, ViewKinds
<1>10. QED
  BY <1>2, <1>5, <1>6, <1>7, <1>8, <1>9, UntouchedKeeps

\* The tab gets an error, of any request.
LEMMA FailedKeeps ==
  ASSUME Typing, Inv, NEW i \in DOMAIN reqs, Failed(i) PROVE Typing' /\ Inv'
<1>1. PICK r \in Members : r = reqs[i]
  BY DEF Members, ToSet
<1>2. r \in Requests /\ Whole(r)
  BY MemberIs
<1>3. /\ reqs' = Away(i)
      /\ page' = IF ~OfThisPage(r) THEN page
                 ELSE IF r.kind = "complete" THEN restorePending(r.row)
                 ELSE IF r.kind \in {"snooze", "snoozed"}
                 THEN [page EXCEPT !.list = RolledBack(r)]
                 ELSE IF r.kind = "load" THEN [page EXCEPT !.phase = "failed"]
                 ELSE page
      /\ known' = IF OfThisPage(r) /\ r.kind \in {"snooze", "snoozed"}
                  THEN r.prev.known ELSE known
      /\ view' = IF r.view # view.id \/ view.id = Closed THEN view
                 ELSE IF r.kind = "detail" THEN [view EXCEPT !.state = "failed"]
                 ELSE [view EXCEPT !.sub = BoxAfterError(r)]
      /\ UNCHANGED <<db, all, inputs, pending, toasts, mixed, owed>>
  BY <1>1 DEF Failed, NoInput
<1>4. ~Viewed(r) => view' = view
  BY <1>3 DEF Viewed
<1>5. r.kind \notin ViewKinds => ~Viewed(r)
  BY <1>2 DEF Whole, Viewed
<1>6. CASE OfThisPage(r) /\ r.kind = "complete"
  BY <1>1, <1>3, <1>4, <1>5, <1>6, FailedComplete DEF ViewKinds
<1>7. CASE OfThisPage(r) /\ r.kind \in Snoozes
  <2>1. r.kind \notin ViewKinds /\ r.kind # "complete" /\ r.kind \in {"snooze", "snoozed"}
    BY <1>7 DEF ViewKinds, Snoozes
  <2>2. /\ page' = [page EXCEPT !.list = RolledBack(r)] /\ known' = r.prev.known
        /\ view' = view
    BY <1>3, <1>4, <1>5, <1>7, <2>1
  <2>3. QED
    BY <1>1, <1>3, <1>7, <2>2, FailedSnooze
<1>8. CASE OfThisPage(r) /\ r.kind = "load"
  BY <1>1, <1>3, <1>4, <1>5, <1>8, FailedLoad DEF ViewKinds
<1>9. CASE ~OfThisPage(r) \/ r.kind \notin Snoozes \cup {"complete", "load"}
  <2>1. Untouched /\ toasts' = toasts
    BY <1>3, <1>9 DEF Untouched, Snoozes
  <2>2. CASE Viewed(r)
    <3>1. view' = IF r.kind = "detail" THEN [view EXCEPT !.state = "failed"]
                  ELSE [view EXCEPT !.sub = BoxAfterError(r)]
      BY <1>3, <2>2 DEF Viewed
    <3>2. QED
      BY <1>1, <1>3, <2>1, <2>2, <3>1, FailedView
  <2>3. CASE ~Viewed(r)
    <3>1. /\ \A a \in Others(i) : Boxed(a)'
          /\ \A a, b : ViewRivals(a, b)' => ViewRivals(a, b)
          /\ ViewState'
      BY <1>1, <1>3, <1>4, <2>3, UnseenIs
    <3>2. /\ view' \in Views /\ view' = view /\ toasts' \in SUBSET Toasts
          /\ \A t \in toasts' : t \in toasts
      BY <1>4, <2>1, <2>3 DEF Typing
    <3>3. OfThisPage(r) => r.kind \notin Snoozes \cup {"complete"}
      BY <1>9
    <3>4. QED
      BY <1>1, <1>3, <2>1, <3>1, <3>2, <3>3, UntouchedKeeps
  <2>4. QED
    BY <2>2, <2>3
<1>10. QED
  BY <1>6, <1>7, <1>8, <1>9

-----------------------------------------------------------------------------
(* Every step keeps the invariant *)

\* A card is ticked off, on the page or in the quick view.
LEMMA CompleteKeeps ==
  ASSUME Typing, Inv, CompleteViewed \/ \E c \in Cards : CompleteRow(c)
  PROVE  Typing' /\ Inv'
<1>1. CASE CompleteViewed
  <2>1. view.row.card \in Cards /\ page.phase = "ready"
    BY <1>1 DEF CompleteViewed, Typing, CardRows, Inv, PageState
  <2>2. PICK c \in Cards : c = view.row.card
    BY <2>1
  <2>3. QED
    BY <1>1, <2>1, <2>2, handleCompleteKeeps DEF CompleteViewed, Input
<1>2. CASE \E c \in Cards : CompleteRow(c)
  BY <1>2, handleCompleteKeeps DEF CompleteRow, Input
<1>3. QED
  BY <1>1, <1>2

\* A step that changes nothing.
LEMMA StutterKeeps == ASSUME Typing, Inv, UNCHANGED vars PROVE Typing' /\ Inv'
<1>1. UNCHANGED <<db, all, page, pending, view, reqs, toasts, known, mixed, owed, inputs>>
  BY DEF vars
<1>2. /\ Later /\ SameBoxes /\ GoesOn /\ ViewGoesOn /\ inputs \in Nat
      /\ mixed \in BOOLEAN /\ view \in Views
  BY <1>1, SameDb DEF GoesOn, ViewGoesOn, Typing
<1>3. ASSUME NEW r \in Members PROVE Spares(r)
  BY <1>1 DEF Spares, Inv, Working, Settled, OfThisPage, Typing, IsPending, Hidden, PageState,
     Known
<1>4. /\ ReqTypes' /\ Members' = Members /\ ViewState' /\ Apart'
      /\ \A r \in Members' : Known(r)' /\ Working(r)' /\ Boxed(r)'
  BY <1>1, <1>2, <1>3, SameRequests
<1>5. PageState' /\ Listing'
  BY <1>1, <1>2, <1>4, PageStateLasts, ListingLasts DEF Inv
<1>6. QED
  BY <1>1, <1>2, <1>4, <1>5 DEF Inv, Typing, PageTypes, PendingTypes

\* Any step keeps the types and the invariant.
LEMMA StepKeeps ==
  ASSUME Typing, OnePending, Inv, [Next]_vars PROVE Typing' /\ Inv'
<1>1. ASSUME NEW c \in Cards, Open(c) \/ Elsewhere(c) PROVE Typing' /\ Inv'
  BY <1>1, OpenKeeps, ElsewhereKeeps
<1>2. CASE CompleteViewed \/ \E c \in Cards : CompleteRow(c)
  BY <1>2, CompleteKeeps
<1>3. CASE Close \/ toggleSubtask \/ Leave \/ Enter
  BY <1>3, CloseKeeps, toggleSubtaskKeeps, LeaveKeeps, EnterKeeps
<1>4. ASSUME NEW row \in pending, undoComplete(row) \/ commitComplete(row)
      PROVE  Typing' /\ Inv'
  BY <1>4, undoCompleteKeeps, commitCompleteKeeps
<1>5. ASSUME NEW offset \in Offsets, handleSnooze(offset) PROVE Typing' /\ Inv'
  BY <1>5, handleSnoozeKeeps
<1>6. ASSUME NEW t \in toasts, undoSnooze(t) PROVE Typing' /\ Inv'
  BY <1>6, undoSnoozeKeeps
<1>7. ASSUME NEW i \in DOMAIN reqs, Serve(i) \/ Answered(i) \/ Failed(i)
      PROVE  Typing' /\ Inv'
  BY <1>7, ServeKeeps, AnsweredKeeps, FailedKeeps
<1>8. CASE UNCHANGED vars
  BY <1>8, StutterKeeps
<1>9. QED
  BY <1>1, <1>2, <1>3, <1>4, <1>5, <1>6, <1>7, <1>8 DEF Next

-----------------------------------------------------------------------------
(* What is pending and what is owed *)

Once == OnePending /\ OneRequestPerCompletion

\* A click adds a row and what it owes.
LEMMA handleCompleteOnce ==
  ASSUME Typing, Once, NEW c \in Cards, handleComplete(c) PROVE Once'
<1>1. CASE IsPending(c) \/ ~Lists(c)
  BY <1>1 DEF handleComplete, Once, OnePending, OneRequestPerCompletion, IsPending
<1>2. CASE ~IsPending(c) /\ Lists(c)
  <2>1. PICK row : row = Listed(c)
    OBVIOUS
  <2>2. row.card = c /\ pending' = pending \cup {row} /\ owed' = [owed EXCEPT ![c] = @ + 1]
    BY <1>2, <2>1, ListedIs DEF handleComplete, Typing, PageTypes
  <2>3. OnePending'
    BY <1>2, <2>2 DEF Once, OnePending, IsPending
  <2>4. \A d : IsPending(d)' <=> IsPending(d) \/ d = c
    BY <2>2 DEF IsPending
  <2>5. OneRequestPerCompletion'
    BY <1>2, <2>2, <2>4 DEF Once, OneRequestPerCompletion, Typing
  <2>6. QED
    BY <2>3, <2>5 DEF Once
<1>3. QED
  BY <1>1, <1>2

\* An undo, or a request, takes both back.
LEMMA TakenOnce ==
  ASSUME Typing, Once, NEW row \in pending, pending' = pending \ {row},
         owed' = [owed EXCEPT ![row.card] = @ - 1]
  PROVE  Once'
<1>1. row.card \in Cards
  BY DEF Typing, PendingTypes, CardRows
<1>2. OnePending' /\ \A d : IsPending(d)' <=> IsPending(d) /\ d # row.card
  BY DEF Once, OnePending, IsPending
<1>3. IsPending(row.card)
  BY DEF IsPending
<1>4. OneRequestPerCompletion'
  BY <1>1, <1>2, <1>3 DEF Once, OneRequestPerCompletion, Typing
<1>5. QED
  BY <1>2, <1>4 DEF Once

\* Leaving the page sends what is pending, once each.
LEMMA LeaveOnce == ASSUME Typing, Once, Leave PROVE Once'
<1> DEFINE sent(c) == Cardinality({i \in DOMAIN Flush : Flush[i].card = c})
<1>1. pending' = {} /\ owed' = [c \in Cards |-> owed[c] - sent(c)]
  BY DEF Leave
<1>2. ASSUME NEW c \in Cards PROVE sent(c) = IF IsPending(c) THEN 1 ELSE 0
  BY FlushCounts DEF Typing, Once
<1> HIDE DEF sent
<1>3. \A c \in Cards : owed'[c] = 0
  BY <1>1, <1>2 DEF Once, OneRequestPerCompletion
<1>4. QED
  BY <1>1, <1>3 DEF Once, OnePending, OneRequestPerCompletion, IsPending

\* Any step keeps the count of completion requests.
LEMMA StepOnce == ASSUME Typing, Once, [Next]_vars PROVE Once'
<1>1. CASE UNCHANGED <<pending, owed>>
  BY <1>1 DEF Once, OnePending, OneRequestPerCompletion, IsPending
<1>2. ASSUME NEW c \in Cards, CompleteRow(c) PROVE Once'
  BY <1>2, handleCompleteOnce DEF CompleteRow
<1>3. ASSUME CompleteViewed PROVE Once'
  <2>1. PICK c \in Cards : c = view.row.card
    BY <1>3 DEF CompleteViewed, Typing, CardRows
  <2>2. QED
    BY <1>3, <2>1, handleCompleteOnce DEF CompleteViewed
<1>4. ASSUME NEW row \in pending, undoComplete(row) \/ commitComplete(row) PROVE Once'
  BY <1>4, TakenOnce DEF undoComplete, commitComplete
<1>5. ASSUME Leave PROVE Once'
  BY <1>5, LeaveOnce
<1>6. ASSUME NEW c \in Cards, Open(c) \/ Elsewhere(c) PROVE UNCHANGED <<pending, owed>>
  BY <1>6 DEF Open, Elsewhere, history
<1>7. ASSUME Close \/ toggleSubtask \/ Enter PROVE UNCHANGED <<pending, owed>>
  BY <1>7 DEF Close, toggleSubtask, Enter, history
<1>8. ASSUME NEW offset \in Offsets, handleSnooze(offset) PROVE UNCHANGED <<pending, owed>>
  BY <1>8 DEF handleSnooze
<1>9. ASSUME NEW t \in toasts, undoSnooze(t) PROVE UNCHANGED <<pending, owed>>
  BY <1>9 DEF undoSnooze
<1>10. ASSUME NEW i \in DOMAIN reqs, Serve(i) \/ Answered(i) \/ Failed(i)
       PROVE  UNCHANGED <<pending, owed>>
  BY <1>10 DEF Serve, Answered, Failed, history
<1>11. ASSUME UNCHANGED vars PROVE UNCHANGED <<pending, owed>>
  BY <1>11 DEF vars
<1>12. QED
  BY <1>1, <1>2, <1>3, <1>4, <1>5, <1>6, <1>7, <1>8, <1>9, <1>10, <1>11 DEF Next

-----------------------------------------------------------------------------
(* The theorems *)

\* It holds when the tab is opened.
LEMMA InitIs == ASSUME Init PROVE IInv
<1>1. /\ page = Blank(0) /\ pending = {} /\ toasts = {} /\ mixed = FALSE /\ inputs = 0
      /\ known = NoData.known /\ owed = [c \in Cards |-> 0] /\ view.id = Closed
      /\ view = [id |-> Closed, row |-> NoRow, state |-> "loading", sub |-> FALSE,
                 known |-> 0, muddled |-> FALSE]
  BY DEF Init
<1>2. db \in [Cards -> DbRows]
  <2>1. PICK due \in Starts, holder \in [Cards -> {Me, Nobody}] :
          db = [c \in Cards |-> [due |-> due[c], holder |-> holder[c], done |-> FALSE,
                                 sub |-> FALSE, ver |-> 1, subver |-> 1]]
    BY DEF Init
  <2>2. due \in [Cards -> Nat] /\ holder \in [Cards -> Holders]
    BY MyWorkAssumption
  <2>3. QED
    BY <2>1, <2>2 DEF DbRows
<1>3. /\ PageTypes /\ page.phase = "loading" /\ page.mount = 0
      /\ page.list = <<>>
  BY <1>1 DEF PageTypes, Blank
<1>4. PICK q : q = Request("load", 0)
  OBVIOUS
<1>5. /\ q = [kind |-> "load", card |-> 0, mount |-> 0, stage |-> "sent",
              row |-> NoRow, due |-> NoDate, prev |-> NoData, reply |-> NoData,
              view |-> Closed, value |-> FALSE]
  BY <1>3, <1>4 DEF Request
<1>6. q \in Requests /\ Whole(q)
  <2>1. "load" \in Kinds
    BY DEF Kinds
  <2>2. q \in Requests
    <3> HIDE DEF Kinds, NoData, NoRow, Datas, CardRows
    <3>1. QED
      BY <1>5, <2>1, NoDataIs DEF Requests, NoDate, Closed
  <2>3. QED
    BY <1>5, <2>2 DEF Whole, ViewKinds, Closed
<1>7. reqs = <<q>> /\ DOMAIN reqs = {1} /\ reqs[1] = q /\ Members = {q} /\ ReqTypes
  <2>1. reqs = <<q>> /\ DOMAIN reqs = {1} /\ reqs[1] = q
    BY <1>4 DEF Init
  <2>2. QED
    BY <1>6, <2>1 DEF Members, ToSet, ReqTypes
<1>8. Typing /\ OnePending /\ OneRequestPerCompletion
  <2>1. PendingTypes
    BY <1>1, FS_EmptySet DEF PendingTypes
  <2>2. view \in Views
    BY <1>1 DEF Views, Closed
  <2>3. known \in Versions
    BY <1>1, NoDataIs DEF Datas
  <2>4. owed \in [Cards -> Int] /\ toasts \in SUBSET Toasts
    BY <1>1
  <2>5. QED
    BY <1>1, <1>2, <1>3, <1>7, <2>1, <2>2, <2>3, <2>4
       DEF Typing, OnePending, OneRequestPerCompletion, IsPending
<1>9. \A c \in Cards : NoData.known[c] = 0 /\ 0 <= db[c].ver
  BY <1>2, NoDataIs DEF DbRows
<1>10. PageState /\ Listing /\ ViewState /\ Apart
  <2>1. PageState
    BY <1>1, <1>3, <1>9 DEF PageState, Settled
  <2>2. Listing /\ ViewState
    BY <1>1, <1>3 DEF Listing, Settled, ViewState, Closed
  <2>3. Apart
    BY <1>7 DEF Apart
  <2>4. QED
    BY <2>1, <2>2, <2>3
<1>11. Known(q) /\ Working(q) /\ Boxed(q)
  <2>1. Known(q)
    BY <1>1, <1>3, <1>5, <1>9 DEF Known, Closed
  <2>2. Working(q)
    BY <1>3 DEF Working, Settled
  <2>3. Boxed(q)
    BY <1>1, <1>5 DEF Boxed, Viewed
  <2>4. QED
    BY <2>1, <2>2, <2>3
<1>12. QED
  BY <1>7, <1>8, <1>10, <1>11 DEF IInv, Inv

-----------------------------------------------------------------------------
(* The page's numbers *)

\* No card is on a list twice.
Single(list) == \A i, j \in DOMAIN list : list[i].card = list[j].card => i = j

\* The rows of a group, and the counts of a list.
Of(list, g) == {row \in ToSet(list) : Group(row.due) = g}
Tallies(counts, list) == \A g \in Groups : counts[g] = Cardinality(Of(list, g))

\* What was counted as done today and is not finished: pending, or sent.
Waiting == {row \in pending : IsToday(row) = 1}
Sending ==
  {i \in DOMAIN reqs : /\ reqs[i].kind = "complete" /\ OfThisPage(reqs[i])
                       /\ IsToday(reqs[i].row) = 1}

Numbers == page.counts \in [Groups -> Nat] /\ page.doneToday \in Nat /\ finished \in Nat
DayAddsUp ==
  page.phase # "left" =>
    page.doneToday = finished + Cardinality(Waiting) + Cardinality(Sending)
ListAddsUp ==
  Settled => Single(page.list) /\ (Out(Snoozes) \/ Tallies(page.counts, page.list))

\* The list that a snooze may put back, and what a GET answered.
TakenAddsUp(r) ==
  Settled /\ OfThisPage(r) /\ r.kind \in Snoozes =>
    Single(r.prev.list) /\ Tallies(page.counts, r.prev.list)
ReplyIsSingle(r) == r.kind \in Reads /\ r.stage = "ok" => Single(r.reply.list)

Sums ==
  /\ Numbers /\ DayAddsUp /\ ListAddsUp
  /\ \A r \in Members : TakenAddsUp(r) /\ ReplyIsSingle(r)

\* A list of rows once each is as long as its set of rows is big.
LEMMA LengthIs ==
  ASSUME NEW T, NEW list \in Seq(T), OnceEach(list)
  PROVE  IsFiniteSet(ToSet(list)) /\ Len(list) = Cardinality(ToSet(list))
<1>1. Len(list) \in Nat /\ DOMAIN list = 1 .. Len(list) /\ list \in [1 .. Len(list) -> ToSet(list)]
  BY DEF ToSet
<1>2. list \in Bijection(1 .. Len(list), ToSet(list))
  BY <1>1 DEF Bijection, Injection, Surjection, IsInjective, OnceEach, ToSet
<1>3. ExistsBijection(1 .. Len(list), ToSet(list))
  BY <1>2 DEF ExistsBijection
<1>4. IsFiniteSet(ToSet(list)) /\ Cardinality(ToSet(list)) = Len(list)
  BY <1>1, <1>3, FS_CountingElements, FS_Bijection, FS_Interval
<1>5. QED
  BY <1>4

\* A list with no card twice has no row twice, nor has what is kept of it.
LEMMA SingleKept ==
  ASSUME NEW list \in Seq(CardRows), Single(list), NEW rows
  PROVE  /\ OnceEach(list) /\ Kept(list, rows) \in Seq(CardRows)
         /\ Single(Kept(list, rows)) /\ OnceEach(Kept(list, rows))
         /\ ToSet(Kept(list, rows)) = ToSet(list) \cap rows
<1> DEFINE s == Kept(list, rows)
<1>1. OnceEach(list)
  BY DEF OnceEach, Single
<1>2. s \in Seq(CardRows) /\ Picks(s, list, rows) /\ OnceEach(s)
  BY <1>1, KeptIs
<1> HIDE DEF s
<1>3. ToSet(s) = ToSet(list) \cap rows
  BY <1>2 DEF Picks, ToSet
<1>4. ASSUME NEW j \in DOMAIN s, NEW k \in DOMAIN s, s[j].card = s[k].card PROVE j = k
  <2>1. PICK a \in DOMAIN list : list[a] = s[j]
    BY <1>2 DEF Picks
  <2>2. PICK b \in DOMAIN list : list[b] = s[k]
    BY <1>2 DEF Picks
  <2>3. a = b
    BY <1>4, <2>1, <2>2 DEF Single
  <2>4. s[j] = s[k]
    BY <2>1, <2>2, <2>3
  <2>5. QED
    BY <1>2, <2>4 DEF OnceEach
<1>5. Single(s)
  BY <1>4 DEF Single
<1>6. QED
  BY <1>1, <1>2, <1>3, <1>5 DEF s

\* Every date has its group.
LEMMA GroupIs == ASSUME NEW due \in Nat PROVE Group(due) \in Groups
<1>1. Today \in Nat /\ Today # NoDate /\ NoDate \in Nat
  BY MyWorkAssumption DEF NoDate
<1>2. due = NoDate \/ (due # NoDate /\ due < Today) \/ due = Today
      \/ (due > Today /\ due <= Today + 6) \/ due > Today + 6
  BY <1>1
<1>3. QED
  BY <1>1, <1>2 DEF Group, Groups, NoDate

\* The counts of a list with no card twice.
LEMMA CountsAre ==
  ASSUME NEW list \in Seq(CardRows), Single(list)
  PROVE  CountsOf(list) \in [Groups -> Nat] /\ Tallies(CountsOf(list), list)
<1>1. ASSUME NEW g \in Groups
      PROVE Len(InGroup(list, g)) = Cardinality(Of(list, g)) /\ Len(InGroup(list, g)) \in Nat
  <2> DEFINE rows == Of(list, g)
             s == Kept(list, rows)
  <2>1. s \in Seq(CardRows) /\ OnceEach(s) /\ ToSet(s) = ToSet(list) \cap rows
    <3> HIDE DEF rows
    <3>1. QED
      BY SingleKept
  <2>2. ToSet(list) \cap rows = rows
    BY DEF Of
  <2> HIDE DEF s, rows
  <2>3. Len(s) = Cardinality(rows) /\ Len(s) \in Nat
    <3>1. ToSet(s) = rows /\ Len(s) \in Nat
      BY <2>1, <2>2
    <3>2. Len(s) = Cardinality(ToSet(s))
      BY <2>1, LengthIs
    <3>3. QED
      BY <3>1, <3>2
  <2>4. InGroup(list, g) = s
    BY DEF InGroup, s, rows, Of
  <2>5. QED
    BY <2>3, <2>4 DEF rows
<1>2. QED
  BY <1>1 DEF CountsOf, Tallies

SumOf(w, S) == MapThenSumSet(LAMBDA x : w[x], S)

\* A sum of the sizes of parts that do not overlap is the size of the whole.
LEMMA SumIs ==
  ASSUME NEW U, IsFiniteSet(U), NEW S, IsFiniteSet(S), NEW H \in [S -> SUBSET U],
         \A x, y \in S : x # y => H[x] \cap H[y] = {},
         NEW w, \A x \in S : w[x] = Cardinality(H[x])
  PROVE  SumOf(w, S) = Cardinality(UNION {H[x] : x \in S})
<1> DEFINE one(s) == CHOOSE x \in s : TRUE
           Body(f) == [s \in SUBSET S |-> IF s = {} THEN 0
                                          ELSE w[one(s)] + f[s \ {one(s)}]]
           sum == CHOOSE f : f = Body(f)
           joined(s) == UNION {H[x] : x \in s}
           g == [s \in SUBSET S |-> Cardinality(joined(s))]
           N == Cardinality(S)
<1>1. SumOf(w, S) = sum[S]
  BY DEF SumOf, MapThenSumSet, MapThenFoldSet
<1>2. \A s \in SUBSET S : joined(s) \in SUBSET U BY SMT
<1>3. \A s \in SUBSET S : IsFiniteSet(joined(s)) /\ Cardinality(joined(s)) \in Nat
  BY <1>2, FS_Subset, FS_CardinalityType
<1>4. ASSUME NEW s \in SUBSET S, s # {} PROVE g[s] = w[one(s)] + g[s \ {one(s)}]
  <2> DEFINE x == one(s)
             r == s \ {x}
  <2>1. x \in s /\ x \in S /\ r \in SUBSET S BY <1>4
  <2> HIDE DEF x
  <2>2. joined(s) = H[x] \cup joined(r) BY <2>1
  <2>3. H[x] \cap joined(r) = {} BY <2>1
  <2>4. IsFiniteSet(H[x]) /\ Cardinality(H[x]) \in Nat
    <3>1. H[x] \in SUBSET U BY <2>1
    <3> QED BY <3>1, FS_Subset, FS_CardinalityType
  <2>5. IsFiniteSet(joined(r)) /\ Cardinality(joined(r)) \in Nat BY <1>3, <2>1
  <2>6. g[s] = Cardinality(joined(s)) /\ g[r] = Cardinality(joined(r)) BY <2>1
  <2>7. w[x] = Cardinality(H[x]) BY <2>1
  <2> HIDE DEF joined, g, r
  <2>8. Cardinality(H[x] \cup joined(r))
          = Cardinality(H[x]) + Cardinality(joined(r)) - Cardinality(H[x] \cap joined(r))
    BY <2>4, <2>5, FS_Union
  <2>9. Cardinality({}) = 0 BY FS_EmptySet
  <2>10. g[s] = w[x] + g[r]
    <3>1. Cardinality(joined(s)) = Cardinality(H[x]) + Cardinality(joined(r)) - 0
      BY <2>2, <2>3, <2>8, <2>9
    <3> QED BY <2>4, <2>5, <2>6, <2>7, <3>1
  <2> QED BY <2>10 DEF x, r
<1>5. g[{}] = 0
  <2>1. joined({}) = {} /\ {} \in SUBSET S OBVIOUS
  <2> HIDE DEF joined
  <2> QED BY <2>1, FS_EmptySet
<1>6. g = Body(g)
  <2>1. g = [s \in SUBSET S |-> g[s]] OBVIOUS
  <2> HIDE DEF g, one
  <2> QED BY <1>4, <1>5, <2>1
<1>7. sum = Body(sum)
  <2> HIDE DEF g, Body
  <2> QED BY <1>6
<1> HIDE DEF sum, g
<1>8. sum[{}] = 0 /\ \A s \in SUBSET S : s # {} => sum[s] = w[one(s)] + sum[s \ {one(s)}]
  BY <1>7
<1> HIDE DEF Body
<1> DEFINE G == {n \in 0 .. N : \A s \in SUBSET S : Cardinality(s) = n => sum[s] = g[s]}
<1>9. N \in Nat BY FS_CardinalityType
<1>10. \A s \in SUBSET S : IsFiniteSet(s) /\ Cardinality(s) \in 0 .. N
  <2> SUFFICES ASSUME NEW s \in SUBSET S PROVE IsFiniteSet(s) /\ Cardinality(s) \in 0 .. N
    OBVIOUS
  <2>1. IsFiniteSet(s) /\ Cardinality(s) <= N BY FS_Subset
  <2>2. Cardinality(s) \in Nat BY <2>1, FS_CardinalityType
  <2> QED BY <1>9, <2>1, <2>2
<1> HIDE DEF N
<1>11. 0 \in G
  <2>1. ASSUME NEW s \in SUBSET S, Cardinality(s) = 0 PROVE sum[s] = g[s]
    <3>1. s = {} BY <1>10, <2>1, FS_EmptySet
    <3> QED BY <1>5, <1>8, <3>1
  <2> QED BY <1>9, <2>1
<1>12. ASSUME NEW n \in 0 .. N, n \in G, n < N PROVE n + 1 \in G
  <2>1. ASSUME NEW s \in SUBSET S, Cardinality(s) = n + 1 PROVE sum[s] = g[s]
    <3>1. s # {} BY <1>9, <2>1, FS_EmptySet
    <3>2. one(s) \in s BY <3>1
    <3> DEFINE x == one(s)
    <3> HIDE DEF x
    <3>3. s \ {x} \in SUBSET S /\ IsFiniteSet(s) BY <1>10
    <3>4. Cardinality(s \ {x}) = n
      <4>1. Cardinality(s \ {x}) = Cardinality(s) - 1 BY <3>2, <3>3, FS_RemoveElement DEF x
      <4> QED BY <1>9, <2>1, <4>1
    <3>5. sum[s \ {x}] = g[s \ {x}] BY <1>12, <3>3, <3>4
    <3>6. sum[s] = w[x] + sum[s \ {x}] BY <1>8, <3>1 DEF x
    <3>7. g[s] = w[x] + g[s \ {x}] BY <1>4, <3>1 DEF x
    <3> QED BY <3>5, <3>6, <3>7
  <2> QED BY <1>9, <1>12, <2>1
<1>13. N \in G
  <2>1. \A n \in 0 .. N : n \in G /\ n < N => n + 1 \in G BY <1>12
  <2> HIDE DEF G
  <2>2. \A n \in 0 .. N : n \in G BY <1>9, <1>11, <2>1, UpTo
  <2> QED BY <1>9, <2>2
<1>14. sum[S] = g[S] BY <1>13 DEF N
<1> QED BY <1>1, <1>14 DEF g

\* A list split into groups is as long as before.
LEMMA NumShownIs ==
  ASSUME NEW rows \in Seq(CardRows), Single(rows)
  PROVE  NumShown(rows) = Len(rows)
<1> DEFINE U == ToSet(rows)
           S == {BoardOf[rows[i].card] : i \in DOMAIN rows}
           part(b) == {row \in U : BoardOf[row.card] = b}
           H == [b \in S |-> part(b)]
           sizes == [b \in S |-> Len(Kept(rows, part(b)))]
<1>1. OnceEach(rows)
  BY DEF OnceEach, Single
<1>2. IsFiniteSet(U) /\ Len(rows) = Cardinality(U)
  BY <1>1, LengthIs
<1>3. IsFiniteSet(S)
  <2> DEFINE f == [row \in U |-> BoardOf[row.card]]
  <2>1. f \in [U -> S] /\ \A b \in S : \E row \in U : f[row] = b
    BY DEF ToSet
  <2>2. f \in Surjection(U, S)
    <3> HIDE DEF f, U, S
    <3>1. QED
      BY <2>1 DEF Surjection
  <2> HIDE DEF f, U, S
  <2>3. QED
    BY <1>2, <2>2, FS_Surjection
<1>4. ASSUME NEW b \in S PROVE sizes[b] = Cardinality(H[b])
  <2> DEFINE p == part(b)
             s == Kept(rows, p)
  <2>1. s \in Seq(CardRows) /\ OnceEach(s) /\ ToSet(s) = U \cap p
    <3> HIDE DEF p
    <3>1. QED
      BY SingleKept
  <2>2. U \cap p = p
    OBVIOUS
  <2>3. sizes[b] = Len(s) /\ H[b] = p
    OBVIOUS
  <2> HIDE DEF s, p, sizes, H
  <2>4. Len(s) = Cardinality(ToSet(s))
    BY <2>1, LengthIs
  <2>5. QED
    BY <2>1, <2>2, <2>3, <2>4
<1>5. H \in [S -> SUBSET U] /\ \A x, y \in S : x # y => H[x] \cap H[y] = {}
  OBVIOUS
<1>6. UNION {H[b] : b \in S} = U
  <2>1. ASSUME NEW row \in U PROVE \E b \in S : row \in H[b]
    BY <2>1 DEF ToSet
  <2>2. \A b \in S : H[b] \subseteq U
    OBVIOUS
  <2> HIDE DEF H, S, U
  <2>3. QED
    BY <2>1, <2>2
<1>7. NumShown(rows) = SumOf(sizes, S)
  <2>1. DOMAIN ProjectGroups(rows) = S
    BY DEF ProjectGroups
  <2>2. [b \in DOMAIN ProjectGroups(rows) |-> Len(ProjectGroups(rows)[b])] = sizes
    BY DEF ProjectGroups
  <2> HIDE DEF S, sizes
  <2>3. NumShown(rows)
          = SumOf([b \in DOMAIN ProjectGroups(rows) |-> Len(ProjectGroups(rows)[b])],
                  DOMAIN ProjectGroups(rows))
    BY DEF NumShown, SumOf
  <2>4. QED
    BY <2>1, <2>2, <2>3
<1> HIDE DEF U, S, H, sizes
<1>8. SumOf(sizes, S) = Cardinality(UNION {H[b] : b \in S})
  BY <1>2, <1>3, <1>4, <1>5, SumIs
<1>9. QED
  BY <1>2, <1>6, <1>7, <1>8

\* What is kept of the page's list is shown with its number.
LEMMA ShownIs ==
  ASSUME NEW list \in Seq(CardRows), Single(list), NEW rows
  PROVE  NumShown(Kept(list, rows)) = Cardinality(ToSet(list) \cap rows)
<1> DEFINE s == Kept(list, rows)
<1>1. s \in Seq(CardRows) /\ Single(s) /\ OnceEach(s) /\ ToSet(s) = ToSet(list) \cap rows
  BY SingleKept
<1> HIDE DEF s
<1>2. NumShown(s) = Len(s)
  BY <1>1, NumShownIs
<1>3. Len(s) = Cardinality(ToSet(s))
  BY <1>1, LengthIs
<1>4. QED
  BY <1>1, <1>2, <1>3 DEF s

\* The completions of today that are not finished can be counted.
LEMMA DayCounts ==
  ASSUME Typing
  PROVE  /\ IsFiniteSet(Waiting) /\ Cardinality(Waiting) \in Nat
         /\ IsFiniteSet(Sending) /\ Cardinality(Sending) \in Nat
<1>1. PICK N \in Nat : N = Len(reqs) /\ DOMAIN reqs = 1 .. N
  BY DEF Typing, ReqTypes
<1>2. PICK P : P = pending
  OBVIOUS
<1>3. IsFiniteSet(P) /\ Waiting \in SUBSET P
  BY <1>2 DEF Typing, PendingTypes, Waiting
<1>4. IsFiniteSet(1 .. N) /\ Sending \in SUBSET (1 .. N)
  BY <1>1, FS_Interval DEF Sending
<1>5. IsFiniteSet(Waiting) /\ IsFiniteSet(Sending)
  BY <1>3, <1>4, FS_Subset
<1>6. QED
  BY <1>5, FS_CardinalityType

\* Where nothing else is out, the page adds up.
LEMMA SumsShow == ASSUME Typing, Sums PROVE PageAddsUp
<1>1. SUFFICES ASSUME page.phase = "ready", ~Snoozing, ~mixed
               PROVE  /\ \A c \in Cards : Cardinality(Rows(c)) <= 1
                      /\ Tiles["today"] = NumShown(NoteRows("today"))
                      /\ Tiles["overdue"] = NumShown(NoteRows("overdue"))
                      /\ Tiles["this_week"] + page.counts["later"] = NumShown(Upcoming)
                      /\ RailCount = NumShown(NoDateRows)
                      /\ DaySummary.left >= 0
                      /\ DaySummary.total =
                           NumShown(NoteRows("today")) + finished
                             + Cardinality(Waiting) + Cardinality(Sending)
  BY DEF PageAddsUp, Waiting, Sending
<1>2. ~Out(Snoozes)
  <2>1. ~InFlight({"snooze", "snoozed", "unsnooze", "unsnoozed"})
    BY <1>1 DEF Snoozing
  <2>2. ~Out({"snooze", "snoozed", "unsnooze", "unsnoozed"})
    BY <2>1, OutIs DEF Typing
  <2>3. QED
    BY <2>2 DEF Out, Snoozes
<1>3. page.list \in Seq(CardRows) /\ Single(page.list) /\ Tallies(page.counts, page.list)
  BY <1>1, <1>2 DEF Typing, PageTypes, Sums, ListAddsUp, Settled
<1> DEFINE U == ToSet(page.list)
<1>4. ASSUME NEW g \in Groups
      PROVE NumShown(NoteRows(g)) = page.counts[g] /\ page.counts[g] \in Nat
  <2> DEFINE rows == Of(page.list, g)
  <2>1. NoteRows(g) = Kept(page.list, rows) /\ U \cap rows = rows
    BY DEF NoteRows, InGroup, Of
  <2>2. page.counts[g] = Cardinality(rows) /\ page.counts[g] \in Nat
    BY <1>3 DEF Tallies, Sums, Numbers
  <2> HIDE DEF rows
  <2>3. QED
    BY <1>3, <2>1, <2>2, ShownIs
<1>5. {"today", "overdue", "this_week", "later", "no_date"} \subseteq Groups
  BY DEF Groups
<1>6. NumShown(Upcoming) = page.counts["this_week"] + page.counts["later"]
  <2> DEFINE rows == {row \in U : Group(row.due) \in {"this_week", "later"}}
             a == Of(page.list, "this_week")
             b == Of(page.list, "later")
  <2>1. Upcoming = Kept(page.list, rows) /\ U \cap rows = rows
    BY DEF Upcoming
  <2>2. rows = a \cup b /\ a \cap b = {} /\ a \subseteq U /\ b \subseteq U
    BY DEF Of
  <2>3. page.counts["this_week"] = Cardinality(a) /\ page.counts["later"] = Cardinality(b)
    BY <1>3, <1>5 DEF Tallies
  <2> HIDE DEF rows, a, b
  <2>4. NumShown(Upcoming) = Cardinality(rows)
    BY <1>3, <2>1, ShownIs
  <2>5. IsFiniteSet(U)
    BY <1>3, SingleKept, LengthIs
  <2>6. IsFiniteSet(a) /\ IsFiniteSet(b) /\ Cardinality(a) \in Nat /\ Cardinality(b) \in Nat
    BY <2>2, <2>5, FS_Subset, FS_CardinalityType
  <2>7. Cardinality(a \cup b) = Cardinality(a) + Cardinality(b) - Cardinality(a \cap b)
    BY <2>6, FS_Union
  <2>8. Cardinality(a \cap b) = 0
    BY <2>2, FS_EmptySet
  <2>9. QED
    BY <2>2, <2>3, <2>4, <2>6, <2>7, <2>8
<1>7. ASSUME NEW c \in Cards PROVE Cardinality(Rows(c)) <= 1
  <2>1. \A i, j \in Rows(c) : i = j
    BY <1>3 DEF Rows, Single
  <2>2. CASE Rows(c) = {}
    BY <2>2, FS_EmptySet
  <2>3. CASE Rows(c) # {}
    <3>1. PICK i : Rows(c) = {i}
      BY <2>1, <2>3
    <3>2. Cardinality({i}) = 1
      BY FS_Singleton
    <3>3. 1 <= 1
      OBVIOUS
    <3>4. QED
      BY <3>1, <3>2, <3>3
  <2>4. QED
    BY <2>2, <2>3
<1>8. DaySummary.left = page.counts["today"]
      /\ DaySummary.total = page.counts["today"] + page.doneToday
  BY DEF DaySummary
<1>9. page.doneToday = finished + Cardinality(Waiting) + Cardinality(Sending)
  BY <1>1 DEF Sums, DayAddsUp
<1>11. Cardinality(Waiting) \in Nat /\ Cardinality(Sending) \in Nat /\ finished \in Nat
  BY DayCounts DEF Sums, Numbers
<1>12. /\ Tiles["today"] = page.counts["today"] /\ Tiles["overdue"] = page.counts["overdue"]
       /\ Tiles["this_week"] = page.counts["this_week"]
       /\ RailCount = page.counts["no_date"] /\ NoDateRows = NoteRows("no_date")
  BY DEF Tiles, RailCount, NoDateRows, NoteRows
<1>13. DaySummary.left >= 0
  BY <1>4, <1>5, <1>8
<1>14. DaySummary.total = NumShown(NoteRows("today")) + finished
                           + Cardinality(Waiting) + Cardinality(Sending)
  BY <1>4, <1>5, <1>8, <1>9, <1>11
<1>15. QED
  BY <1>4, <1>5, <1>6, <1>7, <1>12, <1>13, <1>14

\* The rows of a list with no card twice, without one and with one more.
LEMMA SingleWithout ==
  ASSUME NEW list \in Seq(CardRows), Single(list), NEW row \in ToSet(list)
  PROVE  /\ Single(Without(list, row.card))
         /\ ToSet(Without(list, row.card)) = ToSet(list) \ {row}
<1> DEFINE rows == {r \in ToSet(list) : r.card # row.card}
<1>1. Without(list, row.card) = Kept(list, rows)
  BY DEF Without
<1>2. ToSet(list) \cap rows = ToSet(list) \ {row}
  <2>1. ASSUME NEW r \in ToSet(list), r.card = row.card PROVE r = row
    <3>1. PICK i \in DOMAIN list : list[i] = r
      BY DEF ToSet
    <3>2. PICK j \in DOMAIN list : list[j] = row
      BY DEF ToSet
    <3>3. QED
      BY <2>1, <3>1, <3>2 DEF Single
  <2>2. QED
    BY <2>1
<1> HIDE DEF rows
<1>3. Single(Kept(list, rows)) /\ ToSet(Kept(list, rows)) = ToSet(list) \cap rows
  BY SingleKept
<1>4. QED
  BY <1>1, <1>2, <1>3

\* A card that is not listed: nothing to take off.
LEMMA WithoutNone ==
  ASSUME NEW list \in Seq(CardRows), Single(list), NEW c
  PROVE  Single(Without(list, c))
<1> DEFINE rows == {r \in ToSet(list) : r.card # c}
<1>1. Without(list, c) = Kept(list, rows)
  BY DEF Without
<1> HIDE DEF rows
<1>2. QED
  BY <1>1, SingleKept

\* A row put back.
LEMMA SingleAppended ==
  ASSUME NEW list \in Seq(CardRows), Single(list), NEW row \in CardRows,
         DuesIn(list, row.card) = {}
  PROVE  /\ Single(Append(list, row)) /\ row \notin ToSet(list)
         /\ ToSet(Append(list, row)) = ToSet(list) \cup {row}
<1> DEFINE more == Append(list, row)
<1>1. /\ DOMAIN more = DOMAIN list \cup {Len(list) + 1} /\ Len(list) + 1 \notin DOMAIN list
      /\ more[Len(list) + 1] = row /\ \A k \in DOMAIN list : more[k] = list[k]
  OBVIOUS
<1>2. \A k \in DOMAIN list : list[k].card # row.card
  BY DEF DuesIn
<1> HIDE DEF more
<1>3. Single(more)
  BY <1>1, <1>2 DEF Single
<1>4. row \notin ToSet(list)
  BY <1>2 DEF ToSet
<1>5. ToSet(more) = ToSet(list) \cup {row}
  BY <1>1 DEF ToSet
<1>6. QED
  BY <1>3, <1>4, <1>5 DEF more

\* A count that is adjusted stays a natural number.
LEMMA AdjustedIs ==
  ASSUME NEW counts \in [Groups -> Nat], NEW g \in Groups, NEW delta \in Int
  PROVE  /\ adjustCounts(counts, g, delta) \in [Groups -> Nat]
         /\ \A h \in Groups : h # g => adjustCounts(counts, g, delta)[h] = counts[h]
         /\ counts[g] + delta >= 0 => adjustCounts(counts, g, delta)[g] = counts[g] + delta
BY DEF adjustCounts, AtLeastZero

\* The counts follow the rows.
LEMMA TalliesFollow ==
  ASSUME NEW list \in Seq(CardRows), NEW more \in Seq(CardRows),
         Single(list), Single(more), NEW row \in CardRows,
         row \notin ToSet(list), ToSet(more) = ToSet(list) \cup {row},
         NEW counts \in [Groups -> Nat]
  PROVE  /\ Tallies(counts, list) => Tallies(adjustCounts(counts, Group(row.due), 1), more)
         /\ Tallies(counts, more) => Tallies(adjustCounts(counts, Group(row.due), -1), list)
<1> DEFINE g == Group(row.due)
<1>1. g \in Groups
  BY GroupIs DEF CardRows
<1> HIDE DEF g
<1>2. IsFiniteSet(ToSet(list)) /\ IsFiniteSet(ToSet(more))
  BY SingleKept, LengthIs
<1>3. ASSUME NEW h \in Groups
      PROVE IsFiniteSet(Of(list, h)) /\ Cardinality(Of(list, h)) \in Nat
  <2>1. Of(list, h) \in SUBSET ToSet(list)
    BY DEF Of
  <2>2. IsFiniteSet(Of(list, h))
    BY <1>2, <2>1, FS_Subset
  <2>3. QED
    BY <2>2, FS_CardinalityType
<1>4. \A h \in Groups : h # g => Of(more, h) = Of(list, h)
  BY DEF Of, g
<1>5. Of(more, g) = Of(list, g) \cup {row} /\ row \notin Of(list, g)
  BY DEF Of, g
<1>6. Cardinality(Of(more, g)) = Cardinality(Of(list, g)) + 1
  <2>1. IsFiniteSet(Of(list, g))
    BY <1>1, <1>3
  <2>2. QED
    BY <1>5, <2>1, FS_AddElement
<1>7. Cardinality(Of(list, g)) \in Nat
  BY <1>1, <1>3
<1>8. ASSUME Tallies(counts, list) PROVE Tallies(adjustCounts(counts, g, 1), more)
  <2>1. counts[g] = Cardinality(Of(list, g))
    BY <1>1, <1>8 DEF Tallies
  <2>2. adjustCounts(counts, g, 1)[g] = counts[g] + 1
    <3>1. counts[g] + 1 >= 0 /\ 1 \in Int
      BY <1>7, <2>1
    <3>2. QED
      BY <1>1, <3>1, AdjustedIs
  <2>3. \A h \in Groups : h # g => adjustCounts(counts, g, 1)[h] = counts[h]
    BY <1>1, AdjustedIs
  <2>4. QED
    BY <1>4, <1>6, <1>8, <2>1, <2>2, <2>3 DEF Tallies
<1>9. ASSUME Tallies(counts, more) PROVE Tallies(adjustCounts(counts, g, -1), list)
  <2>1. counts[g] = Cardinality(Of(list, g)) + 1
    BY <1>1, <1>6, <1>9 DEF Tallies
  <2>2. adjustCounts(counts, g, -1)[g] = counts[g] + (-1)
    <3>1. counts[g] + (-1) >= 0 /\ -1 \in Int
      BY <1>7, <2>1
    <3>2. QED
      BY <1>1, <3>1, AdjustedIs
  <2>3. \A h \in Groups : h # g => adjustCounts(counts, g, -1)[h] = counts[h]
    BY <1>1, AdjustedIs
  <2>4. adjustCounts(counts, g, -1)[g] = Cardinality(Of(list, g))
    BY <1>7, <2>1, <2>2
  <2>5. QED
    BY <1>4, <1>9, <2>3, <2>4 DEF Tallies
<1>10. QED
  BY <1>8, <1>9 DEF g

\* A request sent, whatever it is.
LEMMA SentLast ==
  ASSUME ReqTypes, NEW q, reqs' = Append(reqs, q)
  PROVE  /\ Members' = Members \cup {q}
         /\ \E new : /\ DOMAIN reqs' = DOMAIN reqs \cup {new} /\ new \notin DOMAIN reqs
                     /\ reqs'[new] = q /\ \A k \in DOMAIN reqs : reqs'[k] = reqs[k]
<1>1. reqs \in Seq(Requests \cup {q})
  BY DEF ReqTypes
<1>2. /\ DOMAIN reqs' = DOMAIN reqs \cup {Len(reqs) + 1} /\ Len(reqs) + 1 \notin DOMAIN reqs
      /\ reqs'[Len(reqs) + 1] = q /\ \A k \in DOMAIN reqs : reqs'[k] = reqs[k]
  BY <1>1
<1>3. Members' = Members \cup {q}
  BY <1>2 DEF Members, ToSet
<1>4. QED
  BY <1>2, <1>3

\* A request answered.
LEMMA SendingAway ==
  ASSUME Typing, NEW i \in DOMAIN reqs, reqs' = Away(i), page'.mount = page.mount,
         page'.phase = "left" <=> page.phase = "left"
  PROVE  Cardinality(Sending') = Cardinality(Sending \ {i})
<1> DEFINE f == [k \in Sending' |-> Place(i, k)]
<1>1. /\ \A k \in DOMAIN reqs' : /\ Place(i, k) \in DOMAIN reqs /\ Place(i, k) # i
                                 /\ reqs'[k] = reqs[Place(i, k)]
      /\ \A j, k \in DOMAIN reqs' : Place(i, j) = Place(i, k) => j = k
      /\ \A m \in DOMAIN reqs \ {i} : \E k \in DOMAIN reqs' : Place(i, k) = m
  BY AwayIs DEF Typing
<1>2. \A r : OfThisPage(r)' <=> OfThisPage(r)
  BY DEF OfThisPage
<1>3. \A k \in DOMAIN reqs' : k \in Sending' <=> Place(i, k) \in Sending
  BY <1>1, <1>2 DEF Sending, IsToday
<1>4. Sending' \subseteq DOMAIN reqs' /\ Sending \subseteq DOMAIN reqs
  BY DEF Sending
<1>5. f \in [Sending' -> Sending \ {i}]
  BY <1>1, <1>3, <1>4
<1>6. \A m \in Sending \ {i} : \E k \in Sending' : f[k] = m
  BY <1>1, <1>3, <1>4
<1>7. \A j, k \in Sending' : f[j] = f[k] => j = k
  BY <1>1, <1>4
<1>8. PICK S : S = Sending'
  OBVIOUS
<1>9. PICK T : T = Sending \ {i}
  OBVIOUS
<1>10. PICK b : b = f
  OBVIOUS
<1> HIDE DEF f
<1>11. b \in Bijection(S, T)
  BY <1>5, <1>6, <1>7, <1>8, <1>9, <1>10 DEF Bijection, Injection, Surjection, IsInjective
<1>12. IsFiniteSet(S)
  <2>1. PICK n \in Nat : DOMAIN reqs' = 1 .. n
    <3>1. ReqTypes'
      BY AwayIs DEF Typing
    <3>2. QED
      BY <3>1 DEF ReqTypes
  <2>2. IsFiniteSet(1 .. n) /\ S \in SUBSET (1 .. n)
    BY <1>4, <1>8, <2>1, FS_Interval
  <2>3. QED
    BY <2>2, FS_Subset
<1>13. Cardinality(S) = Cardinality(T)
  <2>1. ExistsBijection(S, T)
    BY <1>11 DEF ExistsBijection
  <2>2. QED
    BY <1>12, <2>1, FS_Bijection
<1>14. QED
  BY <1>8, <1>9, <1>13

\* Nothing that the sums are about changes.
LEMMA SumsLast ==
  ASSUME Sums, page' = page, finished' = finished, pending' = pending, mixed => mixed',
         \A r \in Members' : TakenAddsUp(r) /\ ReplyIsSingle(r),
         Out(Snoozes) => Out(Snoozes)', Cardinality(Sending') = Cardinality(Sending)
  PROVE  Sums'
<1>1. Numbers'
  BY DEF Sums, Numbers
<1>2. Waiting' = Waiting
  BY DEF Waiting, IsToday
<1>3. DayAddsUp'
  BY <1>2 DEF Sums, DayAddsUp
<1>4. Settled' => Settled
  BY DEF Settled
<1>5. ListAddsUp'
  BY <1>4 DEF Sums, ListAddsUp
<1>6. ASSUME NEW r \in Members' PROVE TakenAddsUp(r)' /\ ReplyIsSingle(r)'
  <2>1. OfThisPage(r)' <=> OfThisPage(r)
    BY DEF OfThisPage
  <2>2. TakenAddsUp(r) /\ ReplyIsSingle(r)
    OBVIOUS
  <2>3. QED
    BY <1>4, <2>1, <2>2 DEF TakenAddsUp, ReplyIsSingle
<1>7. QED
  BY <1>1, <1>3, <1>5, <1>6 DEF Sums

\* A request is sent that the sums are not about.
LEMMA SumsSent ==
  ASSUME Typing, Sums, page' = page, finished' = finished, pending' = pending,
         mixed => mixed', NEW q, reqs' = Append(reqs, q),
         q.kind \notin Snoozes \cup {"complete"}, q.stage = "sent"
  PROVE  Sums'
<1>1. PICK new : /\ DOMAIN reqs' = DOMAIN reqs \cup {new} /\ new \notin DOMAIN reqs
                 /\ reqs'[new] = q /\ \A k \in DOMAIN reqs : reqs'[k] = reqs[k]
  BY SentLast DEF Typing
<1>2. Members' = Members \cup {q}
  BY SentLast DEF Typing
<1>3. Sending' = Sending
  BY <1>1 DEF Sending, OfThisPage, IsToday
<1>4. TakenAddsUp(q) /\ ReplyIsSingle(q)
  BY DEF TakenAddsUp, ReplyIsSingle
<1>5. \A r \in Members' : TakenAddsUp(r) /\ ReplyIsSingle(r)
  BY <1>2, <1>4 DEF Sums
<1>6. Out(Snoozes) => Out(Snoozes)'
  BY <1>2 DEF Out, OfThisPage
<1>7. QED
  BY <1>3, <1>5, <1>6, SumsLast

\* The requests are as they were.
LEMMA SumsSame ==
  ASSUME Sums, page' = page, finished' = finished, pending' = pending,
         mixed => mixed', reqs' = reqs
  PROVE  Sums'
<1>1. Members' = Members /\ Sending' = Sending
  BY DEF Members, Sending, OfThisPage, IsToday
<1>2. \A r \in Members' : TakenAddsUp(r) /\ ReplyIsSingle(r)
  BY <1>1 DEF Sums
<1>3. Out(Snoozes) => Out(Snoozes)'
  BY <1>1 DEF Out, OfThisPage
<1>4. QED
  BY <1>1, <1>2, <1>3, SumsLast

\* A request changes, and is about the same.
LEMMA SumsChanged ==
  ASSUME Typing, Sums, page' = page, finished' = finished, pending' = pending,
         mixed' = mixed, NEW i \in DOMAIN reqs, NEW q, reqs' = [reqs EXCEPT ![i] = q],
         q.kind = "complete" <=> reqs[i].kind = "complete",
         q.kind \in Snoozes <=> reqs[i].kind \in Snoozes,
         q.mount = reqs[i].mount, q.row = reqs[i].row, q.prev = reqs[i].prev,
         ReplyIsSingle(q)
  PROVE  Sums'
<1>1. /\ DOMAIN reqs' = DOMAIN reqs /\ reqs'[i] = q
      /\ \A k \in DOMAIN reqs : k # i => reqs'[k] = reqs[k]
  BY DEF Typing, ReqTypes
<1>2. Sending' = Sending
  BY <1>1 DEF Sending, OfThisPage, IsToday
<1>3. Members' = Others(i) \cup {q} /\ Members = Others(i) \cup {reqs[i]}
  BY <1>1 DEF Members, Others, ToSet
<1>4. OfThisPage(q) <=> OfThisPage(reqs[i])
  BY DEF OfThisPage
<1>5. TakenAddsUp(q)
  BY <1>3, <1>4 DEF TakenAddsUp, Sums
<1>6. \A r \in Members' : TakenAddsUp(r) /\ ReplyIsSingle(r)
  BY <1>3, <1>5 DEF Sums
<1>7. Out(Snoozes) => Out(Snoozes)'
  BY <1>3, <1>4 DEF Out, OfThisPage
<1>8. QED
  BY <1>2, <1>6, <1>7, SumsLast

\* Closing the view, what others do and nothing at all.
LEMMA QuietSums ==
  ASSUME Typing, Sums,
         Close \/ (\E c \in Cards : Elsewhere(c)) \/ UNCHANGED vars
  PROVE  Sums'
<1>1. /\ page' = page /\ finished' = finished /\ pending' = pending /\ mixed' = mixed
      /\ reqs' = reqs
  BY DEF Close, Elsewhere, history, vars
<1>2. QED
  BY <1>1, SumsSame

\* The requests of the quick view and the undo of a snooze.
LEMMA SentSums ==
  ASSUME Typing, Sums,
         (\E c \in Cards : Open(c)) \/ toggleSubtask \/ (\E t \in toasts : undoSnooze(t))
  PROVE  Sums'
<1>1. CASE \E c \in Cards : Open(c)
  <2>1. PICK c \in Cards : Open(c)
    BY <1>1
  <2>2. PICK q : q = [Request("detail", c) EXCEPT !.view = inputs']
    OBVIOUS
  <2>3. q.kind = "detail" /\ q.stage = "sent"
    BY <2>2 DEF Request
  <2>4. /\ page' = page /\ finished' = finished /\ pending' = pending /\ mixed' = mixed
        /\ reqs' = Append(reqs, q)
    BY <2>1, <2>2 DEF Open, history
  <2>5. QED
    BY <2>3, <2>4, SumsSent DEF Snoozes
<1>2. CASE toggleSubtask
  <2>1. PICK q : q = [Request("toggle", view.row.card) EXCEPT
                        !.value = ~view.sub, !.view = view.id]
    OBVIOUS
  <2>2. q.kind = "toggle" /\ q.stage = "sent"
    BY <2>1 DEF Request
  <2>3. /\ page' = page /\ finished' = finished /\ pending' = pending /\ mixed' = mixed
        /\ reqs' = Append(reqs, q)
    BY <1>2, <2>1 DEF toggleSubtask, history
  <2>4. QED
    BY <2>2, <2>3, SumsSent DEF Snoozes
<1>3. CASE \E t \in toasts : undoSnooze(t)
  <2>1. PICK t \in toasts : undoSnooze(t)
    BY <1>3
  <2>2. PICK q : q = [Request("unsnooze", t.card) EXCEPT !.due = t.due, !.mount = t.mount]
    OBVIOUS
  <2>3. q.kind = "unsnooze" /\ q.stage = "sent"
    BY <2>2 DEF Request
  <2>4. /\ page' = page /\ finished' = finished /\ pending' = pending /\ (mixed => mixed')
        /\ reqs' = Append(reqs, q)
    BY <2>1, <2>2 DEF undoSnooze
  <2>5. QED
    BY <2>3, <2>4, SumsSent DEF Snoozes
<1>4. QED
  BY <1>1, <1>2, <1>3

\* A row is pending that was not, and one is not any more.
LEMMA WaitingIs ==
  ASSUME Typing, NEW row
  PROVE  /\ row \notin pending /\ pending' = pending \cup {row} =>
              Cardinality(Waiting') = Cardinality(Waiting) + IsToday(row)
         /\ row \in pending /\ pending' = pending \ {row} =>
              Cardinality(Waiting') = Cardinality(Waiting) - IsToday(row)
         /\ row \in Waiting => Cardinality(Waiting) >= 1
<1>1. PICK W : W = Waiting
  OBVIOUS
<1>2. IsFiniteSet(W) /\ Cardinality(W) \in Nat
  BY <1>1, DayCounts
<1>3. IsToday(row) \in {0, 1}
  BY DEF IsToday
<1>4. ASSUME row \notin pending, pending' = pending \cup {row}
      PROVE  Cardinality(Waiting') = Cardinality(Waiting) + IsToday(row)
  <2>1. CASE IsToday(row) = 1
    <3>1. Waiting' = W \cup {row} /\ row \notin W
      BY <1>1, <1>4, <2>1 DEF Waiting, IsToday
    <3>2. Cardinality(W \cup {row}) = Cardinality(W) + 1
      BY <1>2, <3>1, FS_AddElement
    <3>3. QED
      BY <1>1, <2>1, <3>1, <3>2
  <2>2. CASE IsToday(row) = 0
    <3>1. Waiting' = W
      BY <1>1, <1>4, <2>2 DEF Waiting, IsToday
    <3>2. QED
      BY <1>1, <1>2, <2>2, <3>1
  <2>3. QED
    BY <1>3, <2>1, <2>2
<1>5. ASSUME row \in pending, pending' = pending \ {row}
      PROVE  Cardinality(Waiting') = Cardinality(Waiting) - IsToday(row)
  <2>1. CASE IsToday(row) = 1
    <3>1. Waiting' = W \ {row} /\ row \in W
      BY <1>1, <1>5, <2>1 DEF Waiting, IsToday
    <3>2. Cardinality(W \ {row}) = Cardinality(W) - 1
      BY <1>2, <3>1, FS_RemoveElement
    <3>3. QED
      BY <1>1, <2>1, <3>1, <3>2
  <2>2. CASE IsToday(row) = 0
    <3>1. Waiting' = W
      BY <1>1, <1>5, <2>2 DEF Waiting, IsToday
    <3>2. QED
      BY <1>1, <1>2, <2>2, <3>1
  <2>3. QED
    BY <1>3, <2>1, <2>2
<1>6. row \in W => Cardinality(W) >= 1
  <2>1. row \in W => Cardinality(W) # 0
    BY <1>2, FS_EmptySet
  <2>2. QED
    BY <1>2, <2>1
<1>7. QED
  BY <1>1, <1>4, <1>5, <1>6

\* Completing a row takes it off the list and off its count.
LEMMA handleCompleteSums ==
  ASSUME Typing, Inv, Sums, NEW c \in Cards, handleComplete(c), page.phase = "ready",
         reqs' = reqs, finished' = finished
  PROVE  Sums'
<1>1. CASE IsPending(c) \/ ~Lists(c)
  <2>1. /\ page' = page /\ pending' = pending /\ mixed' = mixed
    BY <1>1 DEF handleComplete
  <2>2. QED
    BY <2>1, SumsSame
<1>2. CASE ~IsPending(c) /\ Lists(c)
  <2>1. PICK row : row = Listed(c)
    OBVIOUS
  <2>2. row \in CardRows /\ row.card = c
    BY <1>2, <2>1, ListedIs DEF Typing, PageTypes
  <2>3. row \in ToSet(page.list)
    <3>1. Rows(c) \in SUBSET Nat /\ Rows(c) # {}
      BY <1>2 DEF Rows, Lists, Typing, PageTypes
    <3>2. Min(Rows(c)) \in Rows(c)
      BY <3>1, MinIsIn
    <3>3. QED
      BY <2>1, <3>2 DEF Listed, Rows, ToSet
  <2>4. /\ page' = [page EXCEPT !.list = Without(page.list, c),
                      !.counts = adjustCounts(page.counts, Group(row.due), -1),
                      !.doneToday = page.doneToday + IsToday(row)]
        /\ pending' = pending \cup {row} /\ mixed' = (mixed \/ Snoozing)
    BY <1>2, <2>1 DEF handleComplete
  <2>5. /\ page'.list = Without(page.list, c)
        /\ page'.counts = adjustCounts(page.counts, Group(row.due), -1)
        /\ page'.doneToday = page.doneToday + IsToday(row)
        /\ page'.phase = page.phase /\ page'.mount = page.mount
    <3> HIDE DEF CardRows
    <3>1. QED
      BY <2>4 DEF Typing, PageTypes
  <2>6. ~mixed' => Settled /\ ~Out(Snoozes)
    <3>1. Snoozing <=> Out({"snooze", "snoozed", "unsnooze", "unsnoozed"})
      BY OutIs DEF Snoozing, Typing
    <3>2. QED
      BY <2>4, <3>1 DEF Settled, Out, Snoozes
  <2>7. page'.counts \in [Groups -> Nat]
    <3>1. Group(row.due) \in Groups /\ -1 \in Int
      BY <2>2, GroupIs DEF CardRows
    <3>2. PICK counts : counts = page.counts
      OBVIOUS
    <3>3. counts \in [Groups -> Nat]
      BY <3>2 DEF Sums, Numbers
    <3>4. QED
      BY <2>5, <3>1, <3>2, <3>3, AdjustedIs
  <2>8. Numbers'
    BY <2>5, <2>7 DEF Sums, Numbers, IsToday
  <2>9. \A r : OfThisPage(r)' <=> OfThisPage(r)
    BY <2>5 DEF OfThisPage
  <2>10. Members' = Members /\ Sending' = Sending
    BY <2>9 DEF Members, Sending, IsToday
  <2>11. DayAddsUp'
    <3>1. row \notin pending
      BY <1>2, <2>2 DEF IsPending
    <3>2. Cardinality(Waiting') = Cardinality(Waiting) + IsToday(row)
      BY <2>4, <3>1, WaitingIs
    <3>3. page.doneToday = finished + Cardinality(Waiting) + Cardinality(Sending)
      BY DEF Sums, DayAddsUp
    <3>4. IsToday(row) \in Nat
      BY DEF IsToday
    <3>5. QED
      BY <2>5, <2>10, <3>2, <3>3, <3>4, DayCounts DEF DayAddsUp, Sums, Numbers
  <2>12. ASSUME Settled' PROVE Single(page'.list) /\ Tallies(page'.counts, page'.list)
    <3>1. PICK list \in Seq(CardRows) : list = page.list
      BY DEF Typing, PageTypes
    <3>2. PICK counts \in [Groups -> Nat] : counts = page.counts
      BY DEF Sums, Numbers
    <3>3. Single(list) /\ Tallies(counts, list)
      BY <2>6, <2>12, <3>1, <3>2 DEF Sums, ListAddsUp, Settled
    <3>4. PICK less \in Seq(CardRows) : less = Without(list, c)
      BY WithoutIs
    <3>5. Single(less) /\ ToSet(less) = ToSet(list) \ {row}
      BY <2>2, <2>3, <3>1, <3>3, <3>4, SingleWithout
    <3>6. ToSet(list) = ToSet(less) \cup {row} /\ row \notin ToSet(less)
      BY <2>3, <3>1, <3>5
    <3>7. Tallies(adjustCounts(counts, Group(row.due), -1), less)
      BY <2>2, <3>3, <3>5, <3>6, TalliesFollow
    <3>8. QED
      BY <2>5, <3>1, <3>2, <3>4, <3>5, <3>7
  <2>13. ListAddsUp'
    BY <2>12 DEF ListAddsUp
  <2>14. ASSUME NEW r \in Members' PROVE TakenAddsUp(r)' /\ ReplyIsSingle(r)'
    <3>1. TakenAddsUp(r)'
      BY <2>6, <2>9, <2>10 DEF TakenAddsUp, Settled, Out
    <3>2. ReplyIsSingle(r)'
      BY <2>10 DEF Sums, ReplyIsSingle
    <3>3. QED
      BY <3>1, <3>2
  <2>15. QED
    BY <2>8, <2>11, <2>13, <2>14 DEF Sums
<1>3. QED
  BY <1>1, <1>2

\* A row is put back, on the list and in its count, where no snooze is out.
LEMMA RestoredSums ==
  ASSUME Typing, Sums, NEW row \in CardRows, page' = restorePending(row),
         finished' = finished, mixed' = mixed, Members' \subseteq Members,
         Settled => Hidden(row.card) /\ ~Out(Snoozes),
         page.phase # "left" =>
           page.doneToday - IsToday(row)
             = finished + Cardinality(Waiting') + Cardinality(Sending'),
         Cardinality(Waiting') \in Nat, Cardinality(Sending') \in Nat
  PROVE  Sums'
<1>1. /\ page'.list = Append(page.list, row)
      /\ page'.counts = adjustCounts(page.counts, Group(row.due), 1)
      /\ page'.doneToday = AtLeastZero(page.doneToday - IsToday(row))
      /\ page'.phase = page.phase /\ page'.mount = page.mount
  <2> HIDE DEF CardRows
  <2>1. QED
    BY DEF restorePending, Typing, PageTypes
<1>2. page'.counts \in [Groups -> Nat]
  <2>1. Group(row.due) \in Groups /\ 1 \in Int
    BY GroupIs DEF CardRows
  <2>2. PICK counts : counts = page.counts
    OBVIOUS
  <2>3. counts \in [Groups -> Nat]
    BY <2>2 DEF Sums, Numbers
  <2>4. QED
    BY <1>1, <2>1, <2>2, <2>3, AdjustedIs
<1>3. Numbers'
  BY <1>1, <1>2 DEF Sums, Numbers, IsToday, AtLeastZero
<1>4. DayAddsUp'
  BY <1>1 DEF DayAddsUp, Sums, Numbers, AtLeastZero
<1>5. Settled' <=> Settled
  BY <1>1 DEF Settled
<1>6. ASSUME Settled PROVE Single(page'.list) /\ Tallies(page'.counts, page'.list)
  <2>1. PICK list \in Seq(CardRows) : list = page.list
    BY DEF Typing, PageTypes
  <2>2. PICK counts \in [Groups -> Nat] : counts = page.counts
    BY DEF Sums, Numbers
  <2>3. Single(list) /\ Tallies(counts, list) /\ DuesIn(list, row.card) = {}
    BY <1>6, <2>1, <2>2 DEF Sums, ListAddsUp, Hidden
  <2>4. PICK more \in Seq(CardRows) : more = Append(list, row)
    BY AppendedIs
  <2>5. Single(more) /\ row \notin ToSet(list) /\ ToSet(more) = ToSet(list) \cup {row}
    BY <2>3, <2>4, SingleAppended
  <2>6. Tallies(adjustCounts(counts, Group(row.due), 1), more)
    BY <2>3, <2>5, TalliesFollow
  <2>7. QED
    BY <1>1, <2>1, <2>2, <2>4, <2>5, <2>6
<1>7. ListAddsUp'
  BY <1>5, <1>6 DEF ListAddsUp
<1>8. ASSUME NEW r \in Members' PROVE TakenAddsUp(r)' /\ ReplyIsSingle(r)'
  <2>1. TakenAddsUp(r)'
    <3>1. r \in Members /\ (OfThisPage(r)' <=> OfThisPage(r))
      BY <1>1 DEF OfThisPage
    <3>2. QED
      BY <1>5, <3>1 DEF TakenAddsUp, Out
  <2>2. ReplyIsSingle(r)'
    BY DEF Sums, ReplyIsSingle
  <2>3. QED
    BY <2>1, <2>2
<1>9. QED
  BY <1>3, <1>4, <1>7, <1>8 DEF Sums

\* An undone completion is counted again, and not as done.
LEMMA undoCompleteSums ==
  ASSUME Typing, Inv, Sums, NEW row \in pending, undoComplete(row)
  PROVE  Sums'
<1>1. /\ page' = restorePending(row) /\ pending' = pending \ {row}
      /\ finished' = finished /\ mixed' = mixed /\ reqs' = reqs
  BY DEF undoComplete
<1>2. row \in CardRows /\ page.phase = "ready"
  BY DEF Typing, PendingTypes, Inv, PageState
<1>3. page'.phase = page.phase /\ page'.mount = page.mount
  BY <1>1 DEF restorePending, Typing, PageTypes
<1>4. Members' = Members /\ Sending' = Sending
  BY <1>1, <1>3 DEF Members, Sending, OfThisPage, IsToday
<1>5. ASSUME Settled PROVE Hidden(row.card) /\ ~Out(Snoozes)
  <2>1. Hidden(row.card)
    BY <1>5 DEF Inv, PageState
  <2>2. \A r \in Members : OfThisPage(r) => r.kind \notin Snoozes
    BY <1>5 DEF Inv, Working, SnoozeKinds
  <2>3. QED
    BY <2>1, <2>2 DEF Out
<1>6. Cardinality(Waiting') = Cardinality(Waiting) - IsToday(row)
  BY <1>1, WaitingIs
<1>7. page.doneToday = finished + Cardinality(Waiting) + Cardinality(Sending)
  BY <1>2 DEF Sums, DayAddsUp
<1>8. IsToday(row) = 1 => Cardinality(Waiting) >= 1
  <2>1. IsToday(row) = 1 => row \in Waiting
    BY DEF Waiting
  <2>2. QED
    BY <2>1, WaitingIs
<1>9. IsToday(row) \in {0, 1}
  BY DEF IsToday
<1>10. Cardinality(Waiting') \in Nat
       /\ page.doneToday - IsToday(row)
            = finished + Cardinality(Waiting') + Cardinality(Sending')
  BY <1>4, <1>6, <1>7, <1>8, <1>9, DayCounts DEF Sums, Numbers
<1>11. Cardinality(Sending') \in Nat
  BY <1>4, DayCounts
<1>12. QED
  BY <1>1, <1>2, <1>4, <1>5, <1>10, <1>11, RestoredSums

\* A completion is sent: it is still to be finished.
LEMMA commitCompleteSums ==
  ASSUME Typing, Inv, Sums, NEW row \in pending, commitComplete(row)
  PROVE  Sums'
<1>1. /\ page' = page /\ pending' = pending \ {row} /\ finished' = finished /\ mixed' = mixed
      /\ reqs' = Append(reqs, Completion(row))
  BY DEF commitComplete
<1>2. row \in CardRows /\ page.phase = "ready" /\ page.mount \in Nat
  BY DEF Typing, PageTypes, PendingTypes, Inv, PageState
<1>3. PICK q : q = Completion(row)
  OBVIOUS
<1>4. q.kind = "complete" /\ q.row = row /\ q.mount = page.mount /\ q.stage = "sent"
  BY <1>2, <1>3, CompletionIs
<1>5. PICK new : /\ DOMAIN reqs' = DOMAIN reqs \cup {new} /\ new \notin DOMAIN reqs
                 /\ reqs'[new] = q /\ \A k \in DOMAIN reqs : reqs'[k] = reqs[k]
  BY <1>1, <1>3, SentLast DEF Typing
<1>6. Members' = Members \cup {q}
  BY <1>1, <1>3, SentLast DEF Typing
<1>7. IsToday(row) \in {0, 1}
  BY DEF IsToday
<1>8. Cardinality(Sending') = Cardinality(Sending) + IsToday(row)
  <2>1. PICK S : S = Sending
    OBVIOUS
  <2>2. IsFiniteSet(S) /\ Cardinality(S) \in Nat
    BY <2>1, DayCounts
  <2>3. CASE IsToday(row) = 1
    <3>1. Sending' = S \cup {new} /\ new \notin S
      BY <1>1, <1>2, <1>4, <1>5, <2>1, <2>3 DEF Sending, OfThisPage, IsToday
    <3>2. Cardinality(S \cup {new}) = Cardinality(S) + 1
      BY <2>2, <3>1, FS_AddElement
    <3>3. QED
      BY <2>1, <2>3, <3>1, <3>2
  <2>4. CASE IsToday(row) = 0
    <3>1. Sending' = S
      BY <1>1, <1>4, <1>5, <2>1, <2>4 DEF Sending, OfThisPage, IsToday
    <3>2. QED
      BY <2>1, <2>2, <2>4, <3>1
  <2>5. QED
    BY <1>7, <2>3, <2>4
<1>9. Cardinality(Waiting') = Cardinality(Waiting) - IsToday(row)
  BY <1>1, WaitingIs
<1>10. Numbers' /\ ListAddsUp'
  <2>1. Out(Snoozes) => Out(Snoozes)'
    BY <1>1, <1>6 DEF Out, OfThisPage
  <2>2. QED
    BY <1>1, <2>1 DEF Sums, Numbers, ListAddsUp, Settled
<1>11. DayAddsUp'
  BY <1>1, <1>7, <1>8, <1>9, DayCounts DEF Sums, DayAddsUp, Numbers
<1>12. ASSUME NEW r \in Members' PROVE TakenAddsUp(r)' /\ ReplyIsSingle(r)'
  <2>1. CASE r = q
    BY <1>4, <2>1 DEF TakenAddsUp, ReplyIsSingle, Snoozes, Reads
  <2>2. CASE r \in Members
    BY <1>1, <2>2 DEF Sums, TakenAddsUp, ReplyIsSingle, Settled, OfThisPage
  <2>3. QED
    BY <1>6, <2>1, <2>2
<1>13. QED
  BY <1>10, <1>11, <1>12 DEF Sums

\* A page that is entered has nothing to count.
LEMMA EnterSums == ASSUME Typing, Inv, Sums, Enter PROVE Sums'
<1>1. /\ page.phase = "left" /\ page' = Blank(inputs') /\ finished' = 0
      /\ reqs' = Append(reqs, [Request("load", 0) EXCEPT !.mount = inputs'])
      /\ pending' = pending /\ inputs' = inputs + 1
  BY DEF Enter, Input
<1>2. /\ page'.phase = "loading" /\ page'.counts = [g \in Groups |-> 0]
      /\ page'.doneToday = 0 /\ page'.mount = inputs'
  BY <1>1 DEF Blank
<1>3. pending = {} /\ page.mount <= inputs /\ page.mount \in Nat /\ inputs \in Nat
  BY <1>1 DEF Inv, PageState, Typing, PageTypes
<1>4. PICK q : q = [Request("load", 0) EXCEPT !.mount = inputs']
  OBVIOUS
<1>5. q.kind = "load" /\ q.stage = "sent"
  BY <1>4 DEF Request
<1>6. PICK new : /\ DOMAIN reqs' = DOMAIN reqs \cup {new} /\ new \notin DOMAIN reqs
                 /\ reqs'[new] = q /\ \A k \in DOMAIN reqs : reqs'[k] = reqs[k]
  BY <1>1, <1>4, SentLast DEF Typing
<1>7. Members' = Members \cup {q}
  BY <1>1, <1>4, SentLast DEF Typing
<1>8. Sending' = {}
  <2>1. ASSUME NEW k \in DOMAIN reqs PROVE reqs[k].mount # inputs'
    <3>1. PICK r \in Members : r = reqs[k]
      BY DEF Members, ToSet
    <3>2. r \in Requests /\ Known(r)
      BY MemberIs
    <3>3. r.mount \in Nat /\ r.mount <= page.mount
      BY <3>2 DEF Requests, Known
    <3>4. QED
      BY <1>1, <1>3, <3>1, <3>3
  <2>2. QED
    BY <1>2, <1>5, <1>6, <2>1 DEF Sending, OfThisPage
<1>9. Waiting' = {}
  BY <1>1, <1>3 DEF Waiting
<1>10. Numbers' /\ DayAddsUp' /\ ListAddsUp'
  <2>1. Cardinality({}) = 0
    BY FS_EmptySet
  <2>2. Numbers'
    BY <1>1, <1>2 DEF Numbers
  <2>3. DayAddsUp'
    BY <1>1, <1>2, <1>8, <1>9, <2>1 DEF DayAddsUp
  <2>4. ListAddsUp'
    BY <1>2 DEF ListAddsUp, Settled
  <2>5. QED
    BY <2>2, <2>3, <2>4
<1>11. ASSUME NEW r \in Members' PROVE TakenAddsUp(r)' /\ ReplyIsSingle(r)'
  BY <1>2, <1>5, <1>7 DEF Sums, TakenAddsUp, ReplyIsSingle, Settled
<1>12. QED
  BY <1>10, <1>11 DEF Sums

\* A page that is left counts nothing.
LEMMA LeaveSums == ASSUME Typing, OnePending, Inv, Sums, Leave PROVE Sums'
<1>1. /\ page' = [page EXCEPT !.phase = "left"] /\ finished' = finished
      /\ reqs' = reqs \o Flush
  BY DEF Leave
<1>2. page'.phase = "left" /\ page'.counts = page.counts /\ page'.doneToday = page.doneToday
  BY <1>1 DEF Typing, PageTypes
<1>3. ASSUME NEW r \in Members' PROVE ReplyIsSingle(r)'
  <2>1. CASE r \in Members
    BY <2>1 DEF Sums, ReplyIsSingle
  <2>2. CASE \E row \in pending : r = Completion(row)
    <3>1. r.stage = "sent"
      BY <2>2 DEF Completion, Request
    <3>2. QED
      BY <3>1 DEF ReplyIsSingle
  <2>3. r \in Members \/ \E row \in pending : r = Completion(row)
    <3> DEFINE X == {Completion(row) : row \in pending}
    <3>1. PICK rows : /\ rows = SetToSeq(pending) /\ rows \in Seq(CardRows)
                      /\ \A p : p \in pending <=> \E i \in DOMAIN rows : p = rows[i]
      BY FlushIs DEF Typing
    <3>2. Flush = [i \in DOMAIN rows |-> Completion(rows[i])]
      BY <3>1 DEF Flush
    <3>3. \A i \in DOMAIN rows : Completion(rows[i]) \in X
      BY <3>1
    <3> HIDE DEF X
    <3>4. Flush \in Seq(X)
      <4>1. Len(rows) \in Nat /\ DOMAIN rows = 1 .. Len(rows)
        BY <3>1
      <4>2. QED
        BY <3>2, <3>3, <4>1
    <3>5. reqs \in Seq(Requests)
      BY DEF Typing, ReqTypes
    <3>6. PICK k \in DOMAIN reqs' : r = reqs'[k]
      BY DEF Members, ToSet
    <3>7. (k \in DOMAIN reqs /\ reqs'[k] = reqs[k]) \/ reqs'[k] \in X
      BY <1>1, <3>4, <3>5, <3>6
    <3>8. QED
      BY <3>6, <3>7 DEF Members, ToSet, X
  <2>4. QED
    BY <2>1, <2>2, <2>3
<1>4. Numbers' /\ DayAddsUp' /\ ListAddsUp' /\ \A r \in Members' : TakenAddsUp(r)'
  BY <1>1, <1>2 DEF Sums, Numbers, DayAddsUp, ListAddsUp, TakenAddsUp, Settled
<1>5. QED
  BY <1>3, <1>4 DEF Sums

\* A snooze takes a row off the list, and keeps the list it took it from.
LEMMA handleSnoozeSums ==
  ASSUME Typing, Inv, Sums, NEW offset \in Offsets, handleSnooze(offset)
  PROVE  Sums'
<1> DEFINE c == view.row.card
           row == IF Lists(c) THEN Listed(c) ELSE NoRow
           prev == [list |-> page.list, known |-> known]
<1>1. /\ page' = [page EXCEPT !.list = Without(page.list, c)]
      /\ mixed' = (mixed \/ Snoozing \/ pending # {} \/ InFlight({"complete"}))
      /\ pending' = pending /\ finished' = finished /\ view.id # Closed
      /\ reqs' = Append(reqs, [Request("snooze", c) EXCEPT !.due = Today + offset,
                                                           !.row = row, !.prev = prev])
  BY DEF handleSnooze
<1>2. page.phase = "ready" /\ page.mount \in Nat
  BY <1>1 DEF Typing, PageTypes, Inv, PageState
<1>3. PICK q : q = [Request("snooze", c) EXCEPT !.due = Today + offset, !.row = row,
                                                !.prev = prev]
  OBVIOUS
<1>4. /\ q.kind = "snooze" /\ q.mount = page.mount /\ q.stage = "sent"
      /\ q.prev.list = page.list
  <2> HIDE DEF c, row
  <2>1. QED
    BY <1>3 DEF Request
<1>5. PICK new : /\ DOMAIN reqs' = DOMAIN reqs \cup {new} /\ new \notin DOMAIN reqs
                 /\ reqs'[new] = q /\ \A k \in DOMAIN reqs : reqs'[k] = reqs[k]
  BY <1>1, <1>3, SentLast DEF Typing
<1>6. Members' = Members \cup {q}
  BY <1>1, <1>3, SentLast DEF Typing
<1> HIDE DEF c, row, prev
<1>7. /\ page'.list = Without(page.list, c) /\ page'.counts = page.counts
      /\ page'.doneToday = page.doneToday /\ page'.phase = page.phase
      /\ page'.mount = page.mount
  BY <1>1 DEF Typing, PageTypes
<1>8. \A r : OfThisPage(r)' <=> OfThisPage(r)
  BY <1>7 DEF OfThisPage
<1>9. Sending' = Sending /\ Waiting' = Waiting
  BY <1>1, <1>4, <1>5, <1>8 DEF Sending, Waiting, IsToday
<1>10. Numbers' /\ DayAddsUp'
  BY <1>1, <1>7, <1>9 DEF Sums, Numbers, DayAddsUp
<1>11. ~mixed' => Settled /\ ~Out(Snoozes)
  <2>1. Snoozing <=> Out({"snooze", "snoozed", "unsnooze", "unsnoozed"})
    BY OutIs DEF Snoozing, Typing
  <2>2. QED
    BY <1>1, <1>2, <2>1 DEF Settled, Out, Snoozes
<1>12. ~mixed' => Single(page.list) /\ Tallies(page.counts, page.list)
  BY <1>11 DEF Sums, ListAddsUp
<1>13. Out(Snoozes)'
  <2>1. OfThisPage(q)' /\ q.kind \in Snoozes
    BY <1>2, <1>4, <1>7 DEF OfThisPage, Snoozes
  <2>2. QED
    BY <1>6, <2>1 DEF Out
<1>14. ListAddsUp'
  <2>1. ASSUME Settled' PROVE Single(page'.list)
    <3>1. PICK list \in Seq(CardRows) : list = page.list
      BY DEF Typing, PageTypes
    <3>2. Single(list)
      BY <1>12, <2>1, <3>1 DEF Settled
    <3>3. Single(Without(list, c))
      BY <3>2, WithoutNone
    <3>4. QED
      BY <1>7, <3>1, <3>3
  <2>2. QED
    BY <1>13, <2>1 DEF ListAddsUp
<1>15. ASSUME NEW r \in Members' PROVE TakenAddsUp(r)' /\ ReplyIsSingle(r)'
  <2>1. CASE r = q
    BY <1>4, <1>7, <1>12, <2>1 DEF TakenAddsUp, ReplyIsSingle, Settled
  <2>2. CASE r \in Members
    BY <1>8, <1>11, <2>2 DEF Sums, TakenAddsUp, ReplyIsSingle, Settled, Out
  <2>3. QED
    BY <1>6, <2>1, <2>2
<1>16. QED
  BY <1>10, <1>14, <1>15 DEF Sums

\* What a GET answers has no card twice.
LEMMA InboxIsSingle == Single(Inbox.list)
<1> DEFINE every == [c \in Cards |-> c]
           mine == {c \in Cards : InInbox(c)}
           ids == Kept(every, mine)
<1>1. every \in Seq(Cards) /\ OnceEach(every)
  BY MyWorkAssumption DEF Cards, OnceEach
<1>2. OnceEach(ids)
  <2> HIDE DEF every, mine
  <2>1. QED
    BY <1>1, KeptIs
<1>3. Inbox.list = [i \in DOMAIN ids |-> [card |-> ids[i], due |-> db[ids[i]].due,
                                          done |-> db[ids[i]].sub]]
  BY DEF Inbox
<1> HIDE DEF ids
<1>4. QED
  BY <1>2, <1>3 DEF Single, OnceEach

\* The server answers a request of any kind.
LEMMA ServeSums ==
  ASSUME Typing, Inv, Sums, NEW i \in DOMAIN reqs, Serve(i) PROVE Sums'
<1> DEFINE c == reqs[i].card
<1>1. PICK r \in Members : r = reqs[i]
  BY DEF Members, ToSet
<1>2. /\ r \in Requests /\ page' = page /\ finished' = finished /\ pending' = pending
      /\ mixed' = mixed
  BY <1>1, MemberIs DEF Serve, history
<1>3. ASSUME NEW q, q.kind = r.kind, q.mount = r.mount, q.row = r.row, q.prev = r.prev,
             reqs' = [reqs EXCEPT ![i] = q], ReplyIsSingle(q)
      PROVE  Sums'
  BY <1>1, <1>2, <1>3, SumsChanged
<1>4. ASSUME r.kind \notin Reads, reqs' = [reqs EXCEPT ![i].stage = "refused"]
      PROVE  Sums'
  <2>1. PICK q : q = [r EXCEPT !.stage = "refused"]
    OBVIOUS
  <2>2. /\ q.kind = r.kind /\ q.mount = r.mount /\ q.row = r.row /\ q.prev = r.prev
        /\ reqs' = [reqs EXCEPT ![i] = q]
    BY <1>1, <1>2, <1>4, <2>1 DEF Requests
  <2>3. ReplyIsSingle(q)
    BY <1>4, <2>2 DEF ReplyIsSingle
  <2>4. QED
    BY <1>3, <2>2, <2>3
<1>5. ASSUME r.kind \notin Reads, NEW ver, reqs' = [reqs EXCEPT ![i].stage = "ok", ![i].reply.known[c] = ver]
      PROVE  Sums'
  <2>1. PICK q : q = [r EXCEPT !.stage = "ok", !.reply.known[c] = ver]
    OBVIOUS
  <2>2. reqs' = [reqs EXCEPT ![i] = q]
    BY <1>1, <1>5, <2>1
  <2>3. q.kind = r.kind /\ q.mount = r.mount /\ q.row = r.row /\ q.prev = r.prev
    BY <1>2, <2>1 DEF Requests
  <2>4. ReplyIsSingle(q)
    BY <1>5, <2>3 DEF ReplyIsSingle
  <2>5. QED
    BY <1>3, <2>2, <2>3, <2>4
<1>6. CASE r.kind \in {"complete", "snooze", "unsnooze"}
  <2>1. r.kind \notin Reads
    BY <1>6 DEF Reads
  <2>2. \/ reqs' = [reqs EXCEPT ![i].stage = "refused"]
        \/ reqs' = [reqs EXCEPT ![i].stage = "ok", ![i].reply.known[c] = db[c].ver + 1]
    BY <1>1, <1>6 DEF Serve, Reads
  <2> HIDE DEF c
  <2>3. QED
    BY <1>4, <1>5, <2>1, <2>2
<1>7. CASE r.kind \in Reads
  <2>1. reqs' = [reqs EXCEPT ![i].stage = "ok", ![i].reply = Inbox]
    BY <1>1, <1>7 DEF Serve, Reads
  <2>2. PICK q : q = [r EXCEPT !.stage = "ok", !.reply = Inbox]
    OBVIOUS
  <2>3. reqs' = [reqs EXCEPT ![i] = q]
    BY <1>1, <2>1, <2>2
  <2>4. /\ q.kind = r.kind /\ q.mount = r.mount /\ q.row = r.row /\ q.prev = r.prev
        /\ q.reply = Inbox
    BY <1>2, <2>2 DEF Requests
  <2>5. ReplyIsSingle(q)
    BY <2>4, InboxIsSingle DEF ReplyIsSingle
  <2>6. QED
    BY <1>3, <2>3, <2>4, <2>5
<1>8. CASE r.kind = "toggle"
  <2>1. reqs' = [reqs EXCEPT ![i].stage = "ok"]
    BY <1>1, <1>8 DEF Serve, Reads
  <2>2. PICK q : q = [r EXCEPT !.stage = "ok"]
    OBVIOUS
  <2>3. /\ q.kind = r.kind /\ q.mount = r.mount /\ q.row = r.row /\ q.prev = r.prev
        /\ reqs' = [reqs EXCEPT ![i] = q]
    BY <1>1, <1>2, <2>1, <2>2 DEF Requests
  <2>4. ReplyIsSingle(q)
    BY <1>8, <2>3 DEF ReplyIsSingle, Reads
  <2>5. QED
    BY <1>3, <2>3, <2>4
<1>9. CASE r.kind = "detail"
  <2>1. reqs' = [reqs EXCEPT ![i].stage = "ok", ![i].value = db[c].sub,
                             ![i].reply.known[c] = db[c].subver]
    BY <1>1, <1>9 DEF Serve, Reads
  <2>2. PICK q : q = [r EXCEPT !.stage = "ok", !.value = db[c].sub,
                               !.reply.known[c] = db[c].subver]
    OBVIOUS
  <2>3. reqs' = [reqs EXCEPT ![i] = q]
    BY <1>1, <2>1, <2>2
  <2>4. q.kind = r.kind /\ q.mount = r.mount /\ q.row = r.row /\ q.prev = r.prev
    BY <1>2, <2>2 DEF Requests
  <2>5. ReplyIsSingle(q)
    BY <1>9, <2>4 DEF ReplyIsSingle, Reads
  <2>6. QED
    BY <1>3, <2>3, <2>4, <2>5
<1>10. QED
  BY <1>1, <1>6, <1>7, <1>8, <1>9 DEF Serve

\* A request is away that the sums are not about.
LEMMA SumsAway ==
  ASSUME Typing, Sums, page' = page, finished' = finished, pending' = pending,
         mixed => mixed', NEW i \in DOMAIN reqs, reqs' = Away(i),
         ~OfThisPage(reqs[i]) \/ reqs[i].kind \notin Snoozes \cup {"complete"}
  PROVE  Sums'
<1>1. Members' = Others(i) /\ Members = Others(i) \cup {reqs[i]}
  BY AwayIs, MembersAre DEF Typing
<1>2. Cardinality(Sending') = Cardinality(Sending)
  <2>1. i \notin Sending
    BY DEF Sending
  <2>2. Sending \ {i} = Sending
    BY <2>1
  <2>3. Cardinality(Sending') = Cardinality(Sending \ {i})
    BY SendingAway
  <2>4. QED
    BY <2>2, <2>3
<1>3. \A r \in Members' : TakenAddsUp(r) /\ ReplyIsSingle(r)
  BY <1>1 DEF Sums
<1>4. Out(Snoozes) => Out(Snoozes)'
  BY <1>1 DEF Out, OfThisPage
<1>5. QED
  BY <1>2, <1>3, <1>4, SumsLast

\* A completion of this page is no more to be finished.
LEMMA SendingLess ==
  ASSUME Typing, NEW i \in DOMAIN reqs, reqs[i].kind = "complete", OfThisPage(reqs[i]),
         reqs' = Away(i), page'.mount = page.mount, page'.phase = page.phase
  PROVE  /\ Cardinality(Sending') = Cardinality(Sending) - IsToday(reqs[i].row)
         /\ Cardinality(Sending') \in Nat
<1>1. PICK S : S = Sending
  OBVIOUS
<1>2. IsFiniteSet(S) /\ Cardinality(S) \in Nat
  BY <1>1, DayCounts
<1>3. Cardinality(Sending') = Cardinality(S \ {i})
  BY <1>1, SendingAway
<1>4. IsToday(reqs[i].row) \in {0, 1}
  BY DEF IsToday
<1>5. i \in S <=> IsToday(reqs[i].row) = 1
  BY <1>1 DEF Sending
<1>6. i \in S => Cardinality(S \ {i}) = Cardinality(S) - 1
  BY <1>2, FS_RemoveElement
<1>7. i \notin S => S \ {i} = S
  OBVIOUS
<1>8. IsFiniteSet(S \ {i}) /\ Cardinality(S \ {i}) \in Nat
  <2>1. S \ {i} \in SUBSET S
    OBVIOUS
  <2>2. IsFiniteSet(S \ {i})
    BY <1>2, <2>1, FS_Subset
  <2>3. QED
    BY <2>2, FS_CardinalityType
<1>9. CASE i \in S
  BY <1>1, <1>3, <1>5, <1>6, <1>8, <1>9
<1>10. CASE i \notin S
  <2>1. IsToday(reqs[i].row) = 0 /\ S \ {i} = S
    BY <1>4, <1>5, <1>7, <1>10
  <2>2. QED
    BY <1>1, <1>2, <1>3, <2>1
<1>11. QED
  BY <1>9, <1>10

\* A completion that is finished: what is done today is as before.
LEMMA AnsweredCompleteSums ==
  ASSUME Typing, Sums, NEW i \in DOMAIN reqs, NEW r \in Members, r = reqs[i],
         r.kind = "complete", OfThisPage(r), reqs' = Away(i),
         finished' = finished + IsToday(r.row), page' = page, pending' = pending,
         mixed' = mixed
  PROVE  Sums'
<1>1. Members' = Others(i) /\ Members = Others(i) \cup {r}
  BY AwayIs, MembersAre DEF Typing
<1>2. /\ Cardinality(Sending') = Cardinality(Sending) - IsToday(r.row)
      /\ Cardinality(Sending') \in Nat
  BY SendingLess
<1>3. Waiting' = Waiting
  BY DEF Waiting, IsToday
<1>4. IsToday(r.row) \in Nat
  BY DEF IsToday
<1>5. Numbers'
  BY <1>4 DEF Sums, Numbers
<1>6. DayAddsUp'
  <2>1. page.doneToday = finished + Cardinality(Waiting) + Cardinality(Sending)
    BY DEF Sums, DayAddsUp, OfThisPage
  <2>2. finished \in Nat /\ Cardinality(Waiting) \in Nat /\ Cardinality(Sending) \in Nat
    BY DayCounts DEF Sums, Numbers
  <2>3. QED
    BY <1>2, <1>3, <1>4, <2>1, <2>2 DEF DayAddsUp
<1>7. ListAddsUp'
  <2>1. Out(Snoozes) => Out(Snoozes)'
    BY <1>1 DEF Out, OfThisPage, Snoozes
  <2>2. QED
    BY <2>1 DEF Sums, ListAddsUp, Settled
<1>8. ASSUME NEW a \in Members' PROVE TakenAddsUp(a)' /\ ReplyIsSingle(a)'
  BY <1>1 DEF Sums, TakenAddsUp, ReplyIsSingle, Settled, OfThisPage
<1>9. QED
  BY <1>5, <1>6, <1>7, <1>8 DEF Sums

\* A GET that is shown: the counts are those of the list.
LEMMA AnsweredReadSums ==
  ASSUME Typing, Inv, Sums, NEW i \in DOMAIN reqs, NEW r \in Members, r = reqs[i],
         r.kind \in Reads, r.stage = "ok", OfThisPage(r), reqs' = Away(i),
         page' = Refreshed(IF r.kind = "load" THEN filterPending(r.reply.list)
                           ELSE r.reply.list, r.reply),
         mixed' = (mixed /\ ~Alone(i)), pending' = pending, finished' = finished
  PROVE  Sums'
<1>1. /\ r \in Requests /\ Known(r) /\ r.reply.list \in Seq(CardRows)
  <2>1. r \in Requests /\ Known(r)
    BY MemberIs
  <2>2. r.reply \in Datas
    BY <2>1 DEF Requests
  <2>3. QED
    BY <2>1, <2>2 DEF Datas
<1>2. PICK list \in Seq(CardRows) : list = r.reply.list
  BY <1>1
<1>3. Single(list)
  BY <1>2 DEF Sums, ReplyIsSingle
<1>4. /\ page'.phase = "ready" /\ page'.mount = page.mount /\ page'.doneToday = page.doneToday
      /\ page'.counts = CountsOf(list)
      /\ page'.list = IF r.kind = "load" THEN filterPending(list) ELSE list
      /\ page.phase # "left" /\ page.mount = r.mount
  BY <1>2 DEF Refreshed, OfThisPage, Typing, PageTypes
<1>5. /\ r.kind = "load" => page.phase = "loading" /\ pending = {}
      /\ r.kind # "load" => r.kind \in SnoozeKinds
  BY <1>1 DEF Known, Inv, PageState, Reads, SnoozeKinds, Snoozes
<1>6. CountsOf(list) \in [Groups -> Nat] /\ Tallies(CountsOf(list), list)
  BY <1>3, CountsAre
<1>7. Single(page'.list) /\ ToSet(page'.list) = ToSet(list)
  <2>1. CASE r.kind = "load"
    <3> DEFINE rows == {row \in ToSet(list) : ~IsPending(row.card)}
    <3>1. ToSet(list) \cap rows = ToSet(list)
      BY <1>5, <2>1 DEF IsPending
    <3>2. page'.list = Kept(list, rows)
      BY <1>4, <2>1 DEF filterPending
    <3> HIDE DEF rows
    <3>3. QED
      BY <1>3, <3>1, <3>2, SingleKept
  <2>2. CASE r.kind # "load"
    BY <1>3, <1>4, <2>2
  <2>3. QED
    BY <2>1, <2>2
<1>8. Tallies(page'.counts, page'.list)
  BY <1>4, <1>6, <1>7 DEF Tallies, Of
<1>9. Members' = Others(i) /\ Members = Others(i) \cup {r}
  BY AwayIs, MembersAre DEF Typing
<1>10. Cardinality(Sending') = Cardinality(Sending)
  <2>1. i \notin Sending
    BY DEF Sending, Reads
  <2>2. Sending \ {i} = Sending
    BY <2>1
  <2>3. Cardinality(Sending') = Cardinality(Sending \ {i})
    BY <1>4, SendingAway
  <2>4. QED
    BY <2>2, <2>3
<1>11. Waiting' = Waiting
  BY DEF Waiting, IsToday
<1>12. Numbers' /\ DayAddsUp'
  BY <1>4, <1>6, <1>10, <1>11 DEF Sums, Numbers, DayAddsUp
<1>13. ListAddsUp'
  BY <1>7, <1>8 DEF ListAddsUp
<1>14. ASSUME NEW a \in Members' PROVE TakenAddsUp(a)' /\ ReplyIsSingle(a)'
  <2>1. a \in Others(i) /\ a \in Members
    BY <1>9
  <2>2. Known(a) /\ ~Rivals(a, r)
    BY <2>1, OtherIs
  <2>3. OfThisPage(a)' <=> OfThisPage(a)
    BY <1>4 DEF OfThisPage
  <2>4. ~(Settled' /\ OfThisPage(a) /\ a.kind \in Snoozes)
    <3> SUFFICES ASSUME Settled', OfThisPage(a), a.kind \in Snoozes PROVE FALSE
      OBVIOUS
    <3>1. ~Alone(i)
      BY <2>1 DEF Others, Alone
    <3>2. ~mixed
      BY <3>1 DEF Settled
    <3>3. page.phase = "ready"
      BY <2>2 DEF Known, Snoozes
    <3>4. r.kind \in SnoozeKinds
      BY <1>5, <3>3
    <3>5. QED
      BY <2>2, <3>2, <3>4 DEF Rivals, PageRivals, SnoozeKinds
  <2>5. TakenAddsUp(a)'
    BY <2>3, <2>4 DEF TakenAddsUp
  <2>6. ReplyIsSingle(a)'
    BY <2>1 DEF Sums, ReplyIsSingle
  <2>7. QED
    BY <2>5, <2>6
<1>15. QED
  BY <1>12, <1>13, <1>14 DEF Sums

\* An answer of any kind.
LEMMA AnsweredSums ==
  ASSUME Typing, Inv, Sums, NEW i \in DOMAIN reqs, Answered(i) PROVE Sums'
<1>1. PICK r \in Members : r = reqs[i]
  BY DEF Members, ToSet
<1>2. r \in Requests /\ r.stage = "ok" /\ pending' = pending
  BY <1>1, MemberIs DEF Answered
<1>3. CASE r.kind = "complete"
  <2>1. /\ reqs' = Away(i) /\ page' = page /\ mixed' = mixed
        /\ finished' = IF OfThisPage(r) THEN finished + IsToday(r.row) ELSE finished
    BY <1>1, <1>3 DEF Answered, Reads
  <2>2. CASE OfThisPage(r)
    BY <1>1, <1>2, <1>3, <2>1, <2>2, AnsweredCompleteSums
  <2>3. CASE ~OfThisPage(r)
    BY <1>1, <1>2, <2>1, <2>3, SumsAway
  <2>4. QED
    BY <2>2, <2>3
<1>4. CASE r.kind \in {"snooze", "unsnooze"}
  <2>1. PICK kind : kind = IF r.kind = "snooze" THEN "snoozed" ELSE "unsnoozed"
    OBVIOUS
  <2>2. /\ reqs' = Then(i, kind)
        /\ page' = page /\ mixed' = mixed /\ finished' = finished
    BY <1>1, <1>4, <2>1 DEF Answered, Reads
  <2>3. PICK q : q = [r EXCEPT !.kind = kind, !.stage = "sent"]
    OBVIOUS
  <2>4. reqs' = [reqs EXCEPT ![i] = q]
    BY <1>1, <2>2, <2>3 DEF Then
  <2>5. /\ q.kind = kind /\ q.stage = "sent" /\ q.mount = r.mount /\ q.row = r.row
        /\ q.prev = r.prev
    BY <1>2, <2>3 DEF Requests
  <2>6. /\ q.kind = "complete" <=> r.kind = "complete"
        /\ q.kind \in Snoozes <=> r.kind \in Snoozes
    BY <1>4, <2>1, <2>5 DEF Snoozes
  <2>7. ReplyIsSingle(q)
    BY <2>5 DEF ReplyIsSingle
  <2>8. QED
    BY <1>1, <1>2, <2>2, <2>4, <2>5, <2>6, <2>7, SumsChanged
<1>5. CASE r.kind \in Reads
  <2>1. /\ reqs' = Away(i) /\ finished' = finished
        /\ IF OfThisPage(r)
           THEN /\ page' = Refreshed(IF r.kind = "load" THEN filterPending(r.reply.list)
                                     ELSE r.reply.list, r.reply)
                /\ mixed' = (mixed /\ ~Alone(i))
           ELSE UNCHANGED <<page, mixed>>
    BY <1>1, <1>5 DEF Answered, Reads
  <2>2. CASE OfThisPage(r)
    BY <1>1, <1>2, <1>5, <2>1, <2>2, AnsweredReadSums
  <2>3. CASE ~OfThisPage(r)
    BY <1>1, <1>2, <2>1, <2>3, SumsAway
  <2>4. QED
    BY <2>2, <2>3
<1>6. CASE r.kind \in {"toggle", "detail"}
  <2>1. /\ reqs' = Away(i) /\ page' = page /\ mixed' = mixed /\ finished' = finished
    BY <1>1, <1>6 DEF Answered, Reads
  <2>2. r.kind \notin Snoozes \cup {"complete"}
    BY <1>6 DEF Snoozes
  <2>3. QED
    BY <1>1, <1>2, <2>1, <2>2, SumsAway
<1>7. QED
  BY <1>1, <1>3, <1>4, <1>5, <1>6 DEF Answered

\* A completion that failed is counted again, and not as done.
LEMMA FailedCompleteSums ==
  ASSUME Typing, Inv, Sums, NEW i \in DOMAIN reqs, NEW r \in Members, r = reqs[i],
         r.kind = "complete", OfThisPage(r), reqs' = Away(i), page' = restorePending(r.row),
         pending' = pending, mixed' = mixed, finished' = finished
  PROVE  Sums'
<1>1. r \in Requests /\ Whole(r) /\ Known(r) /\ Working(r)
  BY MemberIs
<1>2. r.row \in CardRows /\ r.row.card = r.card /\ page.phase = "ready"
  BY <1>1 DEF Whole, Known
<1>3. page'.phase = page.phase /\ page'.mount = page.mount
  BY DEF restorePending, Typing, PageTypes
<1>4. Members' = Others(i) /\ Members = Others(i) \cup {r}
  BY AwayIs, MembersAre DEF Typing
<1>5. ASSUME Settled PROVE Hidden(r.card) /\ ~Out(Snoozes)
  <2>1. Hidden(r.card)
    BY <1>1, <1>5 DEF Working
  <2>2. ASSUME NEW a \in Members, OfThisPage(a) PROVE a.kind \notin Snoozes
    <3>1. CASE a = r
      BY <3>1 DEF Snoozes
    <3>2. CASE a \in Others(i)
      <4>1. ~Rivals(a, r)
        BY <3>2, OtherIs
      <4>2. QED
        BY <1>5, <2>2, <4>1 DEF Settled, Rivals, PageRivals, SnoozeKinds
    <3>3. QED
      BY <1>4, <3>1, <3>2
  <2>3. QED
    BY <2>1, <2>2 DEF Out
<1>6. /\ Cardinality(Sending') = Cardinality(Sending) - IsToday(r.row)
      /\ Cardinality(Sending') \in Nat
  BY <1>3, SendingLess
<1>7. Waiting' = Waiting
  BY DEF Waiting, IsToday
<1>8. page.doneToday = finished + Cardinality(Waiting) + Cardinality(Sending)
  BY <1>2 DEF Sums, DayAddsUp
<1>9. IsToday(r.row) \in {0, 1}
  BY DEF IsToday
<1>10. /\ Cardinality(Waiting') \in Nat
       /\ page.doneToday - IsToday(r.row)
            = finished + Cardinality(Waiting') + Cardinality(Sending')
  BY <1>6, <1>7, <1>8, <1>9, DayCounts DEF Sums, Numbers
<1>11. PICK row \in CardRows : row = r.row
  BY <1>2
<1>12. QED
  BY <1>2, <1>4, <1>5, <1>6, <1>10, <1>11, RestoredSums

\* A snooze that failed: the list is the one that it took, with its counts.
LEMMA FailedSnoozeSums ==
  ASSUME Typing, Inv, Sums, NEW i \in DOMAIN reqs, NEW r \in Members, r = reqs[i],
         r.kind \in Snoozes, OfThisPage(r), reqs' = Away(i),
         page' = [page EXCEPT !.list = RolledBack(r)],
         pending' = pending, mixed' = mixed, finished' = finished
  PROVE  Sums'
<1>1. /\ page'.list = r.prev.list /\ page'.counts = page.counts
      /\ page'.doneToday = page.doneToday /\ page'.phase = page.phase
      /\ page'.mount = page.mount
  BY DEF RolledBack, Typing, PageTypes
<1>2. Members' = Others(i) /\ Members = Others(i) \cup {r}
  BY AwayIs, MembersAre DEF Typing
<1>3. Cardinality(Sending') = Cardinality(Sending)
  <2>1. i \notin Sending
    BY DEF Sending, Snoozes
  <2>2. Sending \ {i} = Sending
    BY <2>1
  <2>3. Cardinality(Sending') = Cardinality(Sending \ {i})
    BY <1>1, SendingAway
  <2>4. QED
    BY <2>2, <2>3
<1>4. Waiting' = Waiting
  BY DEF Waiting, IsToday
<1>5. Numbers' /\ DayAddsUp'
  BY <1>1, <1>3, <1>4 DEF Sums, Numbers, DayAddsUp
<1>6. Settled' <=> Settled
  BY <1>1 DEF Settled
<1>7. ListAddsUp'
  BY <1>1, <1>6 DEF Sums, ListAddsUp, TakenAddsUp
<1>8. ASSUME NEW a \in Members' PROVE TakenAddsUp(a)' /\ ReplyIsSingle(a)'
  <2>1. a \in Others(i) /\ a \in Members
    BY <1>2
  <2>2. ~Rivals(a, r)
    BY <2>1, OtherIs
  <2>3. OfThisPage(a)' <=> OfThisPage(a)
    BY <1>1 DEF OfThisPage
  <2>4. ~(Settled /\ OfThisPage(a) /\ a.kind \in Snoozes)
    BY <2>2 DEF Settled, Rivals, PageRivals, SnoozeKinds
  <2>5. TakenAddsUp(a)'
    BY <1>6, <2>3, <2>4 DEF TakenAddsUp
  <2>6. ReplyIsSingle(a)'
    BY <2>1 DEF Sums, ReplyIsSingle
  <2>7. QED
    BY <2>5, <2>6
<1>9. QED
  BY <1>5, <1>7, <1>8 DEF Sums

\* A page whose load failed shows nothing.
LEMMA FailedLoadSums ==
  ASSUME Typing, Inv, Sums, NEW i \in DOMAIN reqs, NEW r \in Members, r = reqs[i],
         r.kind = "load", OfThisPage(r), reqs' = Away(i),
         page' = [page EXCEPT !.phase = "failed"],
         pending' = pending, mixed' = mixed, finished' = finished
  PROVE  Sums'
<1>1. /\ page'.counts = page.counts /\ page'.doneToday = page.doneToday
      /\ page'.phase = "failed" /\ page'.mount = page.mount /\ page.phase # "left"
  BY DEF OfThisPage, Typing, PageTypes
<1>2. Members' \subseteq Members
  BY AwayIs, MembersAre DEF Typing
<1>3. Cardinality(Sending') = Cardinality(Sending)
  <2>1. i \notin Sending
    BY DEF Sending
  <2>2. Sending \ {i} = Sending
    BY <2>1
  <2>3. Cardinality(Sending') = Cardinality(Sending \ {i})
    BY <1>1, SendingAway
  <2>4. QED
    BY <2>2, <2>3
<1>4. Waiting' = Waiting
  BY DEF Waiting, IsToday
<1>5. Numbers' /\ DayAddsUp'
  BY <1>1, <1>3, <1>4 DEF Sums, Numbers, DayAddsUp
<1>6. ListAddsUp' /\ \A a \in Members' : TakenAddsUp(a)' /\ ReplyIsSingle(a)'
  BY <1>1, <1>2 DEF Sums, ListAddsUp, TakenAddsUp, ReplyIsSingle, Settled
<1>7. QED
  BY <1>5, <1>6 DEF Sums

\* An error of any kind.
LEMMA FailedSums ==
  ASSUME Typing, Inv, Sums, NEW i \in DOMAIN reqs, Failed(i) PROVE Sums'
<1>1. PICK r \in Members : r = reqs[i]
  BY DEF Members, ToSet
<1>2. /\ reqs' = Away(i) /\ pending' = pending /\ mixed' = mixed /\ finished' = finished
      /\ page' = IF ~OfThisPage(r) THEN page
                 ELSE IF r.kind = "complete" THEN restorePending(r.row)
                 ELSE IF r.kind \in {"snooze", "snoozed"}
                 THEN [page EXCEPT !.list = RolledBack(r)]
                 ELSE IF r.kind = "load" THEN [page EXCEPT !.phase = "failed"]
                 ELSE page
  BY <1>1 DEF Failed
<1>3. CASE OfThisPage(r) /\ r.kind = "complete"
  <2>1. page' = restorePending(r.row)
    BY <1>2, <1>3
  <2>2. QED
    BY <1>1, <1>2, <1>3, <2>1, FailedCompleteSums
<1>4. CASE OfThisPage(r) /\ r.kind \in Snoozes
  <2>1. page' = [page EXCEPT !.list = RolledBack(r)]
    <3>1. r.kind # "complete" /\ r.kind \in {"snooze", "snoozed"}
      BY <1>4 DEF Snoozes
    <3>2. QED
      BY <1>2, <1>4, <3>1
  <2>2. QED
    BY <1>1, <1>2, <1>4, <2>1, FailedSnoozeSums
<1>5. CASE OfThisPage(r) /\ r.kind = "load"
  <2>1. page' = [page EXCEPT !.phase = "failed"]
    BY <1>2, <1>5
  <2>2. QED
    BY <1>1, <1>2, <1>5, <2>1, FailedLoadSums
<1>6. CASE ~OfThisPage(r) \/ r.kind \notin Snoozes \cup {"complete", "load"}
  <2>1. page' = page
    BY <1>2, <1>6 DEF Snoozes
  <2>2. QED
    BY <1>1, <1>2, <1>6, <2>1, SumsAway
<1>7. QED
  BY <1>3, <1>4, <1>5, <1>6

\* Every step keeps the sums.
LEMMA StepSums == ASSUME IInv, Sums, [Next]_vars PROVE Sums'
<1>1. Typing /\ OnePending /\ Inv
  BY DEF IInv
<1>2. CASE \E c \in Cards : CompleteRow(c)
  <2>1. PICK c \in Cards : CompleteRow(c)
    BY <1>2
  <2>2. /\ handleComplete(c) /\ page.phase = "ready" /\ reqs' = reqs /\ finished' = finished
    BY <2>1 DEF CompleteRow
  <2>3. QED
    BY <1>1, <2>2, handleCompleteSums
<1>3. CASE CompleteViewed
  <2>1. PICK c : c = view.row.card
    OBVIOUS
  <2>2. /\ handleComplete(c) /\ view.id # Closed /\ reqs' = reqs /\ finished' = finished
    BY <1>3, <2>1 DEF CompleteViewed
  <2>3. c \in Cards /\ page.phase = "ready"
    BY <1>1, <2>1, <2>2 DEF Typing, CardRows, Inv, PageState
  <2>4. QED
    BY <1>1, <2>2, <2>3, handleCompleteSums
<1>4. CASE Close \/ (\E c \in Cards : Elsewhere(c)) \/ UNCHANGED vars
  BY <1>1, <1>4, QuietSums
<1>5. CASE (\E c \in Cards : Open(c)) \/ toggleSubtask \/ \E t \in toasts : undoSnooze(t)
  BY <1>1, <1>5, SentSums
<1>6. CASE Leave \/ Enter
  BY <1>1, <1>6, LeaveSums, EnterSums
<1>7. ASSUME NEW row \in pending, undoComplete(row) \/ commitComplete(row) PROVE Sums'
  BY <1>1, <1>7, undoCompleteSums, commitCompleteSums
<1>8. ASSUME NEW offset \in Offsets, handleSnooze(offset) PROVE Sums'
  BY <1>1, <1>8, handleSnoozeSums
<1>9. ASSUME NEW i \in DOMAIN reqs, Serve(i) \/ Answered(i) \/ Failed(i) PROVE Sums'
  BY <1>1, <1>9, ServeSums, AnsweredSums, FailedSums
<1>10. QED
  BY <1>2, <1>3, <1>4, <1>5, <1>6, <1>7, <1>8, <1>9 DEF Next

\* At first nothing is counted.
LEMMA InitSums == ASSUME Init PROVE Sums
<1>1. /\ page.phase = "loading" /\ page.counts = [g \in Groups |-> 0] /\ page.doneToday = 0
      /\ pending = {} /\ finished = 0 /\ reqs = <<Request("load", 0)>>
  BY DEF Init, Blank
<1>2. PICK q : q = Request("load", 0)
  OBVIOUS
<1>3. q.kind = "load" /\ q.stage = "sent"
  BY <1>2 DEF Request
<1>4. reqs = <<q>>
  BY <1>1, <1>2
<1>5. Sending = {} /\ Waiting = {}
  BY <1>1, <1>3, <1>4 DEF Sending, Waiting
<1>6. \A r \in Members : r = q
  BY <1>4 DEF Members, ToSet
<1>7. Numbers /\ ListAddsUp
  BY <1>1 DEF Numbers, ListAddsUp, Settled
<1>8. DayAddsUp
  <2>1. Cardinality({}) = 0
    BY FS_EmptySet
  <2>2. QED
    BY <1>1, <1>5, <2>1 DEF DayAddsUp
<1>9. ASSUME NEW r \in Members PROVE TakenAddsUp(r) /\ ReplyIsSingle(r)
  BY <1>1, <1>3, <1>6 DEF TakenAddsUp, ReplyIsSingle, Settled
<1>10. QED
  BY <1>7, <1>8, <1>9 DEF Sums

-----------------------------------------------------------------------------
(* The theorems *)

\* The invariant holds in every state: what is on its way, what is pending
\* and what the page and the quick view show fit together.
THEOREM InvHolds == Spec => []IInv
<1>1. Init => IInv
  BY InitIs
<1>2. IInv /\ [Next]_vars => IInv'
  BY StepKeeps, StepOnce DEF IInv, Once
<1>3. QED
  BY <1>1, <1>2, PTL DEF Spec

\* However clicks, undos, timers and navigation interleave, a completion that
\* is not undone is sent exactly once, and one that is undone never
\* (useMyWorkActions).
THEOREM OneRequestPerCompletionHolds == Spec => []OneRequestPerCompletion
<1>1. IInv => OneRequestPerCompletion
  BY DEF IInv
<1>2. QED
  BY <1>1, InvHolds, PTL

\* A page at rest lists the cards as the server would, and the quick view
\* shows the boxes as they are stored, whatever failed, was refused, undone or
\* answered out of order before (useMyWorkActions, useCardDetail).
THEOREM QuietPageShowsTheInboxHolds == Spec => []QuietPageShowsTheInbox
<1>1. ASSUME IInv PROVE PageListsTheInbox
  <2> SUFFICES ASSUME page.phase = "ready", pending = {}, ~mixed, ~InFlight({"complete"}),
                      ~Snoozing, NEW c \in Cards, known[c] = db[c].ver
               PROVE  {page.list[i].due : i \in Rows(c)} = IF InInbox(c) THEN {db[c].due} ELSE {}
    BY DEF PageListsTheInbox
  <2>1. ~Out({"complete"}) /\ ~Out(SnoozeKinds)
    BY <1>1, OutIs DEF Snoozing, SnoozeKinds, Snoozes, IInv, Typing
  <2>2. ~Out(Snoozes) /\ ~Finishing(c) /\ ~IsPending(c)
    BY <2>1 DEF Out, Finishing, SnoozeKinds, IsPending
  <2>3. Right(page.list, known, c)
    BY <1>1, <2>2 DEF IInv, Inv, Listing, Settled
  <2>4. DuesIn(page.list, c) = Stored(c)
    BY <2>3 DEF Right
  <2>5. QED
    BY <2>4 DEF DuesIn, Stored, Rows
<1>2. ASSUME IInv PROVE QuickViewAgrees
  <2> SUFFICES ASSUME view.id # Closed, view.state = "shown", TogglesOf(view.id) = {},
                      ~view.muddled, view.known = db[view.row.card].subver
               PROVE  view.sub = db[view.row.card].sub
    BY DEF QuickViewAgrees, QuickView
  <2>1. ASSUME NEW r \in Members, Viewed(r) PROVE FALSE
    <3>1. Whole(r) /\ Boxed(r) /\ \E k \in DOMAIN reqs : r = reqs[k]
      BY <1>2, MemberIs DEF IInv
    <3>2. r.kind = "toggle"
      BY <2>1, <3>1 DEF Whole, Boxed, ViewKinds, Viewed
    <3>3. QED
      BY <2>1, <3>1, <3>2 DEF TogglesOf, Viewed
  <2>2. QED
    BY <1>2, <2>1 DEF IInv, Inv, ViewState
<1>3. IInv => QuietPageShowsTheInbox
  BY <1>1, <1>2 DEF QuietPageShowsTheInbox
<1>4. QED
  BY <1>3, InvHolds, PTL

\* The tiles, the tabs, the rail and the greeting agree with the rows,
\* whatever is completed, undone, snoozed, refused or fails, in any order
\* (useMyWorkActions keeps counts by increments and rows by filters).
THEOREM PageAddsUpHolds == Spec => []PageAddsUp
<1>1. Init => Sums
  BY InitSums
<1>2. IInv /\ Sums /\ [Next]_vars => Sums'
  BY StepSums
<1>3. IInv /\ Sums => PageAddsUp
  BY SumsShow DEF IInv
<1>4. QED
  BY <1>1, <1>2, <1>3, InvHolds, PTL DEF Spec
=============================================================================
