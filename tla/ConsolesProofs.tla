-------------------------- MODULE ConsolesProofs ---------------------------
(***************************************************************************)
(* Listings and sessions of a console, for any finite set of rows, any     *)
(* times and limits, and any number of sessions.                           *)
(*                                                                         *)
(* A page is cut from the rows of its moment in their order; what is not   *)
(* on it and not before it comes after its last row, whose position the    *)
(* cursor keeps.                                                           *)
(***************************************************************************)
EXTENDS Consoles, FiniteSetTheorems, WellFoundedInduction, TLAPS

-----------------------------------------------------------------------------
(* Numbers.                                                                *)

LEMMA LeastNumber ==
  ASSUME NEW S \in SUBSET Nat, S # {}
  PROVE  \E n \in S : \A m \in S : n <= m
<1> DEFINE R == OpToRel(<, Nat)
<1>1. IsWellFoundedOn(R, Nat)
  BY NatLessThanWellFounded
<1>2. \A m, n \in Nat : m < n => <<m, n>> \in R
  BY Zenon DEF OpToRel
<1> HIDE DEF R
<1>3. PICK n \in S : \A m \in S : <<m, n>> \notin R
  BY <1>1, WFMin, Zenon
<1>4. \A m \in S : n \in Nat /\ m \in Nat /\ ~(m < n)
  BY <1>2, <1>3, Zenon
<1> QED BY <1>4

LEMMA DivNat ==
  ASSUME NEW t \in Nat, NEW k \in Nat \ {0}
  PROVE  t \div k \in Nat /\ t % k \in 0..(k - 1)
BY Z3

LEMMA DivMonotone ==
  ASSUME NEW s \in Nat, NEW t \in Nat, NEW k \in Nat \ {0}, s <= t
  PROVE  s \div k <= t \div k
BY Z3

-----------------------------------------------------------------------------
(* The order of the rows.                                                  *)

LEMMA TextNat ==
  ASSUME NEW t \in Times
  PROVE  Text(t) \in Nat
<1> DEFINE square == Base * Base
           s == Second(t)
           p == IF Tenths(t) = 0 /\ Rest(t) = 0 THEN Base ELSE Tenths(t)
           q == IF Rest(t) = 0 THEN Base ELSE Rest(t)
<1>1. t \in Nat /\ Base \in Nat \ {0}
  BY DirectoryAssumption
<1>2. square \in Nat \ {0}
  BY <1>1, Z3
<1>3. s \in Nat
  BY <1>1, <1>2, DivNat DEF Second
<1>4. t \div Base \in Nat
  BY <1>1, DivNat
<1>5. Tenths(t) \in 0..(Base - 1) /\ Rest(t) \in 0..(Base - 1)
  BY <1>1, <1>4, DivNat DEF Tenths, Rest
<1>6. p \in 0..Base /\ q \in 0..Base
  BY <1>1, <1>5
<1>7. Text(t) = (s * (Base + 1) + p) * (Base + 1) + q
  BY DEF Text
<1> HIDE DEF s, p, q
<1>8. s * (Base + 1) \in Nat
  BY <1>1, <1>3, Z3
<1>9. s * (Base + 1) + p \in Nat
  BY <1>1, <1>6, <1>8
<1> HIDE DEF square
<1> DEFINE high == s * (Base + 1) + p
<1> HIDE DEF high
<1>10. high * (Base + 1) \in Nat
  BY <1>1, <1>9, Z3 DEF high
<1> QED BY <1>1, <1>6, <1>7, <1>10 DEF high

\* Times of different seconds have the order of their text.
LEMMA TextBySecond ==
  ASSUME NEW a \in Times, NEW b \in Times, Second(a) < Second(b)
  PROVE  a < b /\ Text(a) < Text(b)
<1> DEFINE square == Base * Base
           high(t) == IF Tenths(t) = 0 /\ Rest(t) = 0 THEN Base ELSE Tenths(t)
           low(t)  == IF Rest(t) = 0 THEN Base ELSE Rest(t)
<1>1. a \in Nat /\ b \in Nat /\ Base \in Nat \ {0}
  BY DirectoryAssumption
<1>2. square \in Nat \ {0}
  BY <1>1, Z3
<1>3. Second(a) \in Nat /\ Second(b) \in Nat
  BY <1>1, <1>2, DivNat DEF Second
<1>4. a < b
  <2>1. b <= a => Second(b) <= Second(a)
    BY <1>1, <1>2, DivMonotone DEF Second
  <2> QED BY <1>1, <1>3, <2>1
<1>5. \A t \in {a, b} : high(t) \in 0..Base /\ low(t) \in 0..Base
  <2>1. a \div Base \in Nat /\ b \div Base \in Nat
    BY <1>1, DivNat
  <2>2. \A t \in {a, b} : Tenths(t) \in 0..(Base - 1) /\ Rest(t) \in 0..(Base - 1)
    BY <1>1, <2>1, DivNat DEF Tenths, Rest
  <2> QED BY <1>1, <2>2
<1>6. \A t \in {a, b} : Text(t) = (Second(t) * (Base + 1) + high(t)) * (Base + 1) + low(t)
  BY DEF Text
<1>7. ASSUME NEW s \in Nat, NEW t \in Nat, s < t, NEW k \in Nat \ {0},
             NEW p \in 0..k, NEW q \in 0..k, NEW u \in 0..k, NEW v \in 0..k
      PROVE  (s * (k + 1) + p) * (k + 1) + q < (t * (k + 1) + u) * (k + 1) + v
  <2> DEFINE x == s * (k + 1) + p
             y == t * (k + 1) + u
  <2>1. x < y /\ x \in Nat /\ y \in Nat
    <3>1. (s + 1) * (k + 1) <= t * (k + 1)
      BY <1>7, Z3
    <3>2. (s + 1) * (k + 1) = s * (k + 1) + k + 1
      BY <1>7, Z3
    <3>3. s * (k + 1) \in Nat /\ t * (k + 1) \in Nat
      BY Z3
    <3> QED BY <3>1, <3>2, <3>3
  <2> HIDE DEF x, y
  <2>2. x * (k + 1) + q < y * (k + 1) + v
    <3>1. (x + 1) * (k + 1) <= y * (k + 1)
      BY <2>1, Z3
    <3>2. (x + 1) * (k + 1) = x * (k + 1) + k + 1
      BY <2>1, Z3
    <3>3. x * (k + 1) \in Nat /\ y * (k + 1) \in Nat
      BY <2>1, Z3
    <3> QED BY <3>1, <3>2, <3>3
  <2> QED BY <2>2 DEF x, y
<1> HIDE DEF high, low
<1> QED BY <1>1, <1>3, <1>4, <1>5, <1>6, <1>7

\* A set of rows as they come from a table.
Keyed(R) == R \subseteq Rows /\ IsFiniteSet(R) /\ \A a, b \in R : a.id = b.id => a = b

LEMMA RowOrder ==
  ASSUME NEW order \in Listings, NEW R, Keyed(R)
  PROVE  /\ \A a \in R : ~Precedes(order, a, a)
         /\ \A a, b \in R : a = b \/ Precedes(order, a, b) \/ Precedes(order, b, a)
         /\ \A a, b, c \in R :
              Precedes(order, a, b) /\ Precedes(order, b, c) => Precedes(order, a, c)
<1>1. \A a \in R : Text(a.at) \in Nat /\ a.id \in Nat
  BY TextNat, DirectoryAssumption DEF Keyed, Rows
<1>2. \A a, b \in R : a.id = b.id => a = b
  BY DEF Keyed
<1>3. \A a, b \in R : Precedes(order, a, b) <=>
        IF order = "users"
          THEN Text(a.at) < Text(b.at) \/ (Text(a.at) = Text(b.at) /\ a.id < b.id)
          ELSE Text(b.at) < Text(a.at) \/ (Text(b.at) = Text(a.at) /\ b.id < a.id)
  BY DEF Precedes, Less
<1> QED BY <1>1, <1>2, <1>3

Before(order, R, r) == {q \in R : Precedes(order, q, r)}

LEMMA BeforeFinite ==
  ASSUME NEW order \in Listings, NEW R, Keyed(R), NEW r
  PROVE  /\ IsFiniteSet(Before(order, R, r))
         /\ Cardinality(Before(order, R, r)) \in Nat
<1>1. Before(order, R, r) \in SUBSET R
  BY DEF Before
<1> QED BY <1>1, FS_Subset, FS_CardinalityType DEF Keyed

\* What is before an earlier row is less.
LEMMA BeforeLess ==
  ASSUME NEW order \in Listings, NEW R, Keyed(R),
         NEW a \in R, NEW b \in R, Precedes(order, a, b)
  PROVE  Cardinality(Before(order, R, a)) < Cardinality(Before(order, R, b))
<1> DEFINE A == Before(order, R, a)
           B == Before(order, R, b)
<1>1. A \subseteq B /\ a \in B /\ a \notin A
  BY RowOrder DEF Before
<1>2. IsFiniteSet(B) /\ Cardinality(A) \in Nat /\ Cardinality(B) \in Nat
  BY BeforeFinite
<1> HIDE DEF A, B
<1>3. Cardinality(A) <= Cardinality(B) /\ (Cardinality(B) = Cardinality(A) => B = A)
  BY <1>1, <1>2, FS_Subset
<1> QED BY <1>1, <1>2, <1>3 DEF A, B

LEMMA FirstRow ==
  ASSUME NEW order \in Listings, NEW R, Keyed(R), NEW S, S \subseteq R, S # {}
  PROVE  \E r \in S : \A q \in S \ {r} : Precedes(order, r, q)
<1> DEFINE N == {Cardinality(Before(order, R, r)) : r \in S}
<1>1. N \in SUBSET Nat /\ N # {}
  BY BeforeFinite
<1>2. PICK n \in N : \A m \in N : n <= m
  <2> HIDE DEF N
  <2> QED BY <1>1, LeastNumber
<1>3. PICK r \in S : n = Cardinality(Before(order, R, r))
  BY <1>2
<1>4. \A q \in S : Cardinality(Before(order, R, r)) <= Cardinality(Before(order, R, q))
  BY <1>2, <1>3
<1>5. \A q \in S : ~Precedes(order, q, r)
  BY <1>4, BeforeLess, BeforeFinite
<1> QED BY <1>5, RowOrder

LEMMA LastRow ==
  ASSUME NEW order \in Listings, NEW R, Keyed(R), NEW S, S \subseteq R, S # {}
  PROVE  \E r \in S : \A q \in S \ {r} : Precedes(order, q, r)
<1> DEFINE size == Cardinality(R)
           N == {size - Cardinality(Before(order, R, r)) : r \in S}
<1>1. \A r \in R : /\ Cardinality(Before(order, R, r)) \in 0..size
                   /\ size \in Nat
  <2>1. IsFiniteSet(R) /\ size \in Nat
    BY FS_CardinalityType DEF Keyed
  <2>2. \A r \in R : Cardinality(Before(order, R, r)) <= size
    BY <2>1, FS_Subset DEF Before
  <2> QED BY <2>1, <2>2, BeforeFinite
<1>2. N \in SUBSET Nat /\ N # {}
  BY <1>1
<1>3. PICK n \in N : \A m \in N : n <= m
  <2> HIDE DEF N
  <2> QED BY <1>2, LeastNumber
<1>4. PICK r \in S : n = size - Cardinality(Before(order, R, r))
  BY <1>3
<1>5. \A q \in S : size - Cardinality(Before(order, R, r))
                     <= size - Cardinality(Before(order, R, q))
  BY <1>3, <1>4
<1>6. \A q \in S : Cardinality(Before(order, R, q)) <= Cardinality(Before(order, R, r))
  <2> HIDE DEF size
  <2> QED BY <1>1, <1>5
<1>7. \A q \in S : ~Precedes(order, r, q)
  BY <1>6, BeforeLess, BeforeFinite
<1> QED BY <1>7, RowOrder

-----------------------------------------------------------------------------
(* Pages.                                                                  *)

LEMMA FirstIsInitial ==
  ASSUME NEW order \in Listings, NEW R, Keyed(R), NEW n \in Nat
  PROVE  /\ First(order, R, n) = {r \in R : Cardinality(Before(order, R, r)) < n}
         /\ \A r \in First(order, R, n), q \in R :
              Precedes(order, q, r) => q \in First(order, R, n)
<1>1. First(order, R, n) = {r \in R : Cardinality(Before(order, R, r)) < n}
  BY DEF First, Before
<1>2. \A r, q \in R : Precedes(order, q, r) =>
        Cardinality(Before(order, R, q)) < Cardinality(Before(order, R, r))
  BY BeforeLess
<1>3. \A r \in R : Cardinality(Before(order, R, r)) \in Nat
  BY BeforeFinite
<1> QED BY <1>1, <1>2, <1>3

\* The first n of the first n + 1 are the first n; if there are no more than
\* those, they are all, and otherwise they are n.
LEMMA PageCut ==
  ASSUME NEW order \in Listings, NEW R, Keyed(R), NEW n \in Nat \ {0}
  PROVE  LET found == First(order, R, n + 1)
             page  == First(order, found, n)
         IN  /\ page \subseteq R
             /\ \A r \in page, q \in R : Precedes(order, q, r) => q \in page
             /\ found = page => page = R
             /\ found # page => page # {} /\ Cardinality(page) = n
<1> DEFINE found == First(order, R, n + 1)
           page  == First(order, found, n)
<1>1. found = {r \in R : Cardinality(Before(order, R, r)) < n + 1}
  BY FirstIsInitial
<1>2. \A r \in found, q \in R : Precedes(order, q, r) => q \in found
  BY FirstIsInitial
<1>3. Keyed(found)
  BY <1>1, FS_Subset DEF Keyed
<1>4. \A r \in found : Before(order, found, r) = Before(order, R, r)
  BY <1>1, <1>2 DEF Before
<1>5. page = {r \in found : Cardinality(Before(order, found, r)) < n}
  BY <1>3, FirstIsInitial
<1>6. \A r \in R : Cardinality(Before(order, R, r)) \in Nat
  BY BeforeFinite
<1> HIDE DEF found, page
<1>7. page = {r \in R : Cardinality(Before(order, R, r)) < n}
  BY <1>1, <1>4, <1>5, <1>6
<1>8. \A r \in page, q \in R : Precedes(order, q, r) => q \in page
  BY <1>6, <1>7, BeforeLess
<1>9. IsFiniteSet(page) /\ Cardinality(page) \in Nat
  BY <1>7, FS_Subset, FS_CardinalityType DEF Keyed
<1>10. Cardinality(page) <= n
  <2>1. CASE page = {}
    BY <2>1, FS_EmptySet
  <2>2. CASE page # {}
    <3>1. PICK last \in page : \A q \in page \ {last} : Precedes(order, q, last)
      BY <1>7, <2>2, LastRow
    <3>2. page \ {last} \in SUBSET Before(order, R, last)
      BY <1>7, <3>1 DEF Before
    <3>3. Cardinality(page \ {last}) <= Cardinality(Before(order, R, last))
      BY <3>2, BeforeFinite, FS_Subset
    <3>4. Cardinality(page \ {last}) = Cardinality(page) - 1
      BY <1>9, FS_RemoveElement
    <3> QED BY <1>6, <1>7, <1>9, <3>3, <3>4
  <2> QED BY <2>1, <2>2
<1>11. ASSUME page # R
       PROVE  \E r \in R \ page : Before(order, R, r) = page
  <2>1. PICK r \in R \ page : \A q \in (R \ page) \ {r} : Precedes(order, r, q)
    BY <1>7, <1>11, FirstRow
  <2>2. \A q \in R : Precedes(order, q, r) <=> q \in page
    BY <1>7, <1>8, <2>1, RowOrder
  <2> QED BY <1>7, <2>1, <2>2 DEF Before
<1>12. found = page => page = R
  BY <1>1, <1>6, <1>9, <1>10, <1>11
<1>13. found # page => Cardinality(page) = n
  <2>1. found # page => page # R
    BY <1>1, <1>6, <1>7
  <2> QED BY <1>6, <1>7, <1>9, <1>10, <1>11, <2>1
<1>14. Cardinality(page) = n => page # {}
  BY FS_EmptySet
<1> QED BY <1>7, <1>8, <1>12, <1>13, <1>14 DEF found, page

\* What a page of a directory says of the rows that were found.
LEMMA PageFacts ==
  ASSUME NEW order \in Listings, NEW R, Keyed(R), NEW filter \in Filters,
         NEW cursor \in Cursors \union {None}, NEW n \in Limits
  PROVE  LET page  == Page(order, R, filter, cursor, n)
             found == Found(order, R, filter, cursor)
         IN  /\ page.rows \subseteq found
             /\ page.cursor = None => page.rows = found
             /\ page.cursor # None =>
                  /\ page.cursor \in Cursors
                  /\ Fits(order, page.cursor, filter, n)
                  /\ Cardinality(page.rows) = n
                  /\ \A r \in found : r \notin page.rows => After(order, page.cursor, r)
                  /\ \A r \in page.rows : ~After(order, page.cursor, r)
                  /\ \E last \in page.rows :
                       page.cursor.at = last.at /\ page.cursor.id = last.id
<1> DEFINE all   == Found(order, R, filter, cursor)
           found == First(order, all, n + 1)
           rows  == First(order, found, n)
           last  == CHOOSE r \in rows : \A q \in rows \ {r} : Precedes(order, q, r)
           next  == IF order = "users" THEN UserCursor(last)
                    ELSE BoundCursor(last, filter, n)
           page  == Page(order, R, filter, cursor, n)
<1>1. page.rows = rows /\ page.cursor = IF found = rows THEN None ELSE next
  BY DEF Page
<1>2. n \in Nat \ {0}
  BY DirectoryAssumption
<1>3. Keyed(all)
  <2>1. all \in SUBSET R
    BY DEF Found
  <2> HIDE DEF all
  <2> QED BY <2>1, FS_Subset DEF Keyed
<1>4. /\ rows \subseteq all
      /\ \A r \in rows, q \in all : Precedes(order, q, r) => q \in rows
      /\ found = rows => rows = all
      /\ found # rows => rows # {} /\ Cardinality(rows) = n
  <2> HIDE DEF all
  <2> QED BY <1>2, <1>3, PageCut
<1> HIDE DEF all, found, rows
<1>5. ASSUME found # rows
      PROVE  /\ last \in rows
             /\ \A q \in rows \ {last} : Precedes(order, q, last)
  BY <1>3, <1>4, <1>5, LastRow
<1>6. ASSUME found # rows
      PROVE  /\ next \in Cursors
             /\ next.at = last.at /\ next.id = last.id
             /\ Fits(order, next, filter, n)
  <2>1. last \in Rows
    BY <1>3, <1>4, <1>5, <1>6 DEF Keyed
  <2> HIDE DEF last
  <2> QED BY <2>1 DEF UserCursor, BoundCursor, Fits, Cursors, NoFilter, Filters, Rows
<1>7. ASSUME found # rows
      PROVE  \A r \in all : After(order, next, r) <=> Precedes(order, last, r)
  BY <1>6, <1>7 DEF After, Precedes
<1> HIDE DEF next, last
<1>8. ASSUME found # rows
      PROVE  /\ \A r \in all : r \notin rows => After(order, next, r)
             /\ \A r \in rows : ~After(order, next, r)
  BY <1>3, <1>4, <1>5, <1>7, <1>8, RowOrder
<1>9. found # rows => next # None
  BY <1>6, DirectoryAssumption
<1> QED BY <1>1, <1>4, <1>5, <1>6, <1>8, <1>9 DEF all

-----------------------------------------------------------------------------
(* The invariant.                                                          *)

\* Only users are gone for good.
GoneOK == gone # {} => listing = "users"

\* A session is checked while there is none in use.
CandidateOK == console.candidate # None => console.token = None

\* The listing has shown what is up to its position, and has yet to show the
\* stable rows after it.
HistoryOK ==
  view.started =>
    /\ history.stable \subseteq present
    /\ \A i \in history.stable : Matches(view.filter, Row(i))
    /\ view.cursor # None =>
         \A i \in history.rows : ~After(listing, view.cursor, Row(i))

IInv == /\ TypeOK /\ GoneOK /\ CandidateOK /\ HistoryOK
        /\ CursorsFit /\ ListingIsComplete /\ SessionsEnd /\ PagesAreUsable

\* The invariant but for the sessions, which a listing does not change.
ListingInv == HistoryOK /\ CursorsFit /\ ListingIsComplete /\ PagesAreUsable

LEMMA InitHolds == Init => IInv
<1> SUFFICES ASSUME Init PROVE IInv
  OBVIOUS
<1>1. NoView \in [started : BOOLEAN, filter : Filters, limit : Limits,
                  cursor : Cursors \union {None}]
  BY ConsoleAssumption DEF NoView, NoFilter, Filters
<1>2. TypeOK
  BY <1>1, ConsoleAssumption DEF Init, TypeOK, NoView, NoHistory, Steps, Authenticated
<1>3. ~view.started /\ gone = {} /\ console.candidate = None /\ refused = {}
  BY DEF Init, NoView
<1>4. SessionsEnd
  BY DEF Init, SessionsEnd
<1> QED
  BY <1>2, <1>3, <1>4 DEF IInv, GoneOK, CandidateOK, HistoryOK, CursorsFit,
                          ListingIsComplete, PagesAreUsable

-----------------------------------------------------------------------------
(* One call of the directory.                                              *)

\* The rows of a table have the keys of the table.
LEMMA TableKeyed ==
  ASSUME TypeOK, NEW now \in SUBSET Ids
  PROVE  /\ Keyed({Row(i) : i \in now})
         /\ \A i \in Ids : Row(i) \in Rows /\ Row(i).id = i
<1>1. \A i \in Ids : Row(i) \in Rows /\ Row(i).id = i
  BY ConsoleAssumption DEF TypeOK, Row, Rows
<1>2. IsFiniteSet({Row(i) : i \in now})
  <2> DEFINE f == [i \in now |-> Row(i)]
  <2>1. f \in Surjection(now, {Row(i) : i \in now})
    BY DEF Surjection
  <2>2. IsFiniteSet(now)
    BY DirectoryAssumption, FS_Subset
  <2> QED BY <2>1, <2>2, FS_Surjection
<1> QED BY <1>1, <1>2 DEF Keyed

\* Positions are ordered whether or not their rows are still there.
LEMMA PositionsOrdered ==
  ASSUME NEW order \in Listings,
         NEW a, a.at \in Times, a.id \in Ids,
         NEW b, b.at \in Times, b.id \in Ids,
         NEW c, c.at \in Times, c.id \in Ids,
         Precedes(order, a, b), Precedes(order, b, c)
  PROVE  Precedes(order, a, c)
<1>1. Text(a.at) \in Nat /\ Text(b.at) \in Nat /\ Text(c.at) \in Nat
  BY TextNat
<1>2. a.id \in Nat /\ b.id \in Nat /\ c.id \in Nat
  BY DirectoryAssumption
<1> QED BY <1>1, <1>2 DEF Precedes, Less

\* The client refuses a page only because of times within one second.
LEMMA RefusedPage ==
  ASSUME NEW order \in Listings, NEW page, NEW n,
         page.rows \subseteq Rows,
         page.cursor # None => Cardinality(page.rows) = n,
         ~Usable(order, page, n)
  PROVE  \E a, b \in page.rows : a.at # b.at /\ Second(a.at) = Second(b.at)
<1>1. order # "users"
  BY DEF Usable
<1>2. PICK a \in page.rows, b \in page.rows : Precedes(order, a, b) /\ ~NewestFirst(a, b)
  BY DEF Usable
<1>3. /\ a.at \in Times /\ b.at \in Times /\ a.id \in Nat /\ b.id \in Nat
      /\ a.at \in Nat /\ b.at \in Nat
  BY <1>2, DirectoryAssumption DEF Rows
<1>4. Text(a.at) \in Nat /\ Text(b.at) \in Nat
  BY <1>3, TextNat
<1>5. Text(b.at) < Text(a.at) \/ (Text(b.at) = Text(a.at) /\ b.id < a.id)
  BY <1>1, <1>2 DEF Precedes, Less
<1>6. ~(b.at < a.at) /\ ~(b.at = a.at /\ b.id < a.id)
  BY <1>2 DEF NewestFirst, Less
<1>7. a.at # b.at
  BY <1>4, <1>5, <1>6
<1>8. ~(Second(a.at) < Second(b.at)) /\ ~(Second(b.at) < Second(a.at))
  BY <1>3, <1>4, <1>5, <1>6, TextBySecond
<1>9. Second(a.at) \in Nat /\ Second(b.at) \in Nat
  <2>1. Base * Base \in Nat \ {0}
    BY DirectoryAssumption, Z3
  <2> QED BY <1>3, <2>1, DivNat DEF Second
<1> QED BY <1>2, <1>7, <1>8, <1>9

LEMMA RecordedTyped ==
  ASSUME TypeOK, GoneOK, NEW now \in Recorded
  PROVE  now \in SUBSET Ids /\ present \subseteq now /\ gone \subseteq Ids \ now
BY DEF Recorded, TypeOK, GoneOK

\* A page that continues the listing, or starts one.
LEMMA AcceptedPage ==
  ASSUME TypeOK, GoneOK, ListingInv,
         NEW filter \in Filters, NEW n \in Limits, NEW cursor \in Cursors \union {None},
         cursor # None => view.started /\ cursor = view.cursor /\ filter = view.filter,
         UNCHANGED <<listing, table>>,
         NEW now \in Recorded, present' = now,
         NEW page, page = Page(listing, {Row(i) : i \in now}, filter, cursor, n),
         Accept(page, filter, n, cursor)
  PROVE  ListingInv' /\ (view' \in [started : BOOLEAN, filter : Filters, limit : Limits,
                                    cursor : Cursors \union {None}])
         /\ history' \in [rows : SUBSET Ids, stable : SUBSET Ids, repeated : BOOLEAN]
         /\ refused' \subseteq Rows
<1> DEFINE R     == {Row(i) : i \in now}
           found == Found(listing, R, filter, cursor)
           ids   == {r.id : r \in page.rows}
<1>1. listing \in Listings /\ now \in SUBSET Ids /\ present \subseteq now
  BY RecordedTyped DEF TypeOK
<1>2. Keyed(R) /\ \A i \in Ids : Row(i) \in Rows /\ Row(i).id = i
  BY <1>1, TableKeyed
<1>3. /\ page.rows \subseteq found
      /\ page.cursor = None => page.rows = found
      /\ page.cursor # None =>
           /\ page.cursor \in Cursors
           /\ Fits(listing, page.cursor, filter, n)
           /\ \A r \in found : r \notin page.rows => After(listing, page.cursor, r)
           /\ \A r \in page.rows : ~After(listing, page.cursor, r)
           /\ \E last \in page.rows :
                page.cursor.at = last.at /\ page.cursor.id = last.id
  <2>1. page = Page(listing, R, filter, cursor, n) /\ Keyed(R)
    BY <1>2
  <2>2. listing \in Listings /\ cursor \in Cursors \union {None}
    BY <1>1
  <2> HIDE DEF R
  <2> DEFINE q == Page(listing, R, filter, cursor, n)
  <2>3. /\ q.rows \subseteq found
        /\ q.cursor = None => q.rows = found
        /\ q.cursor # None =>
             /\ q.cursor \in Cursors
             /\ Fits(listing, q.cursor, filter, n)
             /\ \A r \in found : r \notin q.rows => After(listing, q.cursor, r)
             /\ \A r \in q.rows : ~After(listing, q.cursor, r)
             /\ \E last \in q.rows : q.cursor.at = last.at /\ q.cursor.id = last.id
    BY <2>1, <2>2, PageFacts
  <2> QED BY <2>1, <2>3
<1>4. \A r \in found : r \in R /\ Matches(filter, r)
                       /\ (cursor # None => After(listing, cursor, r))
  BY DEF Found
<1>5. \A i \in now : Row(i) \in R
  OBVIOUS
<1>6. \A i \in now : Matches(filter, Row(i)) /\ (cursor # None => After(listing, cursor, Row(i)))
        => Row(i) \in found
  BY <1>5 DEF Found
<1>7. \A i \in ids : i \in now /\ Row(i) \in page.rows
  BY <1>1, <1>2, <1>3, <1>4
<1>8. \A i \in Ids : Row(i) \in page.rows => i \in ids
  BY <1>2
<1> HIDE DEF R, found, ids
<1>9. /\ view' = [started |-> TRUE, filter |-> filter, limit |-> n, cursor |-> page.cursor]
      /\ refused' = {}
      /\ cursor = None => history' = [rows |-> ids, repeated |-> FALSE,
           stable |-> {i \in now : Matches(filter, Row(i))}]
      /\ cursor # None => history' =
           [history EXCEPT !.rows = history.rows \union ids,
                           !.repeated = history.repeated \/ history.rows \intersect ids # {}]
  BY DEF Accept, ids
<1>10. \A i : Row(i)' = Row(i)
  BY DEF Row
<1>11. ids \subseteq Ids
  BY <1>1, <1>7
<1>12. CASE cursor = None
  <2>1. history' = [rows |-> ids, repeated |-> FALSE,
                    stable |-> {i \in now : Matches(filter, Row(i))}]
    BY <1>9, <1>10, <1>12
  <2>2. \A i \in now : Matches(filter, Row(i)) =>
          i \in ids \/ (page.cursor # None /\ After(listing, page.cursor, Row(i)))
    BY <1>1, <1>3, <1>6, <1>8, <1>12
  <2>3. HistoryOK'
    BY <1>3, <1>7, <1>9, <1>10, <2>1 DEF HistoryOK
  <2>4. ListingIsComplete'
    BY <1>9, <1>10, <2>1, <2>2 DEF ListingIsComplete
  <2>5. CursorsFit'
    BY <1>3, <1>9 DEF CursorsFit, Fits
  <2> QED
    BY <1>1, <1>3, <1>9, <1>11, <2>1, <2>3, <2>4, <2>5 DEF ListingInv, PagesAreUsable
<1>13. CASE cursor # None
  <2>1. view.started /\ cursor = view.cursor /\ filter = view.filter /\ cursor \in Cursors
    BY <1>13
  <2>2. history.rows \subseteq Ids /\ history.stable \subseteq present /\ ~history.repeated
    BY <2>1 DEF ListingInv, HistoryOK, ListingIsComplete, TypeOK
  <2>3. \A i \in history.rows : ~After(listing, cursor, Row(i))
    BY <1>13, <2>1 DEF ListingInv, HistoryOK
  <2>4. \A i \in ids : After(listing, cursor, Row(i))
    BY <1>3, <1>4, <1>7, <1>13
  <2>5. history' = [rows |-> history.rows \union ids, stable |-> history.stable,
                    repeated |-> FALSE]
    BY <1>9, <1>13, <2>2, <2>3, <2>4 DEF TypeOK
  <2>6. \A i \in history.stable :
          \/ i \in history.rows \union ids
          \/ page.cursor # None /\ After(listing, page.cursor, Row(i))
    <3>1. \A i \in history.stable : i \in history.rows \/ After(listing, cursor, Row(i))
      BY <2>1 DEF ListingInv, ListingIsComplete
    <3>2. \A i \in history.stable : i \in now /\ i \in Ids /\ Matches(filter, Row(i))
      BY <1>1, <2>1, <2>2 DEF ListingInv, HistoryOK
    <3> QED BY <1>3, <1>6, <1>8, <3>1, <3>2
  <2>7. ASSUME page.cursor # None, NEW i \in history.rows,
               After(listing, page.cursor, Row(i))
        PROVE  FALSE
    <3>1. PICK last \in page.rows : page.cursor.at = last.at /\ page.cursor.id = last.id
      BY <1>3, <2>7
    <3>2. After(listing, cursor, last)
      BY <1>3, <1>4, <1>13, <3>1
    <3>3. Precedes(listing, cursor, page.cursor)
      BY <3>1, <3>2 DEF After, Precedes
    <3>4. /\ page.cursor.at \in Times /\ page.cursor.id \in Ids
          /\ cursor.at \in Times /\ cursor.id \in Ids
          /\ Row(i).at \in Times /\ Row(i).id \in Ids
      BY <1>2, <1>3, <2>1, <2>2, <2>7 DEF Cursors, Rows
    <3>5. Precedes(listing, cursor, Row(i))
      BY <1>1, <2>7, <3>3, <3>4, PositionsOrdered DEF After
    <3> QED BY <2>3, <2>7, <3>5 DEF After
  <2>8. HistoryOK'
    BY <1>1, <1>3, <1>7, <1>9, <1>10, <2>1, <2>2, <2>5, <2>7 DEF HistoryOK, ListingInv
  <2>9. ListingIsComplete'
    BY <1>9, <1>10, <2>5, <2>6 DEF ListingIsComplete
  <2>10. CursorsFit'
    BY <1>3, <1>9 DEF CursorsFit, Fits
  <2> QED
    BY <1>1, <1>3, <1>9, <1>11, <2>2, <2>5, <2>8, <2>9, <2>10
       DEF ListingInv, PagesAreUsable, TypeOK
<1> QED BY <1>12, <1>13

-----------------------------------------------------------------------------
(* The other effects of a step on the listing.                             *)

LEMMA ListingKept ==
  ASSUME ListingInv, UNCHANGED <<listing, table, shown>>, present \subseteq present'
  PROVE  ListingInv'
BY DEF ListingInv, HistoryOK, CursorsFit, ListingIsComplete, PagesAreUsable, shown, Row

LEMMA ListingCleared ==
  ASSUME ListingInv, ~view'.started, refused' = refused \/ refused' = {}
  PROVE  ListingInv'
BY DEF ListingInv, HistoryOK, CursorsFit, ListingIsComplete, PagesAreUsable

LEMMA ListingShrinks ==
  ASSUME TypeOK, ListingInv, NEW i \in Ids, UNCHANGED <<listing, table, view, refused>>,
         present' = present \ {i},
         history' = [history EXCEPT !.stable = history.stable \ {i}]
  PROVE  ListingInv'
<1>1. /\ history'.stable = history.stable \ {i}
      /\ history'.rows = history.rows /\ history'.repeated = history.repeated
  BY DEF TypeOK
<1> QED
  BY <1>1 DEF ListingInv, HistoryOK, CursorsFit, ListingIsComplete, PagesAreUsable, Row

ViewTyped ==
  /\ view    \in [started : BOOLEAN, filter : Filters, limit : Limits,
                  cursor : Cursors \union {None}]
  /\ history \in [rows : SUBSET Ids, stable : SUBSET Ids, repeated : BOOLEAN]
  /\ refused \subseteq Rows

LEMMA LoadStep ==
  ASSUME TypeOK, GoneOK, ListingInv,
         NEW filter \in Filters, NEW n \in Limits, NEW cursor \in Cursors \union {None},
         cursor # None => view.started /\ cursor = view.cursor /\ filter = view.filter,
         NEW unloaded, unloaded \in {view, [view EXCEPT !.started = FALSE, !.limit = n]},
         Load(filter, n, cursor, unloaded)
  PROVE  /\ ListingInv' /\ ViewTyped'
         /\ present' \in SUBSET Ids /\ gone \subseteq Ids \ present'
         /\ UNCHANGED <<listing, table, gone, sessions, lost, admin, interrupted, killed, console>>
<1>1. UNCHANGED <<listing, table, gone, sessions, lost, admin, interrupted, killed, console>>
  BY DEF Load
<1>2. \A now \in Recorded : now \in SUBSET Ids /\ present \subseteq now /\ gone \subseteq Ids \ now
  BY RecordedTyped
<1>3. present \in SUBSET Ids /\ gone \subseteq Ids \ present /\ listing \in Listings
  BY DEF TypeOK
<1>4. /\ view \in [started : BOOLEAN, filter : Filters, limit : Limits,
                   cursor : Cursors \union {None}]
      /\ history \in [rows : SUBSET Ids, stable : SUBSET Ids, repeated : BOOLEAN]
      /\ refused \subseteq Rows
  BY DEF TypeOK
<1>5. ASSUME NEW page, Refuse(page, unloaded), page \subseteq Rows,
             page # {} => \E a, b \in page : a.at # b.at /\ Second(a.at) = Second(b.at),
             present \subseteq present'
      PROVE  ListingInv' /\ ViewTyped'
  <2>1. /\ view' = unloaded /\ refused' = page
        /\ history' = IF unloaded.started THEN history ELSE NoHistory
    BY <1>5 DEF Refuse
  <2>2. unloaded.started => unloaded = view
    BY <1>4
  <2>3. unloaded \in [started : BOOLEAN, filter : Filters, limit : Limits,
                      cursor : Cursors \union {None}]
    BY <1>4
  <2>4. ViewTyped'
    BY <1>4, <1>5, <2>1, <2>3 DEF ViewTyped, NoHistory
  <2>5. PagesAreUsable'
    BY <1>5, <2>1 DEF PagesAreUsable
  <2>6. HistoryOK' /\ CursorsFit' /\ ListingIsComplete'
    BY <1>1, <1>5, <2>1, <2>2
       DEF ListingInv, HistoryOK, CursorsFit, ListingIsComplete, Row
  <2> QED BY <2>4, <2>5, <2>6 DEF ListingInv
<1>6. ASSUME NEW now \in Recorded, present' = now,
             NEW page, page = Page(listing, {Row(i) : i \in now}, filter, cursor, n),
             IF Usable(listing, page, n) THEN Accept(page, filter, n, cursor)
                                         ELSE Refuse(page.rows, unloaded)
      PROVE  ListingInv' /\ ViewTyped'
  <2>1. CASE Usable(listing, page, n)
    BY <1>1, <1>6, <2>1, AcceptedPage DEF ViewTyped
  <2>2. CASE ~Usable(listing, page, n)
    <3> DEFINE R == {Row(i) : i \in now}
    <3>1. Keyed(R)
      BY <1>2, <1>6, TableKeyed
    <3>2. page = Page(listing, R, filter, cursor, n)
      BY <1>6
    <3> HIDE DEF R
    <3>3. LET q == Page(listing, R, filter, cursor, n)
          IN  q.rows \subseteq Found(listing, R, filter, cursor)
              /\ (q.cursor # None => Cardinality(q.rows) = n)
      BY <1>3, <3>1, PageFacts
    <3>4. page.rows \subseteq Rows /\ (page.cursor # None => Cardinality(page.rows) = n)
      BY <3>1, <3>2, <3>3 DEF Found, Keyed
    <3>5. \E a, b \in page.rows : a.at # b.at /\ Second(a.at) = Second(b.at)
      BY <1>3, <2>2, <3>4, RefusedPage
    <3> QED BY <1>2, <1>5, <1>6, <2>2, <3>4, <3>5
  <2> QED BY <2>1, <2>2
<1> DEFINE Answered ==
             \E now \in Recorded :
               LET page == Page(listing, {Row(i) : i \in now}, filter, cursor, n)
               IN  /\ present' = now
                   /\ IF Usable(listing, page, n) THEN Accept(page, filter, n, cursor)
                                                  ELSE Refuse(page.rows, unloaded)
           Failed == present' \in {present} \union Recorded /\ Refuse({}, unloaded)
<1>7. CASE Failed
  BY <1>1, <1>2, <1>3, <1>5, <1>7
<1>8. CASE Answered
  BY <1>1, <1>2, <1>6, <1>8
<1>9. Answered \/ Failed
  BY Zenon DEF Load
<1> QED BY <1>1, <1>7, <1>8, <1>9

-----------------------------------------------------------------------------
(* Steps.                                                                  *)

LEMMA SessionStep ==
  ASSUME IInv, Session
  PROVE  IInv'
<1> USE DEF IInv, TypeOK, GoneOK, CandidateOK, SessionsEnd, Steps, AtPrompt, Authenticated,
            GoTo, End
<1>l. ListingInv
  BY DEF ListingInv
<1>v. /\ NoView \in [started : BOOLEAN, filter : Filters, limit : Limits,
                     cursor : Cursors \union {None}]
      /\ NoHistory \in [rows : SUBSET Ids, stable : SUBSET Ids, repeated : BOOLEAN]
      /\ ~NoView.started
  BY ConsoleAssumption DEF NoView, NoFilter, Filters, NoHistory
<1>c. ASSUME NEW step, Clear(step)
      PROVE  /\ view' \in [started : BOOLEAN, filter : Filters, limit : Limits,
                           cursor : Cursors \union {None}]
             /\ history' \in [rows : SUBSET Ids, stable : SUBSET Ids, repeated : BOOLEAN]
             /\ ~view'.started
             /\ console' = [console EXCEPT !.step = step, !.token = None]
  BY <1>c, <1>v, ConsoleAssumption DEF Clear
<1>1. ASSUME NEW t \in Tokens, Login(t) PROVE IInv'
  <2>1. ListingInv'
    BY <1>1, <1>l, ListingKept DEF Login
  <2>2. TypeOK'
    <3>1. /\ sessions' \in [Tokens -> {"unused", "live", "ended"}]
          /\ lost' \subseteq Tokens
      BY <1>1 DEF Login
    <3>2. UNCHANGED <<listing, table, present, gone, admin, interrupted, killed, view, history, refused>>
      BY <1>1 DEF Login, shown
    <3>3. /\ console' \in [step : Steps, token : Tokens \union {None},
                            candidate : Tokens \union {None}, target : Ids \union {None}]
          /\ console'.candidate # None <=> console'.step \in {"verifying", "revoking"}
          /\ console'.target # None <=> console'.step = "confirming"
          /\ console'.token = console.token
      <4>1. CASE UNCHANGED console
        BY <4>1
      <4>2. CASE console' = [console EXCEPT !.step = "verifying", !.candidate = t]
        BY <1>1, <4>2, ConsoleAssumption DEF Login
      <4> QED BY <1>1, <4>1, <4>2 DEF Login
    <3>4. killed' = None
      BY <1>1, <3>2 DEF Login
    <3> QED BY <3>1, <3>2, <3>3, <3>4
  <2>3. GoneOK' /\ CandidateOK'
    BY <1>1 DEF Login, shown
  <2>4. console'.token = console.token
    BY <1>1 DEF Login
  <2>5. t \in lost' \/ console'.candidate = t
    BY <1>1 DEF Login
  <2>6. \A u \in lost \union {console.candidate} : u # None => u \in lost' \union {console'.candidate}
    BY <1>1 DEF Login
  <2>7. SessionsEnd'
    BY <1>1, <2>4, <2>5, <2>6, ConsoleAssumption DEF Login
  <2> QED BY <2>1, <2>2, <2>3, <2>7 DEF ListingInv
<1>2. CASE Verify
  <2>1. ListingInv'
    <3>1. CASE AdminProgram
      BY <1>2, <3>1, <1>l, ListingKept DEF Verify, server, shown
    <3>2. CASE ~AdminProgram
      BY <1>2, <3>2, <1>l, <1>v, ListingCleared DEF Verify
    <3> QED BY <3>1, <3>2
  <2>2. /\ console' \in [step : Steps, token : Tokens \union {None},
                        candidate : Tokens \union {None}, target : Ids \union {None}]
        /\ console'.step = "prompt" /\ console'.candidate = None /\ console'.target = None
        /\ console'.token = console.candidate
    BY <1>2 DEF Verify
  <2>3. /\ view' \in [started : BOOLEAN, filter : Filters, limit : Limits,
                      cursor : Cursors \union {None}]
        /\ history' \in [rows : SUBSET Ids, stable : SUBSET Ids, repeated : BOOLEAN]
        /\ view'.started => console'.token # None
    BY <1>2, <1>v, <2>2 DEF Verify
  <2>4. UNCHANGED <<listing, table, present, gone, sessions, lost, admin, interrupted,
                    killed, refused>>
    BY <1>2 DEF Verify, server
  <2>5. TypeOK'
    <3>1. killed = None
      BY <1>2 DEF Verify
    <3> QED BY <2>2, <2>3, <2>4, <3>1
  <2>6. console.token = None
    BY <1>2 DEF Verify
  <2>7. GoneOK' /\ CandidateOK' /\ SessionsEnd'
    BY <2>2, <2>4, <2>6
  <2> QED BY <2>1, <2>5, <2>7 DEF ListingInv
<1>3. CASE Reject
  <2>1. ListingInv'
    BY <1>3, <1>l, ListingKept DEF Reject, server
  <2>2. TypeOK' /\ GoneOK' /\ CandidateOK' /\ SessionsEnd'
    BY <1>3, ConsoleAssumption DEF Reject, server, shown
  <2> QED BY <2>1, <2>2 DEF ListingInv
<1>4. CASE RevokeRejected
  <2>1. ListingInv'
    BY <1>4, <1>l, ListingKept DEF RevokeRejected
  <2>2. TypeOK' /\ GoneOK'
    BY <1>4, ConsoleAssumption DEF RevokeRejected, shown
  <2>3. CandidateOK' /\ SessionsEnd'
    BY <1>4, ConsoleAssumption DEF RevokeRejected, shown
  <2> QED BY <2>1, <2>2, <2>3 DEF ListingInv
<1>5. CASE Logout
  <2>1. CASE Clear("prompt")
    <3>1. ListingInv'
      BY <1>5, <2>1, <1>c, <1>l, ListingCleared DEF Logout
    <3>2. /\ view' \in [started : BOOLEAN, filter : Filters, limit : Limits,
                         cursor : Cursors \union {None}]
          /\ history' \in [rows : SUBSET Ids, stable : SUBSET Ids, repeated : BOOLEAN]
          /\ ~view'.started
          /\ console' = [console EXCEPT !.step = "prompt", !.token = None]
      BY <2>1, <1>c
    <3>3. TypeOK'
      <4>1. /\ sessions' \in [Tokens -> {"unused", "live", "ended"}]
            /\ UNCHANGED <<listing, table, present, gone, lost, admin, interrupted,
                           killed, refused>>
        BY <1>5 DEF Logout
      <4>2. /\ console' \in [step : Steps, token : Tokens \union {None},
                            candidate : Tokens \union {None}, target : Ids \union {None}]
            /\ console'.step = "prompt" /\ console'.candidate = None /\ console'.target = None
        BY <1>5, <3>2 DEF Logout
      <4>3. killed = None
        BY <1>5 DEF Logout
      <4> QED BY <3>2, <4>1, <4>2, <4>3
    <3>4. GoneOK' /\ CandidateOK' /\ SessionsEnd'
      BY <1>5, <3>2, ConsoleAssumption DEF Logout
    <3> QED BY <3>1, <3>3, <3>4 DEF ListingInv
  <2>2. CASE UNCHANGED <<console, view, history>>
    <3>1. ListingInv'
      BY <1>5, <2>2, <1>l, ListingKept DEF Logout, shown
    <3>2. TypeOK' /\ GoneOK' /\ CandidateOK' /\ SessionsEnd'
      BY <1>5, <2>2, ConsoleAssumption DEF Logout
    <3> QED BY <3>1, <3>2 DEF ListingInv
  <2> QED BY <1>5, <2>1, <2>2 DEF Logout
<1>6. CASE Exit
  <2>1. CASE Authenticated
    <3>1. Clear("closed")
      BY <1>6, <2>1 DEF Exit, LogoutOnExit
    <3>2. ListingInv'
      BY <1>6, <3>1, <1>c, <1>l, ListingCleared DEF Exit
    <3>3. /\ view' \in [started : BOOLEAN, filter : Filters, limit : Limits,
                         cursor : Cursors \union {None}]
          /\ history' \in [rows : SUBSET Ids, stable : SUBSET Ids, repeated : BOOLEAN]
          /\ ~view'.started
          /\ console' = [console EXCEPT !.step = "closed", !.token = None]
      BY <3>1, <1>c
    <3>4. TypeOK'
      <4>1. /\ sessions' \in [Tokens -> {"unused", "live", "ended"}]
            /\ lost' \subseteq Tokens
        BY <1>6, <2>1 DEF Exit, LogoutOnExit
      <4>2. UNCHANGED <<listing, table, present, gone, admin, interrupted, killed, refused>>
        BY <1>6 DEF Exit
      <4>3. /\ console' \in [step : Steps, token : Tokens \union {None},
                              candidate : Tokens \union {None}, target : Ids \union {None}]
            /\ console'.step = "closed" /\ console'.candidate = None /\ console'.target = None
        BY <1>6, <3>3 DEF Exit
      <4> QED BY <3>3, <4>1, <4>2, <4>3
    <3>5. GoneOK' /\ CandidateOK' /\ SessionsEnd'
      BY <1>6, <2>1, <3>3, ConsoleAssumption DEF Exit, LogoutOnExit
    <3> QED BY <3>2, <3>4, <3>5 DEF ListingInv
  <2>2. CASE ~Authenticated
    <3>1. ListingInv'
      BY <1>6, <2>2, <1>l, ListingKept DEF Exit, shown
    <3>2. TypeOK' /\ GoneOK' /\ CandidateOK' /\ SessionsEnd'
      BY <1>6, <2>2, ConsoleAssumption DEF Exit
    <3> QED BY <3>1, <3>2 DEF ListingInv
  <2> QED BY <2>1, <2>2
<1>7. CASE ChangePassword
  <2>1. CASE Clear("prompt")
    <3>1. ListingInv'
      BY <1>7, <2>1, <1>c, <1>l, ListingCleared DEF ChangePassword
    <3>2. /\ view' \in [started : BOOLEAN, filter : Filters, limit : Limits,
                         cursor : Cursors \union {None}]
          /\ history' \in [rows : SUBSET Ids, stable : SUBSET Ids, repeated : BOOLEAN]
          /\ ~view'.started
          /\ console' = [console EXCEPT !.step = "prompt", !.token = None]
      BY <2>1, <1>c
    <3>3. TypeOK'
      <4>1. /\ sessions' \in [Tokens -> {"unused", "live", "ended"}]
            /\ UNCHANGED <<listing, table, present, gone, lost, admin, interrupted,
                           killed, refused>>
        BY <1>7 DEF ChangePassword
      <4>2. /\ console' \in [step : Steps, token : Tokens \union {None},
                            candidate : Tokens \union {None}, target : Ids \union {None}]
            /\ console'.step = "prompt" /\ console'.candidate = None /\ console'.target = None
        BY <1>7, <3>2 DEF ChangePassword
      <4>3. killed = None
        BY <1>7 DEF ChangePassword
      <4> QED BY <3>2, <4>1, <4>2, <4>3
    <3>4. GoneOK' /\ CandidateOK' /\ SessionsEnd'
      BY <1>7, <3>2, ConsoleAssumption DEF ChangePassword
    <3> QED BY <3>1, <3>3, <3>4 DEF ListingInv
  <2>2. CASE UNCHANGED <<console, view, history>>
    <3>1. ListingInv'
      BY <1>7, <2>2, <1>l, ListingKept DEF ChangePassword, shown
    <3>2. TypeOK' /\ GoneOK' /\ CandidateOK' /\ SessionsEnd'
      BY <1>7, <2>2, ConsoleAssumption DEF ChangePassword
    <3> QED BY <3>1, <3>2 DEF ListingInv
  <2> QED BY <1>7, <2>1, <2>2 DEF ChangePassword
<1> QED BY <1>1, <1>2, <1>3, <1>4, <1>5, <1>6, <1>7 DEF Session

LEMMA ListingStep ==
  ASSUME IInv, Listing
  PROVE  IInv'
<1> DEFINE Call(filter, n, cursor, unloaded) ==
             /\ cursor # None => view.started /\ cursor = view.cursor /\ filter = view.filter
             /\ unloaded \in {view, [view EXCEPT !.started = FALSE, !.limit = n]}
             /\ Load(filter, n, cursor, unloaded)
             /\ Authenticated
           Called == \E filter \in Filters, n \in Limits, cursor \in Cursors \union {None} :
                       \E unloaded : Call(filter, n, cursor, unloaded)
<1>0. Called
  <2> USE DEF Ready
  <2>1. NoFilter \in Filters /\ Searches \subseteq Filters
    BY ConsoleAssumption DEF NoFilter, Filters
  <2>2. view.filter \in Filters /\ view.limit \in Limits /\ view.cursor \in Cursors \union {None}
    BY DEF IInv, TypeOK
  <2>3. ASSUME NEW n \in Limits, StartUserList(n) PROVE Called
    <3>1. Call(NoFilter, n, None, [view EXCEPT !.started = FALSE, !.limit = n])
      BY <2>3 DEF StartUserList
    <3> QED BY <2>1, <3>1
  <2>4. ASSUME NEW f \in Searches, NEW n \in Limits,
               StartAuditList(f, n) \/ StartMediaPage(f, n)
        PROVE  Called
    <3>1. Call(f, n, None, view)
      BY <2>4 DEF StartAuditList, StartMediaPage
    <3> QED BY <2>1, <3>1
  <2>5. CASE NextPage
    <3>1. Call(view.filter, view.limit, view.cursor, view)
      BY <2>5 DEF NextPage
    <3> QED BY <2>2, <3>1
  <2>6. CASE FirstPage
    <3>1. Call(view.filter, view.limit, None, view)
      BY <2>6 DEF FirstPage
    <3> QED BY <2>2, <3>1
  <2> QED BY <2>3, <2>4, <2>5, <2>6 DEF Listing
<1>a. PICK filter \in Filters, n \in Limits, cursor \in Cursors \union {None} :
        \E unloaded : Call(filter, n, cursor, unloaded)
  BY <1>0
<1>1. PICK unloaded : Call(filter, n, cursor, unloaded)
  BY <1>a
<1>2. /\ ListingInv' /\ ViewTyped'
      /\ present' \in SUBSET Ids /\ gone \subseteq Ids \ present'
      /\ UNCHANGED <<listing, table, gone, sessions, lost, admin, interrupted, killed, console>>
  BY <1>1, LoadStep DEF IInv, ListingInv
<1>3. TypeOK'
  BY <1>1, <1>2 DEF IInv, TypeOK, ViewTyped, Authenticated
<1>4. GoneOK' /\ CandidateOK' /\ SessionsEnd'
  BY <1>2 DEF IInv, GoneOK, CandidateOK, SessionsEnd
<1> QED BY <1>2, <1>3, <1>4 DEF IInv, ListingInv

LEMMA UserStep ==
  ASSUME IInv, UserChange
  PROVE  IInv'
<1> USE DEF IInv, TypeOK, GoneOK, CandidateOK, SessionsEnd, Steps, Authenticated, Ready, AtPrompt
<1>l. ListingInv
  BY DEF ListingInv
<1>1. ASSUME NEW i \in Ids, CreateUser(i) PROVE IInv'
  <2>1. ListingInv'
    BY <1>1, <1>l, ListingKept DEF CreateUser
  <2>2. TypeOK' /\ GoneOK' /\ CandidateOK' /\ SessionsEnd'
    BY <1>1 DEF CreateUser, shown
  <2> QED BY <2>1, <2>2 DEF ListingInv
<1>2. ASSUME NEW i \in Ids, SelectUser(i) PROVE IInv'
  <2>1. ListingInv'
    BY <1>2, <1>l, ListingKept DEF SelectUser, server
  <2>2. TypeOK' /\ GoneOK' /\ CandidateOK' /\ SessionsEnd'
    BY <1>2, ConsoleAssumption DEF SelectUser, server, shown
  <2> QED BY <2>1, <2>2 DEF ListingInv
<1>3. CASE KeepUser
  <2>1. ListingInv'
    BY <1>3, <1>l, ListingKept DEF KeepUser, server
  <2>2. TypeOK' /\ GoneOK' /\ CandidateOK' /\ SessionsEnd'
    BY <1>3 DEF KeepUser, server, shown
  <2> QED BY <2>1, <2>2 DEF ListingInv
<1>4. CASE DeleteUser
  <2>1. console.target \in Ids /\ present' = present \ {console.target}
    BY <1>4 DEF DeleteUser, Vanish
  <2>2. ListingInv'
    <3>1. CASE view' = NoView
      BY <1>4, <1>l, <3>1, ListingCleared DEF DeleteUser, NoView
    <3>2. CASE /\ UNCHANGED view
               /\ history' = [history EXCEPT !.stable = history.stable \ {console.target}]
      BY <1>4, <1>l, <2>1, <3>2, ListingShrinks DEF DeleteUser
    <3> QED BY <1>4, <3>1, <3>2 DEF DeleteUser
  <2>3. /\ view' \in [started : BOOLEAN, filter : Filters, limit : Limits,
                      cursor : Cursors \union {None}]
        /\ view'.started => view.started
        /\ history' \in [rows : SUBSET Ids, stable : SUBSET Ids, repeated : BOOLEAN]
    <3>1. CASE view' = NoView /\ history' = NoHistory
      BY <3>1, ConsoleAssumption DEF NoView, NoFilter, Filters, NoHistory
    <3>2. CASE /\ UNCHANGED view
               /\ history' = [history EXCEPT !.stable = history.stable \ {console.target}]
      BY <3>2
    <3> QED BY <1>4, <3>1, <3>2 DEF DeleteUser
  <2>4. gone' \subseteq Ids \ present' /\ (gone' # {} => listing = "users")
    BY <1>4, <2>1 DEF DeleteUser, Vanish
  <2>5. console' = [console EXCEPT !.step = "prompt", !.target = None]
    BY <1>4 DEF DeleteUser
  <2>6. TypeOK'
    BY <1>4, <2>1, <2>3, <2>4, <2>5 DEF DeleteUser
  <2>7. GoneOK' /\ CandidateOK' /\ SessionsEnd'
    BY <1>4, <2>4, <2>5 DEF DeleteUser
  <2> QED BY <2>2, <2>6, <2>7 DEF ListingInv
<1> QED BY <1>1, <1>2, <1>3, <1>4 DEF UserChange

LEMMA EnvironmentStep ==
  ASSUME IInv, Environment
  PROVE  IInv'
<1> USE DEF IInv, TypeOK, GoneOK, CandidateOK, SessionsEnd, Authenticated
<1>l. ListingInv
  BY DEF ListingInv
<1>1. ASSUME NEW i \in Ids, Appear(i) PROVE IInv'
  <2>1. ListingInv'
    BY <1>1, <1>l, ListingKept DEF Appear
  <2>2. TypeOK' /\ GoneOK' /\ CandidateOK' /\ SessionsEnd'
    BY <1>1 DEF Appear, shown
  <2> QED BY <2>1, <2>2 DEF ListingInv
<1>2. ASSUME NEW i \in Ids, Disappear(i) PROVE IInv'
  <2>1. present' = present \ {i} /\ history' = [history EXCEPT !.stable = history.stable \ {i}]
    BY <1>2 DEF Disappear, Vanish
  <2>2. ListingInv'
    BY <1>2, <1>l, <2>1, ListingShrinks DEF Disappear
  <2>3. gone' \subseteq Ids \ present' /\ (gone' # {} => listing = "users")
    BY <1>2, <2>1 DEF Disappear, Vanish
  <2>4. TypeOK' /\ GoneOK' /\ CandidateOK' /\ SessionsEnd'
    BY <1>2, <2>1, <2>3 DEF Disappear
  <2> QED BY <2>2, <2>4 DEF ListingInv
<1>3. ASSUME NEW t \in Tokens, Expire(t) PROVE IInv'
  <2>1. ListingInv'
    BY <1>3, <1>l, ListingKept DEF Expire
  <2>2. TypeOK' /\ GoneOK' /\ CandidateOK' /\ SessionsEnd'
    BY <1>3 DEF Expire, End, shown
  <2> QED BY <2>1, <2>2 DEF ListingInv
<1>4. CASE SetRole \/ Interrupt
  <2>1. ListingInv'
    BY <1>4, <1>l, ListingKept DEF SetRole, Interrupt
  <2>2. TypeOK' /\ GoneOK' /\ CandidateOK' /\ SessionsEnd'
    BY <1>4 DEF SetRole, Interrupt, shown
  <2> QED BY <2>1, <2>2 DEF ListingInv
<1>5. ASSUME Kill, console.step # "closed" PROVE IInv'
  <2>1. ~view'.started
    BY <1>5 DEF Kill, NoView
  <2>2. ListingInv'
    BY <1>5, <1>l, <2>1, ListingCleared DEF Kill
  <2>3. /\ console'.token = None /\ console'.candidate = None
        /\ console'.target = None /\ console'.step = "closed"
        /\ console' \in [step : Steps, token : Tokens \union {None},
                         candidate : Tokens \union {None}, target : Ids \union {None}]
    BY <1>5 DEF Kill, Steps
  <2>4. /\ view' \in [started : BOOLEAN, filter : Filters, limit : Limits,
                      cursor : Cursors \union {None}]
        /\ history' \in [rows : SUBSET Ids, stable : SUBSET Ids, repeated : BOOLEAN]
    BY <1>5, ConsoleAssumption DEF Kill, NoView, NoFilter, Filters, NoHistory
  <2>5. /\ killed' \in Tokens \union {None}
        /\ {console.token, console.candidate} \ {None} \subseteq {killed'}
    BY <1>5 DEF Kill
  <2>6. killed = None
    BY <1>5
  <2>7. TypeOK'
    BY <1>5, <2>1, <2>3, <2>4, <2>5 DEF Kill
  <2>8. GoneOK' /\ CandidateOK' /\ SessionsEnd'
    BY <1>5, <2>3, <2>5, <2>6, ConsoleAssumption DEF Kill
  <2> QED BY <2>2, <2>7, <2>8 DEF ListingInv
<1> QED BY <1>1, <1>2, <1>3, <1>4, <1>5 DEF Environment

LEMMA IInvStep ==
  ASSUME IInv, [Next]_vars
  PROVE  IInv'
<1>1. CASE UNCHANGED vars
  <2>1. ListingInv'
    BY <1>1, ListingKept DEF IInv, ListingInv, vars, server
  <2>2. TypeOK' /\ GoneOK' /\ CandidateOK' /\ SessionsEnd'
    BY <1>1 DEF IInv, TypeOK, GoneOK, CandidateOK, SessionsEnd, Authenticated,
                vars, server, shown
  <2> QED BY <2>1, <2>2 DEF IInv, ListingInv
<1> QED
  BY <1>1, SessionStep, ListingStep, UserStep, EnvironmentStep DEF Next

-----------------------------------------------------------------------------
(* Theorems.                                                               *)

\* The invariant on which the properties below rest.
THEOREM Invariance == Spec => []IInv
  BY InitHolds, IInvStep, PTL DEF Spec

\* The console and the rows have their shapes; a listing has a session.
THEOREM TypeCorrect == Spec => []TypeOK
<1>1. IInv => TypeOK
  BY DEF IInv
<1> QED BY <1>1, Invariance, PTL

\* No row that stays is skipped and none is repeated, whatever rows appear,
\* disappear and come back between two pages.
THEOREM ListingCompleteness == Spec => []ListingIsComplete
<1>1. IInv => ListingIsComplete
  BY DEF IInv
<1> QED BY <1>1, Invariance, PTL

\* A cursor is kept with the filter and the limit it was made with.
THEOREM CursorSafety == Spec => []CursorsFit
<1>1. IInv => CursorsFit
  BY DEF IInv
<1> QED BY <1>1, Invariance, PTL

\* A live session is known to the console, unless an answer was lost or the
\* program was killed, which leaves no more than the session it then had.
THEOREM SessionSafety == Spec => []SessionsEnd
<1>1. IInv => SessionsEnd
  BY DEF IInv
<1> QED BY <1>1, Invariance, PTL

\* Whatever digits times have, a page is refused only for times within one second.
THEOREM PageSafety == Spec => []PagesAreUsable
<1>1. IInv => PagesAreUsable
  BY DEF IInv
<1> QED BY <1>1, Invariance, PTL

-----------------------------------------------------------------------------
(* Filters.                                                                *)

\* For times that are equal or of different seconds, the comparison of their
\* texts is that of the times.
LEMMA TextAgrees ==
  ASSUME NEW a \in Times, NEW b \in Times, a = b \/ Second(a) # Second(b)
  PROVE  Text(a) < Text(b) <=> a < b
<1>1. Text(a) \in Nat /\ Text(b) \in Nat
  BY TextNat
<1>2. a \in Nat /\ b \in Nat /\ Second(a) \in Nat /\ Second(b) \in Nat
  <2>1. Base * Base \in Nat \ {0}
    BY DirectoryAssumption, Z3
  <2> QED BY <2>1, DirectoryAssumption, DivNat DEF Second
<1>3. CASE a = b
  BY <1>1, <1>2, <1>3
<1>4. CASE Second(a) < Second(b)
  BY <1>4, TextBySecond
<1>5. CASE Second(b) < Second(a)
  <2>1. b < a /\ Text(b) < Text(a)
    BY <1>5, TextBySecond
  <2> QED BY <1>1, <1>2, <2>1
<1> QED BY <1>2, <1>3, <1>4, <1>5

\* A filter finds exactly the rows that docs/audit.md says, where no time of the
\* filter shares its second with a row of another time: for filters and rows
\* in whole seconds, always.
THEOREM FilterAgreement ==
  ASSUME NEW filter \in Filters, NEW row \in Rows,
         \A t \in {filter.from, filter.to} \ {None} :
           t = row.at \/ Second(t) # Second(row.at)
  PROVE  Matches(filter, row) <=> Documented(filter, row)
<1>1. /\ row.at \in Times
      /\ filter.from # None => filter.from \in Times
      /\ filter.to   # None => filter.to   \in Times
  BY DEF Rows, Filters
<1>2. filter.from # None => (Text(row.at) >= Text(filter.from) <=> row.at >= filter.from)
  <2> SUFFICES ASSUME filter.from # None
               PROVE  Text(row.at) >= Text(filter.from) <=> row.at >= filter.from
    OBVIOUS
  <2>1. Text(row.at) < Text(filter.from) <=> row.at < filter.from
    BY <1>1, TextAgrees
  <2>2. Text(row.at) \in Nat /\ Text(filter.from) \in Nat
    BY <1>1, TextNat
  <2>3. row.at \in Nat /\ filter.from \in Nat
    BY <1>1, DirectoryAssumption
  <2> QED BY <2>1, <2>2, <2>3
<1>3. filter.to # None => (Text(row.at) < Text(filter.to) <=> row.at < filter.to)
  BY <1>1, TextAgrees
<1> QED BY <1>2, <1>3 DEF Matches, Documented

\* What a listing has shown has passed its filter.
RowsMatch ==
  view.started => \A i \in history.rows : Matches(view.filter, Row(i))

LEMMA RowsMatchLoad ==
  ASSUME IInv, RowsMatch,
         NEW filter \in Filters, NEW n \in Limits, NEW cursor \in Cursors \union {None},
         cursor # None => view.started /\ filter = view.filter,
         NEW unloaded, unloaded \in {view, [view EXCEPT !.started = FALSE, !.limit = n]},
         Load(filter, n, cursor, unloaded)
  PROVE  RowsMatch'
<1>1. table' = table
  BY DEF Load
<1>2. listing \in Listings /\ view \in [started : BOOLEAN, filter : Filters,
                                        limit : Limits, cursor : Cursors \union {None}]
      /\ history \in [rows : SUBSET Ids, stable : SUBSET Ids, repeated : BOOLEAN]
  BY DEF IInv, TypeOK
<1>3. ASSUME NEW page, Refuse(page, unloaded)
      PROVE  RowsMatch'
  BY <1>1, <1>2, <1>3 DEF Refuse, RowsMatch, Row
<1>4. ASSUME NEW now \in Recorded, NEW page,
             page = Page(listing, {Row(i) : i \in now}, filter, cursor, n),
             Accept(page, filter, n, cursor)
      PROVE  RowsMatch'
  <2> DEFINE R == {Row(i) : i \in now}
  <2>1. now \in SUBSET Ids
    BY RecordedTyped DEF IInv
  <2>2. Keyed(R)
    BY <2>1, TableKeyed DEF IInv
  <2>3. page.rows \subseteq Found(listing, R, filter, cursor)
    <3> HIDE DEF R
    <3>1. LET q == Page(listing, R, filter, cursor, n)
          IN  q.rows \subseteq Found(listing, R, filter, cursor)
      BY <1>2, <2>2, PageFacts
    <3> QED BY <1>4, <3>1 DEF R
  <2>4. \A i \in {r.id : r \in page.rows} : Matches(filter, Row(i))
    <3>1. ASSUME NEW r \in page.rows PROVE Matches(filter, Row(r.id))
      <4>1. r \in R /\ Matches(filter, r)
        BY <2>3 DEF Found
      <4>2. r = Row(r.id)
        BY <4>1 DEF Row
      <4> QED BY <4>1, <4>2
    <3> QED BY <3>1
  <2>5. view'.filter = filter
    BY <1>4 DEF Accept
  <2>6. history'.rows \subseteq {r.id : r \in page.rows} \union
          (IF cursor = None THEN {} ELSE history.rows)
    BY <1>2, <1>4 DEF Accept
  <2> QED BY <1>1, <2>4, <2>5, <2>6 DEF RowsMatch, Row
<1> DEFINE Answered ==
             \E now \in Recorded :
               LET page == Page(listing, {Row(i) : i \in now}, filter, cursor, n)
               IN  IF Usable(listing, page, n) THEN Accept(page, filter, n, cursor)
                                               ELSE Refuse(page.rows, unloaded)
<1>5. CASE Answered
  BY <1>3, <1>4, <1>5, Zenon
<1>6. Answered \/ Refuse({}, unloaded)
  BY Zenon DEF Load
<1> QED BY <1>3, <1>5, <1>6

LEMMA RowsMatchStep ==
  ASSUME IInv, RowsMatch, [Next]_vars
  PROVE  RowsMatch'
<1>1. ASSUME table' = table,
             ~view'.started \/ (view' = view /\ history'.rows = history.rows)
      PROVE  RowsMatch'
  BY <1>1 DEF RowsMatch, Row
<1>2. history \in [rows : SUBSET Ids, stable : SUBSET Ids, repeated : BOOLEAN]
  BY DEF IInv, TypeOK
<1>3. CASE UNCHANGED vars
  BY <1>1, <1>3 DEF vars, server, shown
<1>4. CASE Session
  <2>0. ~NoView.started /\ table' = table
    BY <1>4 DEF NoView, Session, Login, Verify, Reject, RevokeRejected, Logout, Exit,
                ChangePassword, server
  <2>1. ASSUME NEW step, Clear(step) PROVE ~view'.started
    BY <2>1 DEF Clear, NoView
  <2>2. ASSUME NEW t \in Tokens, Login(t) PROVE view' = view /\ history' = history
    BY <2>2 DEF Login, shown
  <2>3. CASE Verify
    BY <1>1, <2>0, <2>3 DEF Verify
  <2>4. CASE Reject \/ RevokeRejected
    BY <1>1, <2>0, <2>4 DEF Reject, RevokeRejected, shown
  <2>5. CASE Logout \/ ChangePassword
    BY <1>1, <2>0, <2>1, <2>5 DEF Logout, ChangePassword
  <2>6. CASE Exit
    BY <1>1, <2>0, <2>1, <2>6 DEF Exit, LogoutOnExit
  <2> QED BY <1>1, <1>4, <2>0, <2>2, <2>3, <2>4, <2>5, <2>6 DEF Session
<1>5. CASE UserChange
  <2>1. ASSUME NEW i \in Ids, CreateUser(i) \/ SelectUser(i)
        PROVE  RowsMatch'
    BY <1>1, <2>1 DEF CreateUser, SelectUser, server, shown
  <2>2. CASE KeepUser
    BY <1>1, <2>2 DEF KeepUser, server, shown
  <2>3. CASE DeleteUser
    <3>1. table' = table /\ ~NoView.started
      BY <2>3 DEF DeleteUser, NoView
    <3>2. \/ view' = NoView
          \/ view' = view
             /\ history' = [history EXCEPT !.stable = history.stable \ {console.target}]
      BY <2>3 DEF DeleteUser
    <3> QED BY <1>1, <1>2, <3>1, <3>2
  <2> QED BY <1>5, <2>1, <2>2, <2>3 DEF UserChange
<1>6. CASE Environment
  BY <1>1, <1>2, <1>6
  DEF Environment, Appear, Disappear, Expire, SetRole, Interrupt, Kill, NoView, server, shown
<1>7. CASE Listing
  <2>1. /\ view.started => view.filter \in Filters
        /\ view.limit \in Limits /\ view.filter \in Filters
        /\ view.cursor \in Cursors \union {None}
    BY DEF IInv, TypeOK
  <2>2. NoFilter \in Filters /\ Searches \subseteq Filters
    BY ConsoleAssumption DEF NoFilter, Filters
  <2>3. ASSUME NEW n \in Limits, StartUserList(n) PROVE RowsMatch'
    BY <2>2, <2>3, RowsMatchLoad DEF StartUserList
  <2>4. ASSUME NEW f \in Searches, NEW n \in Limits,
               StartAuditList(f, n) \/ StartMediaPage(f, n)
        PROVE  RowsMatch'
    BY <2>2, <2>4, RowsMatchLoad DEF StartAuditList, StartMediaPage
  <2>5. CASE NextPage \/ FirstPage
    BY <2>1, <2>5, RowsMatchLoad DEF NextPage, FirstPage
  <2> QED BY <1>7, <2>3, <2>4, <2>5 DEF Listing
<1> QED BY <1>3, <1>4, <1>5, <1>6, <1>7 DEF Next

\* The finding on time filters is no larger than a second: whatever is listed is
\* as documented, or its time is in the second of one of the filter's times.
THEOREM FilterSafety == Spec => []FiltersOffByFraction
<1>1. Init => IInv /\ RowsMatch
  BY InitHolds DEF Init, NoView, RowsMatch
<1>2. IInv /\ RowsMatch /\ [Next]_vars => (IInv /\ RowsMatch)'
  BY IInvStep, RowsMatchStep
<1>3. IInv /\ RowsMatch => FiltersOffByFraction
  <2>1. ASSUME IInv, RowsMatch, view.started, NEW i \in history.rows,
               ~\E t \in {view.filter.from, view.filter.to} \ {None} :
                  t # table[i].at /\ Second(t) = Second(table[i].at)
        PROVE  Documented(view.filter, Row(i))
    <3>1. view.filter \in Filters /\ i \in Ids
      BY <2>1 DEF IInv, TypeOK
    <3>2. Row(i) \in Rows /\ Row(i).at = table[i].at
      BY <2>1, <3>1, ConsoleAssumption DEF IInv, TypeOK, Row, Rows
    <3>3. Matches(view.filter, Row(i))
      BY <2>1 DEF RowsMatch
    <3> QED BY <2>1, <3>1, <3>2, <3>3, FilterAgreement
  <2> QED BY <2>1 DEF FiltersOffByFraction
<1> QED BY <1>1, <1>2, <1>3, PTL DEF Spec

-----------------------------------------------------------------------------
\* What the page before it left to find is what a page and the cursor it
\* answers with divide between them: nothing is lost at the cut, nothing comes
\* twice, and a page before the last one is full.
THEOREM PagesPartition ==
  ASSUME NEW order \in Listings, NEW R, Keyed(R), NEW filter \in Filters,
         NEW cursor \in Cursors \union {None}, NEW n \in Limits
  PROVE  LET page  == Page(order, R, filter, cursor, n)
             found == Found(order, R, filter, cursor)
             rest  == Found(order, R, filter, page.cursor)
         IN  IF page.cursor = None
               THEN page.rows = found
               ELSE /\ page.rows \union rest = found
                    /\ page.rows \intersect rest = {}
                    /\ Cardinality(page.rows) = n
<1> DEFINE page  == Page(order, R, filter, cursor, n)
           found == Found(order, R, filter, cursor)
           rest  == Found(order, R, filter, page.cursor)
<1>1. /\ page.rows \subseteq found
      /\ page.cursor = None => page.rows = found
      /\ page.cursor # None =>
           /\ page.cursor \in Cursors
           /\ Cardinality(page.rows) = n
           /\ \A r \in found : r \notin page.rows => After(order, page.cursor, r)
           /\ \A r \in page.rows : ~After(order, page.cursor, r)
           /\ \E last \in page.rows :
                page.cursor.at = last.at /\ page.cursor.id = last.id
  <2> HIDE DEF page, found
  <2>1. page = Page(order, R, filter, cursor, n) /\ found = Found(order, R, filter, cursor)
    BY DEF page, found
  <2> QED BY <2>1, PageFacts
<1> HIDE DEF page
<1>2. ASSUME page.cursor # None, NEW r \in rest
      PROVE  r \in found
  <2>1. r \in R /\ Matches(filter, r) /\ After(order, page.cursor, r)
    BY <1>2 DEF Found
  <2>2. PICK last \in page.rows : page.cursor.at = last.at /\ page.cursor.id = last.id
    BY <1>1, <1>2
  <2>3. cursor # None => After(order, cursor, last)
    BY <1>1, <2>2 DEF Found
  <2>4. last \in R
    BY <1>1, <2>2 DEF Found
  <2>5. ASSUME cursor # None PROVE After(order, cursor, r)
    <3>1. Precedes(order, cursor, last) /\ Precedes(order, last, r)
      BY <2>1, <2>2, <2>3, <2>5 DEF After, Precedes
    <3>2. /\ cursor.at \in Times /\ cursor.id \in Ids
          /\ last.at \in Times /\ last.id \in Ids
          /\ r.at \in Times /\ r.id \in Ids
      BY <2>1, <2>4, <2>5 DEF Keyed, Rows, Cursors
    <3> QED BY <3>1, <3>2, PositionsOrdered DEF After
  <2> QED BY <2>1, <2>5 DEF Found
<1>3. ASSUME page.cursor # None
      PROVE  /\ page.rows \union rest = found
             /\ page.rows \intersect rest = {}
  <2>1. \A r \in found : r \in page.rows \/ r \in rest
    BY <1>1, <1>3 DEF Found
  <2>2. \A r \in rest : r \notin page.rows
    BY <1>1, <1>3 DEF Found
  <2> QED BY <1>1, <1>2, <1>3, <2>1, <2>2
<1> QED BY <1>1, <1>3 DEF page
=============================================================================
