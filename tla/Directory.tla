----------------------------- MODULE Directory -----------------------------
(***************************************************************************)
(* Pages of the three directories: users (oldest first), audit events and  *)
(* discoverable media (newest first).  A page is what the application      *)
(* service answers, and a cursor the position its last row gives.          *)
(*                                                                         *)
(* SQLite compares times as the text they are stored as (time.RFC3339Nano),*)
(* which drops trailing zeros of the fraction.  A time is a number here    *)
(* whose last two digits, in a small base, are the fraction of its second. *)
(*                                                                         *)
(* A filter's kind stands for what a row must equal or contain: actor,     *)
(* type and outcome of an event, type, title and author of an item.        *)
(***************************************************************************)
EXTENDS Naturals, FiniteSets

CONSTANTS
  Ids,     \* primary keys, random and hence in no relation to the times
  Times,
  Kinds,
  Limits,  \* page sizes
  Base,    \* the digits of a fraction are 0 .. Base - 1
  None

Listings == {"users", "audit", "media"}
Rows     == [id : Ids, at : Times, kind : Kinds]
Filters  == [from : Times \union {None}, to : Times \union {None},
             kind : Kinds \union {None}]
NoFilter == [from |-> None, to |-> None, kind |-> None]
Cursors  == [at : Times, id : Ids, filter : Filters, limit : Limits \union {0}]

ASSUME DirectoryAssumption ==
  /\ Ids \subseteq Nat /\ IsFiniteSet(Ids)
  /\ Times \subseteq Nat
  /\ Limits \subseteq Nat \ {0}
  /\ Base \in Nat \ {0}
  /\ None \notin Times /\ None \notin Kinds /\ None \notin Cursors

-----------------------------------------------------------------------------
(* Times and their text: 'Z' comes after '.' and after every digit.  A     *)
(* digit that is not written, because it and all after it are zero, sorts  *)
(* like the 'Z' that is in its place.                                      *)

Second(t) == t \div (Base * Base)
Tenths(t) == (t \div Base) % Base
Rest(t)   == t % Base

Text(t) ==
  LET unwritten(zero, digit) == IF zero THEN Base ELSE digit
      places == <<Second(t), unwritten(Tenths(t) = 0 /\ Rest(t) = 0, Tenths(t)),
                  unwritten(Rest(t) = 0, Rest(t))>>
  IN  (places[1] * (Base + 1) + places[2]) * (Base + 1) + places[3]

\* The order of pairs <<time, id>>.
Less(x, y) == x[1] < y[1] \/ (x[1] = y[1] /\ x[2] < y[2])

\* ORDER BY of the three queries, on the stored text.
Precedes(listing, a, b) ==
  LET x == <<Text(a.at), a.id>>
      y == <<Text(b.at), b.id>>
  IN  IF listing = "users" THEN Less(x, y) ELSE Less(y, x)

\* Fault: the cursor is compared by its time alone.
AfterTime(listing, cursor, row) ==
  IF listing = "users" THEN Text(row.at) > Text(cursor.at)
                       ELSE Text(row.at) < Text(cursor.at)

\* WHERE of the cursor.
After(listing, cursor, row) == Precedes(listing, cursor, row)

\* WHERE of the filter.
Matches(filter, row) ==
  /\ filter.from # None => Text(row.at) >= Text(filter.from)
  /\ filter.to   # None => Text(row.at) <  Text(filter.to)
  /\ filter.kind # None => row.kind = filter.kind

\* The order of filter times that the service accepts.
ValidFilter(filter) ==
  filter.from # None /\ filter.to # None => filter.from < filter.to

\* What docs/audit.md says of a filter: from is inclusive, to exclusive.
Documented(filter, row) ==
  /\ filter.from # None => row.at >= filter.from
  /\ filter.to   # None => row.at <  filter.to
  /\ filter.kind # None => row.kind = filter.kind

-----------------------------------------------------------------------------
(* The services.                                                           *)

\* A users cursor is a position alone, the others carry a digest of the filter
\* and the limit they were made with.
UserCursor(row) ==
  [at |-> row.at, id |-> row.id, filter |-> NoFilter, limit |-> 0]

BoundCursor(row, filter, limit) ==
  [at |-> row.at, id |-> row.id, filter |-> filter, limit |-> limit]

Fits(listing, cursor, filter, limit) ==
  listing # "users" /\ cursor # None => cursor.filter = filter /\ cursor.limit = limit

Found(listing, rows, filter, cursor) ==
  {r \in rows : Matches(filter, r) /\ (cursor # None => After(listing, cursor, r))}

\* The first n of the rows found.
First(listing, found, n) ==
  {r \in found : Cardinality({q \in found : Precedes(listing, q, r)}) < n}

\* The query asks for one row more than the page holds, to know whether
\* there is another page.
Page(listing, rows, filter, cursor, limit) ==
  LET found == First(listing, Found(listing, rows, filter, cursor), limit + 1)
      page  == First(listing, found, limit)
      last  == CHOOSE r \in page : \A q \in page \ {r} : Precedes(listing, q, r)
  IN  [rows   |-> page,
       cursor |-> IF found = page THEN None
                  ELSE IF listing = "users" THEN UserCursor(last)
                  ELSE BoundCursor(last, filter, limit)]

-----------------------------------------------------------------------------
(* The typed client.                                                       *)

\* Fault: rows of one time are taken to be out of order.
NewestFirstStrict(a, b) == a.at > b.at

NewestFirst(a, b) == Less(<<b.at, b.id>>, <<a.at, a.id>>)

\* The client takes a page of audit events or media only if its rows come in
\* the order of their times, and a cursor of media only after a full page.
Usable(listing, page, limit) ==
  listing = "users" \/
    /\ \A a, b \in page.rows : Precedes(listing, a, b) => NewestFirst(a, b)
    /\ listing = "media" /\ page.cursor # None => Cardinality(page.rows) = limit
=============================================================================
