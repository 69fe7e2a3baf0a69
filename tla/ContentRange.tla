---------------------------- MODULE ContentRange ----------------------------
(***************************************************************************)
(* HTTP byte ranges of managed content: what the server selects for a      *)
(* Range header (internal/api/content_range.go), what it answers, and what *)
(* the typed client asks for and accepts (internal/client/media_content.go)*)
(* Then the limit of an upload, at whose edges integers wrap as well.      *)
(*                                                                         *)
(* A header is a record of its form and its numbers.  "malformed" stands   *)
(* for whatever is not one byte range, several ranges included.            *)
(* Integers are the int64 of Go, whose largest value is MaxInt here.       *)
(***************************************************************************)
EXTENDS Integers

CONSTANT MaxInt  \* the largest integer of the machine

ASSUME MaxIntAssumption == MaxInt \in Nat \ {0}

\* Two's complement addition.
Wrap(n) == ((n + MaxInt + 1) % (2 * (MaxInt + 1))) - (MaxInt + 1)

\* Any number can be written in a header; one above MaxInt does not parse.
Numbers == 0..(MaxInt + 1)
Parses(n) == n <= MaxInt

Headers ==
  [form : {"absent", "malformed"}]
    \union [form : {"bounded"}, first : Numbers, last : Numbers]
    \union [form : {"open"}, first : Numbers]
    \union [form : {"suffix"}, length : Numbers]

-----------------------------------------------------------------------------
(* The server.                                                             *)

Unsatisfiable == [status |-> 416]
Complete(size) == [status |-> 200, start |-> 0, length |-> size]
Partial(start, length) ==
  [status |-> 206, start |-> start, length |-> length]

SuffixLength(length, size) == IF length > size THEN size ELSE length

LastPosition(last, size) == IF last >= size THEN size - 1 ELSE last

\* Fault: the last position is not clamped before the length is computed.
ParseContentRangeUnclamped(header, size) ==
  CASE header.form = "absent" -> Complete(size)
    [] header.form = "bounded" /\ Parses(header.first) /\ header.first < size
         /\ Parses(header.last) /\ header.first <= header.last ->
         Partial(header.first, Wrap(header.last - header.first + 1))
    [] OTHER -> Unsatisfiable

ParseContentRange(header, size) ==
  CASE header.form = "absent" -> Complete(size)
    [] header.form = "suffix" /\ Parses(header.length) /\ header.length > 0 ->
         LET length == SuffixLength(header.length, size)
         IN  Partial(size - length, length)
    [] header.form = "open" /\ Parses(header.first) /\ header.first < size ->
         Partial(header.first, size - header.first)
    [] header.form = "bounded" /\ Parses(header.first) /\ header.first < size
         /\ Parses(header.last) /\ header.first <= header.last ->
         Partial(header.first,
                 Wrap(LastPosition(header.last, size) - header.first + 1))
    [] OTHER -> Unsatisfiable

\* The interval of the Content-Range header of a partial answer.
ReturnedRange(answer, size) ==
  [start |-> answer.start,
   end   |-> Wrap(Wrap(answer.start + answer.length) - 1),
   total |-> size]

-----------------------------------------------------------------------------
(* The client.                                                             *)

\* The constructors refuse any other range, and have no larger numbers.
Requests ==
  {h \in Headers :
     CASE h.form = "absent"  -> TRUE
       [] h.form = "open"    -> h.first <= MaxInt
       [] h.form = "suffix"  -> h.length \in 1..MaxInt
       [] h.form = "bounded" -> h.first <= h.last /\ h.last <= MaxInt
       [] OTHER              -> FALSE}

\* parseReturnedContentRange; the last sum is not reached if it would wrap.
WellFormed(returned, length) ==
  /\ returned.start \in 0..MaxInt
  /\ returned.end \in returned.start..MaxInt
  /\ returned.end < returned.total
  /\ Wrap(returned.end - returned.start + 1) = length

\* Fault: a suffix is not compared with the size of the content.
MatchesUnbounded(request, returned) ==
  CASE request.form = "bounded" ->
         /\ returned.start = request.first
         /\ returned.end = request.last
    [] request.form = "open" ->
         /\ returned.start = request.first
         /\ returned.end = returned.total - 1
    [] request.form = "suffix" ->
         /\ returned.end = returned.total - 1
         /\ returned.end - returned.start + 1 = request.length
    [] OTHER -> FALSE

Matches(request, returned) ==
  CASE request.form = "bounded" ->
         /\ returned.start = request.first
         /\ returned.end = LastPosition(request.last, returned.total)
    [] request.form = "open" ->
         /\ returned.start = request.first
         /\ returned.end = returned.total - 1
    [] request.form = "suffix" ->
         /\ returned.end = returned.total - 1
         /\ Wrap(returned.end - returned.start + 1)
              = SuffixLength(request.length, returned.total)
    [] OTHER -> FALSE

\* The client takes an answer for what it asked for, and then reads exactly
\* answer.length bytes of the body.
Accepts(request, answer, size) ==
  LET returned == ReturnedRange(answer, size)
  IN  CASE answer.status = 200 ->
             request.form = "absent" /\ answer.length > 0
        [] answer.status = 206 ->
             /\ request.form # "absent"
             /\ answer.length > 0
             /\ WellFormed(returned, answer.length)
             /\ Matches(request, returned)
        [] OTHER -> FALSE

-----------------------------------------------------------------------------
(* Reference: the positions of a representation of so many bytes that      *)
(* RFC 9110 (14.1.2) lets a range select.                                  *)

Positions(size) == 0..(size - 1)

Selected(header, size) ==
  CASE header.form = "absent"  -> Positions(size)
    [] header.form = "bounded" ->
         {i \in Positions(size) : header.first <= i /\ i <= header.last}
    [] header.form = "open"    -> {i \in Positions(size) : header.first <= i}
    [] header.form = "suffix"  -> {i \in Positions(size) : i >= size - header.length}
    [] OTHER -> {}

Sent(answer) ==
  IF answer.status = 416 THEN {}
  ELSE answer.start..(answer.start + answer.length - 1)

-----------------------------------------------------------------------------
(* The limit of an upload: size bytes of content in a multipart body with  *)
(* framing bytes around them, 0 standing for a refusal.                    *)

\* http.MaxBytesReader takes a negative limit for none at all.
BodyLimit(maximum, overhead) ==
  LET limit == Wrap(maximum + overhead) IN IF limit < 0 THEN 0 ELSE limit

\* copyBounded reads one byte more than the limit to see that there is one.
CopyBounded(size, maximum) ==
  LET bound   == Wrap(maximum + 1)
      written == IF bound < 0 THEN 0 ELSE IF size > bound THEN bound ELSE size
  IN  IF written > maximum THEN 0 ELSE written

\* What is stored, if anything; nothing is stored of an empty file.
UploadedSize(size, framing, maximum, overhead) ==
  IF size + framing > BodyLimit(maximum, overhead) THEN 0
  ELSE CopyBounded(size, maximum)
=============================================================================
