------------------------- MODULE MediaAccessProofs -------------------------
(***************************************************************************)
(* Grants, access events and ranges, for any number of users, media,       *)
(* sessions and requests, contents of any size and any largest integer.    *)
(*                                                                         *)
(* Ids are generated once, so an item that a request has found is deleted  *)
(* or still has the owner it was found with.                               *)
(***************************************************************************)
EXTENDS MediaAccess, TLAPS

-----------------------------------------------------------------------------
(* Ranges, for every header, every size of a content and every largest     *)
(* integer of the machine: all 64-bit boundaries are among them.           *)

LEMMA ModSmall ==
  ASSUME NEW k \in Nat \ {0}, NEW a \in 0..(k - 1)
  PROVE  a % k = a
BY Z3

\* What is in the range of the machine does not wrap.
LEMMA WrapKeeps ==
  ASSUME NEW n \in (-(MaxInt + 1))..MaxInt
  PROVE  Wrap(n) = n
<1> DEFINE k == 2 * (MaxInt + 1)
           a == n + MaxInt + 1
<1>1. k \in Nat \ {0} /\ a \in 0..(k - 1)
  BY MaxIntAssumption
<1>2. a % k = a
  BY <1>1, ModSmall
<1> QED BY <1>2, MaxIntAssumption DEF Wrap

LEMMA ModOnce ==
  ASSUME NEW k \in Nat \ {0}, NEW a \in 0..(k - 1)
  PROVE  (k + a) % k = a
BY Z3

\* A sum of two numbers of the machine wraps at most once, to a negative one.
LEMMA SumWraps ==
  ASSUME NEW n \in (MaxInt + 1)..(2 * MaxInt)
  PROVE  Wrap(n) \in Int /\ Wrap(n) < 0
<1> DEFINE k == 2 * (MaxInt + 1)
           a == n - (MaxInt + 1)
<1>1. /\ k \in Nat \ {0} /\ a \in 0..(k - 1)
      /\ n + MaxInt + 1 = k + a /\ a - (MaxInt + 1) < 0
  BY MaxIntAssumption
<1>2. (k + a) % k = a
  BY <1>1, ModOnce
<1>3. Wrap(n) = a - (MaxInt + 1)
  BY <1>1, <1>2 DEF Wrap
<1> QED BY <1>1, <1>3, MaxIntAssumption

-----------------------------------------------------------------------------
(* The limit of an upload.                                                 *)

\* An upload is stored exactly if its content is not empty and within the
\* limit, as long as the multipart framing is within its allowance; of what
\* is too large nothing is kept (copyBounded, processUpload).  With a limit
\* whose sum with the allowance is not a number of the machine nothing can be
\* uploaded at all.
THEOREM UploadLimitIsExact ==
  ASSUME NEW maximum \in 1..MaxInt, NEW overhead \in 1..MaxInt,
         NEW framing \in 1..overhead, NEW size \in Nat
  PROVE  UploadedSize(size, framing, maximum, overhead) =
           IF maximum + overhead <= MaxInt /\ size <= maximum THEN size ELSE 0
<1>1. CASE maximum + overhead > MaxInt
  <2>1. Wrap(maximum + overhead) < 0
    BY <1>1, SumWraps, MaxIntAssumption
  <2>2. BodyLimit(maximum, overhead) = 0
    BY <2>1 DEF BodyLimit
  <2> QED BY <1>1, <2>2, MaxIntAssumption DEF UploadedSize
<1>2. CASE maximum + overhead <= MaxInt
  <2>1. /\ Wrap(maximum + overhead) = maximum + overhead
        /\ Wrap(maximum + 1) = maximum + 1
    BY <1>2, WrapKeeps, MaxIntAssumption
  <2>2. BodyLimit(maximum, overhead) = maximum + overhead
    BY <2>1 DEF BodyLimit
  <2>3. CopyBounded(size, maximum) = IF size <= maximum THEN size ELSE 0
    BY <2>1 DEF CopyBounded
  <2> QED BY <1>2, <2>2, <2>3 DEF UploadedSize
<1> QED BY <1>1, <1>2, MaxIntAssumption

-----------------------------------------------------------------------------
(* The server.                                                             *)

\* A bounded range, clamped to the content.
LEMMA BoundedRange ==
  ASSUME NEW size \in 1..MaxInt, NEW header \in Headers, header.form = "bounded"
  PROVE  LET a == header.first  b == header.last
         IN  /\ a \in Numbers /\ b \in Numbers
             /\ DOMAIN header = {"form", "first", "last"}
             /\ IF a < size /\ b <= MaxInt /\ a <= b
                  THEN ParseContentRange(header, size)
                         = Partial(a, LastPosition(b, size) - a + 1)
                  ELSE ParseContentRange(header, size) = Unsatisfiable
<1> DEFINE a == header.first
           b == header.last
<1>1. a \in Numbers /\ b \in Numbers /\ DOMAIN header = {"form", "first", "last"}
  BY DEF Headers
<1>2. a \in Nat /\ b \in Nat
  BY <1>1, MaxIntAssumption DEF Numbers
<1>3. a < size /\ a <= b =>
        LastPosition(b, size) - a + 1 \in (-(MaxInt + 1))..MaxInt
  BY <1>2, MaxIntAssumption DEF LastPosition
<1>4. a < size /\ a <= b =>
        Wrap(LastPosition(b, size) - a + 1) = LastPosition(b, size) - a + 1
  BY <1>3, WrapKeeps
<1>5. ParseContentRange(header, size) =
        IF Parses(a) /\ a < size /\ Parses(b) /\ a <= b
          THEN Partial(a, Wrap(LastPosition(b, size) - a + 1)) ELSE Unsatisfiable
  BY Zenon DEF ParseContentRange
<1>6. a < size => Parses(a)
  BY <1>2, MaxIntAssumption DEF Parses
<1> QED BY <1>1, <1>4, <1>5, <1>6 DEF Parses

LEMMA OpenRange ==
  ASSUME NEW size \in 1..MaxInt, NEW header \in Headers, header.form = "open"
  PROVE  LET a == header.first
         IN  /\ a \in Numbers /\ DOMAIN header = {"form", "first"}
             /\ IF a < size
                  THEN ParseContentRange(header, size) = Partial(a, size - a)
                  ELSE ParseContentRange(header, size) = Unsatisfiable
<1> DEFINE a == header.first
<1>1. a \in Numbers /\ DOMAIN header = {"form", "first"}
  BY DEF Headers
<1>2. ParseContentRange(header, size) =
        IF Parses(a) /\ a < size THEN Partial(a, size - a) ELSE Unsatisfiable
  BY Zenon DEF ParseContentRange
<1>3. a < size => Parses(a)
  BY <1>1, MaxIntAssumption DEF Parses, Numbers
<1> QED BY <1>1, <1>2, <1>3

LEMMA SuffixRange ==
  ASSUME NEW size \in 1..MaxInt, NEW header \in Headers, header.form = "suffix"
  PROVE  LET n == header.length
         IN  /\ n \in Numbers /\ DOMAIN header = {"form", "length"}
             /\ IF n > 0 /\ n <= MaxInt
                  THEN ParseContentRange(header, size)
                         = Partial(size - SuffixLength(n, size), SuffixLength(n, size))
                  ELSE ParseContentRange(header, size) = Unsatisfiable
<1>1. header.length \in Numbers /\ DOMAIN header = {"form", "length"}
  BY DEF Headers
<1>2. ParseContentRange(header, size) =
        IF Parses(header.length) /\ header.length > 0
          THEN Partial(size - SuffixLength(header.length, size),
                       SuffixLength(header.length, size))
          ELSE Unsatisfiable
  BY Zenon DEF ParseContentRange
<1> QED BY <1>1, <1>2 DEF Parses

LEMMA OtherRange ==
  ASSUME NEW size \in 1..MaxInt, NEW header \in Headers,
         header.form \in {"absent", "malformed"}
  PROVE  ParseContentRange(header, size) =
           IF header.form = "absent" THEN Complete(size) ELSE Unsatisfiable
BY Zenon DEF ParseContentRange

\* Every header has one of these forms.
LEMMA HeaderForms ==
  ASSUME NEW header \in Headers
  PROVE  header.form \in {"absent", "malformed", "bounded", "open", "suffix"}
BY DEF Headers

\* The bytes the server sends are those a range selects, unless it could not
\* represent one of its numbers.
THEOREM RangeIsExact ==
  ASSUME NEW size \in 1..MaxInt, NEW header \in Headers
  PROVE  LET answer == ParseContentRange(header, size)
         IN  IF answer = Unsatisfiable
               THEN \/ Selected(header, size) = {}
                    \/ \E f \in DOMAIN header : f # "form" /\ ~Parses(header[f])
               ELSE /\ answer.length > 0
                    /\ Sent(answer) = Selected(header, size)
<1> DEFINE answer == ParseContentRange(header, size)
           Exact == IF answer = Unsatisfiable
               THEN \/ Selected(header, size) = {}
                    \/ \E f \in DOMAIN header : f # "form" /\ ~Parses(header[f])
               ELSE /\ answer.length > 0
                    /\ Sent(answer) = Selected(header, size)
<1>u. \A start, length : /\ Partial(start, length) # Unsatisfiable
                         /\ Partial(start, length).length = length
                         /\ Sent(Partial(start, length)) = start..(start + length - 1)
  BY DEF Partial, Unsatisfiable, Sent
<1>1. CASE header.form = "bounded"
  <2> DEFINE a == header.first
             b == header.last
  <2>1. a \in Nat /\ b \in Nat /\ DOMAIN header = {"form", "first", "last"}
    BY <1>1, BoundedRange, MaxIntAssumption DEF Numbers
  <2>2. Selected(header, size) = {i \in Positions(size) : a <= i /\ i <= b}
    BY <1>1 DEF Selected
  <2>3. CASE a < size /\ b <= MaxInt /\ a <= b
    <3>1. answer = Partial(a, LastPosition(b, size) - a + 1)
      BY <1>1, <2>3, BoundedRange
    <3>2. a..(a + (LastPosition(b, size) - a + 1) - 1) = Selected(header, size)
      BY <2>1, <2>2, <2>3 DEF Positions, LastPosition
    <3>3. LastPosition(b, size) - a + 1 > 0
      BY <2>1, <2>3 DEF LastPosition
    <3> QED BY <1>u, <3>1, <3>2, <3>3
  <2>4. CASE ~(a < size /\ b <= MaxInt /\ a <= b)
    <3>1. answer = Unsatisfiable
      BY <1>1, <2>4, BoundedRange
    <3>2. Selected(header, size) = {} \/ ~Parses(header["last"])
      BY <2>1, <2>2, <2>4 DEF Positions, Parses
    <3> QED BY <2>1, <3>1, <3>2
  <2> QED BY <2>3, <2>4
<1>2. CASE header.form = "open"
  <2> DEFINE a == header.first
  <2>1. a \in Nat
    BY <1>2, OpenRange, MaxIntAssumption DEF Numbers
  <2>2. Selected(header, size) = {i \in Positions(size) : a <= i}
    BY <1>2 DEF Selected
  <2>3. CASE a < size
    <3>1. answer = Partial(a, size - a)
      BY <1>2, <2>3, OpenRange
    <3>2. a..(a + (size - a) - 1) = Selected(header, size)
      BY <2>1, <2>2, <2>3 DEF Positions
    <3> QED BY <1>u, <2>1, <2>3, <3>1, <3>2
  <2>4. CASE ~(a < size)
    <3>1. answer = Unsatisfiable
      BY <1>2, <2>4, OpenRange
    <3>2. Selected(header, size) = {}
      BY <2>1, <2>2, <2>4 DEF Positions
    <3> QED BY <3>1, <3>2
  <2> QED BY <2>3, <2>4
<1>3. CASE header.form = "suffix"
  <2> DEFINE n == header.length
  <2>1. n \in Nat /\ DOMAIN header = {"form", "length"}
    BY <1>3, SuffixRange, MaxIntAssumption DEF Numbers
  <2>2. Selected(header, size) = {i \in Positions(size) : i >= size - n}
    BY <1>3 DEF Selected
  <2>3. CASE n > 0 /\ n <= MaxInt
    <3> DEFINE k == SuffixLength(n, size)
    <3>1. answer = Partial(size - k, k)
      BY <1>3, <2>3, SuffixRange
    <3>2. k \in 1..size
      BY <2>1, <2>3 DEF SuffixLength
    <3>3. (size - k)..((size - k) + k - 1) = Selected(header, size)
      BY <2>1, <2>2, <2>3 DEF Positions, SuffixLength
    <3> QED BY <1>u, <3>1, <3>2, <3>3
  <2>4. CASE ~(n > 0 /\ n <= MaxInt)
    <3>1. answer = Unsatisfiable
      BY <1>3, <2>4, SuffixRange
    <3>2. Selected(header, size) = {} \/ ~Parses(header["length"])
      BY <2>1, <2>2, <2>4 DEF Positions, Parses
    <3> QED BY <2>1, <3>1, <3>2
  <2> QED BY <2>3, <2>4
<1>4. CASE header.form = "absent"
  <2>1. answer = Complete(size) /\ Selected(header, size) = 0..(size - 1)
    BY <1>4, OtherRange DEF Selected, Positions
  <2> QED BY <2>1 DEF Complete, Unsatisfiable, Sent
<1>5. CASE header.form = "malformed"
  BY <1>5, OtherRange DEF Selected
<1> QED BY <1>1, <1>2, <1>3, <1>4, <1>5, HeaderForms

-----------------------------------------------------------------------------
(* The client.                                                             *)

\* An interval within the content goes through the Content-Range header and
\* the client's arithmetic as it is.
LEMMA IntervalArrives ==
  ASSUME NEW size \in 1..MaxInt, NEW start \in 0..(size - 1),
         NEW length \in 1..(size - start), NEW request \in Requests
  PROVE  Accepts(request, Partial(start, length), size)
           <=> /\ request.form # "absent"
               /\ Matches(request, [start |-> start, end |-> start + length - 1,
                                    total |-> size])
<1> DEFINE answer   == Partial(start, length)
           returned == [start |-> start, end |-> start + length - 1, total |-> size]
<1>1. Wrap(start + length) = start + length
  BY WrapKeeps, MaxIntAssumption
<1>2. Wrap(start + length - 1) = start + length - 1
  BY WrapKeeps, MaxIntAssumption
<1>3. Wrap((start + length - 1) - start + 1) = length
  <2>1. (start + length - 1) - start + 1 = length
    OBVIOUS
  <2> QED BY <2>1, WrapKeeps, MaxIntAssumption
<1>4. answer.status = 206 /\ answer.start = start /\ answer.length = length
  BY DEF Partial
<1>5. ReturnedRange(answer, size) = returned
  BY <1>1, <1>2, <1>4 DEF ReturnedRange
<1>6. WellFormed(returned, length)
  BY <1>3, MaxIntAssumption DEF WellFormed
<1>7. Accepts(request, answer, size)
        <=> /\ request.form # "absent" /\ length > 0
            /\ WellFormed(returned, length) /\ Matches(request, returned)
  <2> HIDE DEF answer, returned
  <2> QED BY <1>4, <1>5 DEF Accepts
<1> QED BY <1>6, <1>7

\* The client takes each answer it can get, unless nothing was selected.
THEOREM ClientAgrees ==
  ASSUME NEW size \in 1..MaxInt, NEW request \in Requests
  PROVE  Accepts(request, ParseContentRange(request, size), size)
           <=> Selected(request, size) # {}
<1> DEFINE answer == ParseContentRange(request, size)
<1>h. request \in Headers
  BY DEF Requests
<1>u. ~Accepts(request, Unsatisfiable, size)
  BY DEF Accepts, Unsatisfiable
<1>1. CASE request.form = "bounded"
  <2> DEFINE a == request.first
             b == request.last
  <2>1. a \in Nat /\ b \in Nat
    BY <1>h, <1>1, BoundedRange, MaxIntAssumption DEF Numbers
  <2>2. a <= b /\ b <= MaxInt
    BY <1>1 DEF Requests
  <2>3. Selected(request, size) = {i \in Positions(size) : a <= i /\ i <= b}
    BY <1>1 DEF Selected
  <2>4. CASE a < size
    <3> DEFINE k == LastPosition(b, size) - a + 1
    <3>1. answer = Partial(a, k)
      BY <1>h, <1>1, <2>2, <2>4, BoundedRange
    <3>2. a \in 0..(size - 1) /\ k \in 1..(size - a) /\ a + k - 1 = LastPosition(b, size)
      BY <2>1, <2>2, <2>4 DEF LastPosition
    <3>3. Matches(request, [start |-> a, end |-> a + k - 1, total |-> size])
      BY <1>1, <3>2 DEF Matches
    <3>4. a \in Selected(request, size)
      BY <2>1, <2>2, <2>3, <2>4 DEF Positions
    <3> HIDE DEF k
    <3> QED BY <1>1, <3>1, <3>2, <3>3, <3>4, IntervalArrives
  <2>5. CASE ~(a < size)
    <3>1. answer = Unsatisfiable
      BY <1>h, <1>1, <2>5, BoundedRange
    <3>2. Selected(request, size) = {}
      BY <2>1, <2>3, <2>5 DEF Positions
    <3> QED BY <1>u, <3>1, <3>2
  <2> QED BY <2>4, <2>5
<1>2. CASE request.form = "open"
  <2> DEFINE a == request.first
  <2>1. a \in Nat
    BY <1>h, <1>2, OpenRange, MaxIntAssumption DEF Numbers
  <2>2. Selected(request, size) = {i \in Positions(size) : a <= i}
    BY <1>2 DEF Selected
  <2>3. CASE a < size
    <3>1. answer = Partial(a, size - a)
      BY <1>h, <1>2, <2>3, OpenRange
    <3>2. a \in 0..(size - 1) /\ size - a \in 1..(size - a) /\ a + (size - a) - 1 = size - 1
      BY <2>1, <2>3
    <3>3. Matches(request, [start |-> a, end |-> a + (size - a) - 1, total |-> size])
      BY <1>2, <3>2 DEF Matches
    <3>4. a \in Selected(request, size)
      BY <2>1, <2>2, <2>3 DEF Positions
    <3> QED BY <1>2, <3>1, <3>2, <3>3, <3>4, IntervalArrives
  <2>4. CASE ~(a < size)
    <3>1. answer = Unsatisfiable
      BY <1>h, <1>2, <2>4, OpenRange
    <3>2. Selected(request, size) = {}
      BY <2>1, <2>2, <2>4 DEF Positions
    <3> QED BY <1>u, <3>1, <3>2
  <2> QED BY <2>3, <2>4
<1>3. CASE request.form = "suffix"
  <2> DEFINE n == request.length
             k == SuffixLength(n, size)
  <2>1. n \in 1..MaxInt
    BY <1>3 DEF Requests
  <2>2. answer = Partial(size - k, k)
    BY <1>h, <1>3, <2>1, SuffixRange, MaxIntAssumption
  <2>3. /\ size - k \in 0..(size - 1) /\ k \in 1..(size - (size - k))
        /\ (size - k) + k - 1 = size - 1
        /\ (size - 1) - (size - k) + 1 = k
    BY <2>1 DEF SuffixLength
  <2>4. Wrap((size - 1) - (size - k) + 1) = k
    BY <2>3, WrapKeeps, MaxIntAssumption
  <2>5. Matches(request, [start |-> size - k, end |-> (size - k) + k - 1, total |-> size])
    BY <1>3, <2>3, <2>4 DEF Matches
  <2>6. size - 1 \in Selected(request, size)
    BY <1>3, <2>1 DEF Selected, Positions
  <2> HIDE DEF k
  <2> QED BY <1>3, <2>2, <2>3, <2>5, <2>6, IntervalArrives
<1>4. CASE request.form = "absent"
  <2>1. answer = Complete(size)
    BY <1>h, <1>4, OtherRange
  <2>2. Accepts(request, Complete(size), size)
    BY <1>4 DEF Accepts, Complete
  <2>3. 0 \in Selected(request, size)
    BY <1>4 DEF Selected, Positions
  <2> QED BY <2>1, <2>2, <2>3
<1>5. request.form # "malformed"
  BY DEF Requests
<1> QED BY <1>h, <1>1, <1>2, <1>3, <1>4, <1>5, HeaderForms

-----------------------------------------------------------------------------
(* The invariant of MediaAccess.                                           *)

\* A request knows its item's owner.
Knows(w) == req[w].step \in {"found", "authorized", "checked"}

Creating(w) == At(w, "arrived") /\ req[w].op = "create"

\* What a request has at each of its steps.
RequestOK ==
  \A w \in Workers : req[w].step # "idle" =>
    /\ req[w].session \in Sessions
    /\ Item(w) \in Media
    /\ req[w].op \in Sharing => req[w].target \in Users
    /\ req[w].op = "create" => req[w].step \in {"arrived", "served"}
    /\ At(w, "checked") => req[w].op = "replace" /\ req[w].owner # req[w].target

\* An id is not given twice.
IdsOK ==
  \A w \in Workers :
    /\ Knows(w) => Item(w) \in ids /\ items[Item(w)] \in {req[w].owner, None}
    /\ Creating(w) =>
         /\ Item(w) \in ids /\ ~Exists(Item(w))
         /\ \A v \in Workers :
              Knows(v) \/ (Creating(v) /\ v # w) => Item(v) # Item(w)

\* An event stays known as long as its session can be used.
MarkersOK ==
  \A k \in Keys :
    events[k] > 0 => events[k] = 1 /\ (k \in markers \/ users[SessionOf[k[1]]] = "deleted")

\* Who is authorized had the permission.
HeldOK ==
  \A w \in Workers :
    req[w].step \in {"authorized", "checked", "opened", "streaming", "served"} => held[w]

IInv == /\ TypeOK /\ RequestOK /\ IdsOK /\ MarkersOK /\ HeldOK
        /\ GrantsReferToRows /\ OneEventPerSession /\ ContentIsAudited

-----------------------------------------------------------------------------
(* Types.                                                                  *)

\* What a refused or a failed reading has to store is one of the results.
LEMMA ResultsReported ==
  /\ Success \in Results /\ Denied \in Results
  /\ Failure("operation_failure") \in Results
  /\ \A reason \in FailureReasons : Failure(reason) \in Results
BY DEF Results, FailureReasons

LEMMA InitTyped == Init => TypeOK /\ RequestOK
BY AccessAssumption, ResultsReported
   DEF Init, TypeOK, RequestOK, Exists, Idle, Steps, Operations, Permissions

RequestRecord == [step : Steps, session : Sessions \union {None}, op : Operations,
            media : Media \union {None}, owner : Users \union {None},
            target : Users \union {None},
            mask : SUBSET Permissions, size : 0..MaxSize, result : Results]

\* The same of one request, and its size.
Consistent(r) ==
  /\ r.step \in {"opened", "streaming"} => r.size > 0
  /\ r.size > 0 => r.step \in {"opened", "streaming", "recording"}
  /\ r.step # "idle" =>
       /\ r.session \in Sessions
       /\ r.media \in Media
       /\ r.op \in Sharing => r.target \in Users
       /\ r.op = "create" => r.step \in {"arrived", "served"}
       /\ r.step = "checked" => r.op = "replace" /\ r.owner # r.target

\* The request of a step is the only one it changes.
Moves(w) == \E r \in RequestRecord : Consistent(r) /\ req' = [req EXCEPT ![w] = r]

\* A request that is not yet served creates nothing once it is beyond "arrived".
LEMMA RequestCreates ==
  ASSUME RequestOK, NEW w \in Workers, req[w].step # "idle"
  PROVE  req[w].op = "create" => req[w].step \in {"arrived", "served"}
BY DEF RequestOK

LEMMA MoveByStep ==
  ASSUME TypeOK, RequestOK, NEW w \in Workers, req[w].step # "idle",
         NEW s \in Steps \ {"idle", "opened"},
         s = "streaming" => req[w].step = "opened",
         req[w].step \in {"opened", "streaming", "recording"} => s = "streaming",
         req[w].op = "create" => s = "served",
         s = "checked" => req[w].op = "replace" /\ req[w].owner # req[w].target,
         GoTo(w, s)
  PROVE  Moves(w)
<1> DEFINE r == [req[w] EXCEPT !.step = s]
<1>1. req[w] \in RequestRecord
  BY DEF TypeOK, RequestRecord
<1>2. r \in RequestRecord
  BY <1>1 DEF RequestRecord
<1>3. req' = [req EXCEPT ![w] = r]
  BY <1>1 DEF GoTo, TypeOK
<1>4. Consistent(r)
  BY <1>1 DEF Consistent, RequestRecord, RequestOK, TypeOK, At, Item
<1> QED BY <1>2, <1>3, <1>4 DEF Moves

LEMMA MoveByReport ==
  ASSUME TypeOK, RequestOK, NEW w \in Workers, req[w].step # "idle",
         req[w].op # "create", NEW result \in Results, Report(w, result)
  PROVE  Moves(w)
<1> DEFINE r == [req[w] EXCEPT !.step = "recording", !.result = result]
<1>1. req[w] \in RequestRecord
  BY DEF TypeOK, RequestRecord
<1>2. r \in RequestRecord
  BY <1>1 DEF RequestRecord, Steps
<1>3. req' = [req EXCEPT ![w] = r]
  BY <1>1 DEF Report, TypeOK
<1>4. Consistent(r)
  BY <1>1 DEF Consistent, RequestRecord, RequestOK, At, Item
<1> QED BY <1>2, <1>3, <1>4 DEF Moves

LEMMA MoveToIdle ==
  ASSUME NEW w \in Workers, Answer(w)
  PROVE  Moves(w)
<1>1. Idle \in RequestRecord /\ Consistent(Idle)
  BY AccessAssumption, ResultsReported DEF Idle, RequestRecord, Consistent, Steps, Operations
<1> QED BY <1>1 DEF Moves, Answer

LEMMA RequestMoves ==
  ASSUME TypeOK, RequestOK, NEW w \in Workers, RequestStep(w)
  PROVE  Moves(w)
<1> USE DEF At, Serve
<1>m. \A s \in Steps \ {"idle", "opened"} :
        /\ req[w].step # "idle"
        /\ s = "streaming" => req[w].step = "opened"
        /\ req[w].step \in {"opened", "streaming", "recording"} => s = "streaming"
        /\ req[w].op = "create" => s = "served"
        /\ s = "checked" => req[w].op = "replace" /\ req[w].owner # req[w].target
        /\ GoTo(w, s)
        => Moves(w)
  BY MoveByStep
<1>s. Serve(w) <=> GoTo(w, "served")
  BY DEF GoTo
<1>t. {"arrived", "found", "authorized", "checked", "streaming", "served"}
         \subseteq Steps \ {"idle", "opened"}
  BY DEF Steps
<1>r. req[w] \in RequestRecord
  BY DEF TypeOK, RequestRecord
<1>a. Answer(w) => Moves(w)
  BY MoveToIdle
<1>p. \A result \in Results :
        req[w].step # "idle" /\ req[w].op # "create" /\ Report(w, result) => Moves(w)
  BY MoveByReport
<1>i. Idle \in RequestRecord /\ "arrived" \in Steps /\ {} \in SUBSET Permissions
  BY AccessAssumption, MaxIntAssumption, ResultsReported
     DEF Idle, RequestRecord, Steps, Operations
<1>1. CASE Arrive(w)
  <2>1. PICK s \in Sessions, op \in Operations \ {"create"}, m \in Media :
          \E target \in IF op \in Sharing THEN Users ELSE {None},
             mask \in IF op = "replace" THEN Masks ELSE {{}} :
            req' = [req EXCEPT ![w] =
                     [Idle EXCEPT !.step = "arrived", !.session = s, !.op = op,
                                  !.media = m, !.target = target, !.mask = mask]]
    BY <1>1, Zenon DEF Arrive
  <2>2. PICK target \in IF op \in Sharing THEN Users ELSE {None},
             mask \in IF op = "replace" THEN Masks ELSE {{}} :
            req' = [req EXCEPT ![w] =
                     [Idle EXCEPT !.step = "arrived", !.session = s, !.op = op,
                                  !.media = m, !.target = target, !.mask = mask]]
    BY <2>1
  <2>3. /\ target \in Users \union {None} /\ (op \in Sharing => target \in Users)
        /\ mask \in SUBSET Permissions
    BY AccessAssumption
  <2> DEFINE r == [Idle EXCEPT !.step = "arrived", !.session = s, !.op = op,
                               !.media = m, !.target = target, !.mask = mask]
  <2>4. r \in RequestRecord
    BY <1>i, <2>3 DEF RequestRecord
  <2>5. Consistent(r)
    BY <2>3 DEF Idle, Consistent
  <2> QED BY <2>2, <2>4, <2>5 DEF Moves
<1>2. CASE ArriveCreate(w)
  <2>1. PICK s \in Sessions, m \in Media \ ids :
          req' = [req EXCEPT ![w] = [Idle EXCEPT !.step = "arrived", !.op = "create",
                                                 !.session = s, !.media = m]]
    BY <1>2, Zenon DEF ArriveCreate
  <2> DEFINE r == [Idle EXCEPT !.step = "arrived", !.op = "create",
                               !.session = s, !.media = m]
  <2>2. r \in RequestRecord
    BY <1>i DEF RequestRecord, Operations
  <2>3. Consistent(r)
    BY DEF Idle, Consistent, Sharing
  <2> QED BY <2>1, <2>2, <2>3 DEF Moves
<1>3. CASE FindItem(w)
  <2>1. CASE Exists(Item(w))
    <3> DEFINE owner == items[Item(w)]
               step  == IF owner = Actor(w) THEN "authorized" ELSE "found"
               r     == [req[w] EXCEPT !.step = step, !.owner = owner]
    <3>1. req' = [req EXCEPT ![w] = r]
      BY <1>3, <2>1, <1>r DEF FindItem, TypeOK
    <3>2. owner \in Users \union {None}
      BY <1>3 DEF TypeOK, RequestOK, FindItem
    <3>3. r \in RequestRecord
      BY <1>r, <3>2 DEF RequestRecord, Steps
    <3>4. Consistent(r)
      BY <1>3, <1>r, <3>3 DEF Consistent, RequestRecord, RequestOK, TypeOK, Item, FindItem
    <3> QED BY <3>1, <3>3, <3>4 DEF Moves
  <2>2. CASE ~Exists(Item(w))
    BY <1>3, <2>2, <1>p, <1>a, ResultsReported DEF FindItem, Refuse
  <2> QED BY <2>1, <2>2
<1>4. CASE OpenContent(w)
  <2>1. ASSUME NEW reason \in FailureReasons, Report(w, Failure(reason)) PROVE Moves(w)
    BY <1>4, <2>1, <1>p, ResultsReported DEF OpenContent
  <2>2. ASSUME NEW size \in 1..MaxSize,
               req' = [req EXCEPT ![w].step = "opened", ![w].size = size]
        PROVE  Moves(w)
    <3> DEFINE r == [req[w] EXCEPT !.step = "opened", !.size = size]
    <3>1. req' = [req EXCEPT ![w] = r]
      BY <2>2, <1>r DEF TypeOK
    <3>2. r \in RequestRecord
      <4>1. size \in 0..MaxSize /\ "opened" \in Steps
        BY AccessAssumption, MaxIntAssumption DEF Steps
      <4> QED BY <4>1, <1>r DEF RequestRecord
    <3>3. Consistent(r)
      BY <1>4, <1>r, <3>2, AccessAssumption
         DEF Consistent, RequestRecord, RequestOK, OpenContent, Item
    <3> QED BY <3>1, <3>2, <3>3 DEF Moves
  <2> QED BY <1>4, <2>1, <2>2 DEF OpenContent
<1>5. CASE FailSeek(w)
  <2>1. req[w].step # "idle" /\ req[w].op # "create"
    BY <1>5 DEF FailSeek, RequestOK
  <2> QED BY <1>5, <2>1, <1>p, ResultsReported DEF FailSeek
<1>6. CASE \/ FindGrant(w) \/ FindGrantee(w) \/ RefuseOwner(w) \/ DeleteGrant(w)
  BY <1>6, <1>m, <1>p, <1>s, <1>t, <1>a, RequestCreates, ResultsReported
     DEF FindGrant, FindGrantee, RefuseOwner, DeleteGrant, Refuse
<1>7. CASE \/ CreateItem(w) \/ Get(w) \/ Update(w) \/ Delete(w) \/ SaveGrant(w)
  BY <1>7, <1>m, <1>s, <1>t, <1>a DEF CreateItem, Get, Update, Delete, SaveGrant
<1>8. CASE \/ ReadGrants(w) \/ Record(w) \/ RefuseRange(w) \/ Close(w)
  BY <1>8, <1>m, <1>s, <1>t, <1>a DEF ReadGrants, Record, RefuseRange, Close
<1>9. CASE Stream(w) \/ Fail(w)
  BY <1>9, <1>m, <1>p, <1>t, <1>a, RequestCreates, ResultsReported DEF Stream, Fail
<1> QED
  BY <1>1, <1>2, <1>3, <1>4, <1>5, <1>6, <1>7, <1>8, <1>9 DEF RequestStep

LEMMA ArrivalStep ==
  ASSUME TypeOK, NEW w \in Workers, Arrive(w) \/ ArriveCreate(w)
  PROVE  req'[w].step = "arrived"
<1>1. CASE Arrive(w)
  <2>1. PICK s \in Sessions, op \in Operations \ {"create"}, m \in Media :
          \E target \in IF op \in Sharing THEN Users ELSE {None},
             mask \in IF op = "replace" THEN Masks ELSE {{}} :
            req' = [req EXCEPT ![w] =
                     [Idle EXCEPT !.step = "arrived", !.session = s, !.op = op,
                                  !.media = m, !.target = target, !.mask = mask]]
    BY <1>1, Zenon DEF Arrive
  <2> QED BY <2>1 DEF Idle, TypeOK
<1>2. CASE ArriveCreate(w)
  <2>1. PICK s \in Sessions, m \in Media \ ids :
          req' = [req EXCEPT ![w] = [Idle EXCEPT !.step = "arrived", !.op = "create",
                                                 !.session = s, !.media = m]]
    BY <1>2, Zenon DEF ArriveCreate
  <2> QED BY <2>1 DEF Idle, TypeOK
<1> QED BY <1>1, <1>2

LEMMA MoveTyped ==
  ASSUME TypeOK, RequestOK, NEW w \in Workers, Moves(w)
  PROVE  /\ req' \in [Workers -> RequestRecord]
         /\ \A v \in Workers : v # w => req'[v] = req[v]
         /\ \A v \in Workers : Consistent(req'[v])
<1>1. PICK r \in RequestRecord : Consistent(r) /\ req' = [req EXCEPT ![w] = r]
  BY DEF Moves
<1>2. req \in [Workers -> RequestRecord]
  BY DEF TypeOK, RequestRecord
<1>3. \A v \in Workers : Consistent(req[v])
  BY DEF Consistent, TypeOK, RequestOK, At, Item
<1> QED BY <1>1, <1>2, <1>3

\* Most steps only read the tables.
Quiet == UNCHANGED <<users, items, ids, grants, markers, events>>

LEMMA TableSteps ==
  ASSUME NEW w \in Workers, RequestStep(w), ~Quiet
  PROVE  \/ ArriveCreate(w) \/ CreateItem(w) \/ Delete(w)
         \/ SaveGrant(w) \/ DeleteGrant(w) \/ Record(w) \/ Stream(w)
BY DEF RequestStep, Quiet, tables, audit, Arrive, FindItem, FindGrant, Get, Update,
       RefuseOwner, FindGrantee, ReadGrants, OpenContent, RefuseRange, FailSeek,
       Close, Fail

LEMMA StepRequests ==
  ASSUME TypeOK, RequestOK, [Next]_vars
  PROVE  /\ req' \in [Workers -> RequestRecord]
         /\ \A v \in Workers : Consistent(req'[v])
         /\ RequestOK'
<1>1. req' \in [Workers -> RequestRecord] /\ \A v \in Workers : Consistent(req'[v])
  <2>1. CASE req' = req
    BY <2>1 DEF Consistent, RequestRecord, TypeOK, RequestOK, At, Item
  <2>2. ASSUME NEW w \in Workers, RequestStep(w)
        PROVE  <1>1!1 /\ <1>1!2
    BY <2>2, RequestMoves, MoveTyped
  <2> QED BY <2>1, <2>2 DEF Next, vars, SetActive, DeleteUser
<1>2. RequestOK'
  BY <1>1 DEF RequestOK, Consistent, At, Item
<1> QED BY <1>1, <1>2

\* An event of a request that has come to a medium.
LEMMA EventKey ==
  ASSUME TypeOK, RequestOK, NEW w \in Workers, req[w].step # "idle",
         NEW result \in Results
  PROVE  /\ <<req[w].session, Item(w), result>> \in Keys
         /\ Actor(w) \in Users
BY AccessAssumption DEF RequestOK, Keys, Actor

TablesTyped ==
  /\ users   \in [Users -> {"active", "inactive", "deleted"}]
  /\ items   \in [Media -> Users \union {None}]
  /\ ids     \subseteq Media
  /\ grants  \in [Media -> [Users -> SUBSET Permissions]]
  /\ markers \subseteq Keys
  /\ events  \in [Keys -> Nat]
  /\ \A m \in Media : Exists(m) => m \in ids

LEMMA AppendTyped ==
  ASSUME TypeOK, RequestOK, NEW w \in Workers, req[w].step # "idle",
         NEW result \in Results, AppendOnce(w, result)
  PROVE  /\ markers' \subseteq Keys
         /\ events'  \in [Keys -> Nat]
<1> DEFINE key == <<req[w].session, Item(w), result>>
<1>1. key \in Keys
  BY EventKey
<1>2. markers' = markers \union {key}
  BY DEF AppendOnce
<1>3. events' = events \/ events' = [events EXCEPT ![key] = events[key] + 1]
  BY DEF AppendOnce
<1>4. events[key] + 1 \in Nat
  BY <1>1 DEF TypeOK
<1> HIDE DEF key
<1> QED BY <1>1, <1>2, <1>3, <1>4 DEF TypeOK

LEMMA StepTables ==
  ASSUME TypeOK, RequestOK, IdsOK, [Next]_vars
  PROVE  TablesTyped'
<1> USE DEF TablesTyped, Exists
<1>1. CASE Quiet
  BY <1>1 DEF TypeOK, Quiet
<1>2. ASSUME NEW w \in Workers, ArriveCreate(w) PROVE TablesTyped'
  BY <1>2 DEF TypeOK, ArriveCreate, audit
<1>3. ASSUME NEW w \in Workers, CreateItem(w) PROVE TablesTyped'
  <2>1. Actor(w) \in Users /\ Item(w) \in Media /\ Item(w) \in ids
    BY <1>3, AccessAssumption DEF CreateItem, IdsOK, Creating, RequestOK, Actor, At
  <2> QED BY <1>3, <2>1 DEF TypeOK, CreateItem, audit
<1>4. ASSUME NEW w \in Workers, Delete(w) PROVE TablesTyped'
  BY <1>4 DEF TypeOK, Delete, audit
<1>5. ASSUME NEW w \in Workers, SaveGrant(w) PROVE TablesTyped'
  <2>1. Item(w) \in Media /\ req[w].target \in Users /\ req[w].mask \in SUBSET Permissions
    BY <1>5 DEF SaveGrant, At, RequestOK, Sharing, TypeOK
  <2> QED BY <1>5, <2>1 DEF TypeOK, SaveGrant, audit
<1>6. ASSUME NEW w \in Workers, DeleteGrant(w) PROVE TablesTyped'
  <2>1. Item(w) \in Media /\ req[w].target \in Users
    BY <1>6 DEF DeleteGrant, At, RequestOK, Sharing, TypeOK
  <2> QED BY <1>6, <2>1 DEF TypeOK, DeleteGrant, audit
<1>7. ASSUME NEW w \in Workers, Record(w) \/ Stream(w) PROVE TablesTyped'
  <2>1. PICK result \in Results : AppendOnce(w, result)
    BY <1>7, ResultsReported DEF Record, Stream, TypeOK
  <2>2. markers' \subseteq Keys /\ events' \in [Keys -> Nat]
    BY <1>7, <2>1, AppendTyped DEF Record, Stream, At
  <2> QED BY <1>7, <2>2 DEF TypeOK, Record, Stream, tables
<1>8. ASSUME NEW u \in Users, SetActive(u, TRUE) \/ SetActive(u, FALSE)
      PROVE  TablesTyped'
  BY <1>8 DEF TypeOK, SetActive, audit
<1>9. ASSUME NEW u \in Users, DeleteUser(u) PROVE TablesTyped'
  BY <1>9 DEF TypeOK, DeleteUser
<1> QED
  BY <1>1, <1>2, <1>3, <1>4, <1>5, <1>6, <1>7, <1>8, <1>9, TableSteps
     DEF Next, vars, tables, audit, Quiet

LEMMA StepTyped ==
  ASSUME TypeOK, RequestOK, IdsOK, [Next]_vars
  PROVE  TypeOK'
<1>1. TablesTyped'
  BY StepTables
<1>2. /\ req' \in [Workers -> RequestRecord]
      /\ \A w \in Workers : /\ req'[w].step # "idle" => req'[w].session # None
                            /\ req'[w].step \in {"opened", "streaming"} => req'[w].size > 0
                            /\ req'[w].size > 0 =>
                                 req'[w].step \in {"opened", "streaming", "recording"}
  BY StepRequests, AccessAssumption DEF Consistent
<1>3. held' \in [Workers -> BOOLEAN]
  <2>1. CASE UNCHANGED vars
    BY <2>1 DEF TypeOK, vars
  <2>2. CASE Observe
    <3>1. \A b \in BOOLEAN, w \in Workers :
            (req'[w].step # "arrived" /\ b) \/ Permitted(w)' \in BOOLEAN
      BY DEF Permitted
    <3> QED BY <2>2, <3>1 DEF Observe, TypeOK, Permitted
  <2> QED BY <2>1, <2>2 DEF Next
<1>4. arrived' \in 0..MaxRequests
  <2>1. CASE arrived' = arrived
    BY <2>1 DEF TypeOK
  <2>2. CASE arrived < MaxRequests /\ arrived' = arrived + 1
    BY <2>2, AccessAssumption DEF TypeOK
  <2>3. ASSUME NEW w \in Workers, RequestStep(w), arrived' # arrived
        PROVE  arrived < MaxRequests /\ arrived' = arrived + 1
    BY <2>3 DEF RequestStep, Arrive, ArriveCreate, CreateItem, FindItem, FindGrant, Get,
                Update, Delete, RefuseOwner, FindGrantee, SaveGrant, DeleteGrant,
                ReadGrants, OpenContent, Record, RefuseRange, FailSeek, Stream, Close, Fail
  <2> QED BY <2>1, <2>2, <2>3 DEF Next, vars, SetActive, DeleteUser
<1> QED
  BY <1>1, <1>2, <1>3, <1>4 DEF TypeOK, TablesTyped, RequestRecord, Exists

-----------------------------------------------------------------------------
(* Ids.                                                                    *)

\* A request learns of an item by FindItem only.
LEMMA KnowledgeStep ==
  ASSUME TypeOK, RequestOK, NEW w \in Workers, RequestStep(w),
         ~Arrive(w), ~ArriveCreate(w), ~FindItem(w)
  PROVE  /\ Knows(w)' => /\ Knows(w)
                         /\ req'[w].media = req[w].media
                         /\ req'[w].owner = req[w].owner
         /\ ~Creating(w)'
BY DEF RequestStep, TypeOK, Knows, Creating, At, GoTo, Answer, Serve, Report, Idle, CreateItem,
       FindGrant, Refuse, Get, Update, Delete, RefuseOwner, FindGrantee, SaveGrant,
       DeleteGrant, ReadGrants, OpenContent, Record, RefuseRange, FailSeek, Stream,
       Close, Fail

LEMMA StepIds ==
  ASSUME TypeOK, RequestOK, IdsOK, [Next]_vars
  PROVE  IdsOK'
<1> USE DEF Item, Exists
<1>1. CASE UNCHANGED <<items, ids, req>>
  BY <1>1 DEF IdsOK, Knows, Creating, At
<1>2. ASSUME NEW w \in Workers, RequestStep(w) PROVE IdsOK'
  <2>1. \A v \in Workers : v # w => req'[v] = req[v]
    BY <1>2, RequestMoves, MoveTyped
  <2>2. CASE Arrive(w)
    <3>1. ~Knows(w)' /\ ~Creating(w)' /\ UNCHANGED <<items, ids>>
      BY <2>2 DEF Arrive, Knows, Creating, At, Idle, tables, TypeOK
    <3> QED BY <2>1, <3>1 DEF IdsOK, Knows, Creating, At
  <2>3. CASE ArriveCreate(w)
    <3>1. PICK m \in Media \ ids :
            /\ ids' = ids \union {m}
            /\ req'[w].step = "arrived" /\ req'[w].op = "create" /\ req'[w].media = m
      <4>1. PICK s \in Sessions, m \in Media \ ids :
              /\ ids' = ids \union {m}
              /\ req' = [req EXCEPT ![w] = [Idle EXCEPT !.step = "arrived", !.op = "create",
                                                       !.session = s, !.media = m]]
        BY <2>3, Zenon DEF ArriveCreate
      <4> QED BY <4>1 DEF Idle, TypeOK
    <3>2. items' = items /\ items[m] = None
      BY <2>3, <3>1 DEF ArriveCreate, TypeOK
    <3> QED BY <2>1, <3>1, <3>2 DEF IdsOK, Knows, Creating, At
  <2>4. CASE FindItem(w)
    <3>1. /\ UNCHANGED <<items, ids>>
          /\ ~Creating(w)'
      BY <2>4 DEF FindItem, Refuse, GoTo, Report, Answer, Idle, tables, Creating, At, TypeOK
    <3>2. Knows(w)' => /\ req'[w].media = req[w].media
                       /\ req'[w].owner = items[req[w].media]
                       /\ items[req[w].media] # None
      BY <2>4 DEF FindItem, Refuse, GoTo, Report, Answer, Idle, Knows, At, TypeOK
    <3>3. Knows(w)' => req[w].media \in ids
      BY <2>4, <3>2 DEF TypeOK, RequestOK, FindItem, At
    <3> QED BY <2>1, <3>1, <3>2, <3>3 DEF IdsOK, Knows, Creating, At
  <2>5. CASE ~Arrive(w) /\ ~ArriveCreate(w) /\ ~FindItem(w)
    <3>1. /\ Knows(w)' => /\ Knows(w)
                          /\ req'[w].media = req[w].media
                          /\ req'[w].owner = req[w].owner
          /\ ~Creating(w)'
      BY <1>2, <2>5, KnowledgeStep
    <3>2. CASE UNCHANGED <<items, ids>>
      BY <2>1, <3>1, <3>2 DEF IdsOK, Knows, Creating, At
    <3>3. CASE CreateItem(w)
      <4>1. /\ Creating(w) /\ ~Knows(w) /\ ids' = ids
            /\ items' = [items EXCEPT ![req[w].media] = Actor(w)]
        BY <3>3 DEF CreateItem, Creating, Knows, At
      <4>2. \A v \in Workers \ {w} : Knows(v) \/ Creating(v) => Item(v) # Item(w)
        BY <4>1 DEF IdsOK
      <4>3. \A m \in Media : m # Item(w) => items'[m] = items[m]
        BY <4>1 DEF TypeOK, Item
      <4>4. \A v \in Workers \ {w} : Knows(v) \/ Creating(v) =>
              Item(v) \in ids /\ items'[Item(v)] = items[Item(v)]
        BY <4>2, <4>3 DEF IdsOK, TypeOK
      <4>5. ASSUME NEW v \in Workers, Knows(v)'
            PROVE  Item(v)' \in ids' /\ items'[Item(v)'] \in {req'[v].owner, None}
        <5>1. v # w /\ req'[v] = req[v]
          BY <2>1, <3>1, <4>1, <4>5
        <5>2. Knows(v)
          BY <4>5, <5>1 DEF Knows, At
        <5> QED  BY <4>1, <4>4, <5>1, <5>2 DEF IdsOK, Item
      <4>6. ASSUME NEW v \in Workers, Creating(v)'
            PROVE  /\ Item(v)' \in ids' /\ items'[Item(v)'] = None
                   /\ \A u \in Workers :
                        Knows(u)' \/ (Creating(u)' /\ u # v) => Item(u)' # Item(v)'
        <5>1. v # w /\ req'[v] = req[v]
          BY <2>1, <3>1, <4>6
        <5>2. Creating(v)
          BY <4>6, <5>1 DEF Creating, At
        <5>3. Item(v)' \in ids' /\ items'[Item(v)'] = None
          BY <4>1, <4>4, <5>1, <5>2 DEF IdsOK, Exists, Item
        <5>4. ASSUME NEW u \in Workers, Knows(u)' \/ (Creating(u)' /\ u # v)
              PROVE  Item(u)' # Item(v)'
          <6>1. u # w /\ req'[u] = req[u]
            BY <2>1, <3>1, <4>1, <5>4
          <6>2. Knows(u) \/ (Creating(u) /\ u # v)
            BY <5>4, <6>1 DEF Knows, Creating, At
          <6> QED  BY <5>1, <5>2, <6>1, <6>2 DEF IdsOK, Item
        <5> QED  BY <5>3, <5>4 DEF Knows, Creating, At, Item
      <4> QED BY <4>5, <4>6 DEF IdsOK, Exists, Knows, Creating, At, Item
    <3>4. CASE Delete(w)
      <4>1. ids' = ids /\ items' = [items EXCEPT ![req[w].media] = None]
        BY <3>4 DEF Delete
      <4>2. \A v \in Workers : Knows(v) \/ Creating(v) =>
              items'[req[v].media] \in {items[req[v].media], None}
        BY <4>1 DEF Knows, Creating, At, RequestOK, TypeOK
      <4> QED BY <2>1, <3>1, <4>1, <4>2 DEF IdsOK, Knows, Creating, At
    <3> QED
      BY <1>2, <2>5, <3>2, <3>3, <3>4, TableSteps
         DEF Quiet, SaveGrant, DeleteGrant, Record, Stream, tables
  <2> QED BY <2>2, <2>3, <2>4, <2>5
<1> QED BY <1>1, <1>2 DEF Next, vars, tables, SetActive, DeleteUser

-----------------------------------------------------------------------------
(* Grants.                                                                 *)

LEMMA StepGrants ==
  ASSUME TypeOK, RequestOK, IdsOK, GrantsReferToRows, [Next]_vars
  PROVE  GrantsReferToRows'
<1> USE DEF GrantsReferToRows, Exists
<1>1. CASE UNCHANGED <<users, items, grants>>
  BY <1>1
<1>2. ASSUME NEW w \in Workers, CreateItem(w) PROVE GrantsReferToRows'
  <2>1. items[Item(w)] = None
    BY <1>2 DEF CreateItem, IdsOK, Creating
  <2> QED BY <1>2, <2>1 DEF CreateItem, TypeOK
<1>3. ASSUME NEW w \in Workers, Delete(w) PROVE GrantsReferToRows'
  BY <1>3 DEF Delete, TypeOK
<1>4. ASSUME NEW w \in Workers, SaveGrant(w) PROVE GrantsReferToRows'
  <2>1. items[Item(w)] = req[w].owner /\ req[w].owner # req[w].target
    BY <1>4 DEF SaveGrant, IdsOK, Knows, RequestOK, At
  <2> QED BY <1>4, <2>1 DEF SaveGrant, TypeOK
<1>5. ASSUME NEW w \in Workers, DeleteGrant(w) PROVE GrantsReferToRows'
  BY <1>5 DEF DeleteGrant, TypeOK
<1>6. ASSUME NEW u \in Users, SetActive(u, TRUE) \/ SetActive(u, FALSE)
      PROVE  GrantsReferToRows'
  BY <1>6 DEF SetActive, TypeOK
<1>7. ASSUME NEW u \in Users, DeleteUser(u) PROVE GrantsReferToRows'
  BY <1>7 DEF DeleteUser, TypeOK
<1> QED
  BY <1>1, <1>2, <1>3, <1>4, <1>5, <1>6, <1>7, TableSteps
     DEF Next, vars, tables, Quiet, ArriveCreate, Record, Stream

-----------------------------------------------------------------------------
(* Events.                                                                 *)

\* AppendOnce stores an event once, and not for a deleted user.
LEMMA AppendSound ==
  ASSUME TypeOK, RequestOK, MarkersOK, OneEventPerSession,
         NEW w \in Workers, req[w].step # "idle",
         NEW result \in Results, AppendOnce(w, result), users' = users
  PROVE  /\ MarkersOK'
         /\ OneEventPerSession'
         /\ events'[<<req[w].session, Item(w), result>>] > 0
         /\ \A k \in Keys : events'[k] >= events[k]
<1> DEFINE key == <<req[w].session, Item(w), result>>
<1>1. key \in Keys /\ users[SessionOf[key[1]]] # "deleted"
  BY EventKey DEF AppendOnce, Actor
<1>2. markers' = markers \union {key}
  BY DEF AppendOnce
<1>3. key \in markers => events' = events
  BY DEF AppendOnce
<1>4. key \notin markers => events' = [events EXCEPT ![key] = events[key] + 1]
  BY DEF AppendOnce
<1> HIDE DEF key
<1>5. \A k \in Keys : events[k] \in Nat
  BY DEF TypeOK
<1>6. events'[key] = 1
  <2>1. key \notin markers => events[key] = 0
    BY <1>1, <1>5 DEF MarkersOK
  <2> QED BY <1>1, <1>3, <1>4, <2>1 DEF OneEventPerSession, TypeOK
<1>7. \A k \in Keys : k # key => events'[k] = events[k]
  BY <1>3, <1>4 DEF TypeOK
<1>8. MarkersOK'
  BY <1>2, <1>5, <1>6, <1>7 DEF MarkersOK
<1>9. OneEventPerSession'
  BY <1>2, <1>5, <1>6, <1>7 DEF OneEventPerSession, TypeOK
<1>10. \A k \in Keys : events'[k] >= events[k]
  BY <1>1, <1>5, <1>6, <1>7 DEF OneEventPerSession
<1> QED BY <1>6, <1>8, <1>9, <1>10 DEF key

LEMMA StepEvents ==
  ASSUME TypeOK, RequestOK, MarkersOK, OneEventPerSession, ContentIsAudited, [Next]_vars
  PROVE  MarkersOK' /\ OneEventPerSession' /\ ContentIsAudited'
<1>1. CASE UNCHANGED <<users, audit, req>>
  BY <1>1 DEF audit, MarkersOK, OneEventPerSession, ContentIsAudited, At, Item
<1>2. ASSUME NEW w \in Workers, RequestStep(w)
      PROVE  MarkersOK' /\ OneEventPerSession' /\ ContentIsAudited'
  <2>1. \A v \in Workers : v # w => req'[v] = req[v]
    BY <1>2, RequestMoves, MoveTyped
  <2>2. \A v \in Workers : req[v].step = "streaming" =>
          <<req[v].session, req[v].media, Success>> \in Keys
    BY EventKey, ResultsReported DEF Item
  <2>3. CASE Record(w)
    <3>1. PICK result \in Results : AppendOnce(w, result)
      BY <2>3 DEF Record, TypeOK
    <3>2. req[w].step # "idle" /\ users' = users /\ req'[w].step = "idle"
      BY <2>3 DEF Record, At, tables, Answer, Idle, TypeOK
    <3>3. /\ MarkersOK' /\ OneEventPerSession'
          /\ \A k \in Keys : events'[k] >= events[k]
      BY <3>1, <3>2, AppendSound
    <3>4. \A k \in Keys : events[k] \in Nat /\ events'[k] \in Nat
      BY <3>1, <3>2, AppendTyped DEF TypeOK
    <3> QED BY <2>1, <2>2, <3>2, <3>3, <3>4 DEF ContentIsAudited, At, Item
  <2>4. CASE Stream(w)
    <3>1. Success \in Results /\ AppendOnce(w, Success)
      BY <2>4, ResultsReported DEF Stream
    <3>2. /\ req[w].step # "idle" /\ users' = users
          /\ req'[w].session = req[w].session /\ req'[w].media = req[w].media
      BY <2>4 DEF Stream, At, tables, GoTo, TypeOK
    <3>3. /\ MarkersOK' /\ OneEventPerSession'
          /\ events'[<<req[w].session, req[w].media, Success>>] > 0
          /\ \A k \in Keys : events'[k] >= events[k]
      BY <3>1, <3>2, AppendSound DEF Item
    <3>4. \A k \in Keys : events[k] \in Nat /\ events'[k] \in Nat
      BY <3>1, <3>2, AppendTyped DEF TypeOK
    <3> QED BY <2>1, <2>2, <3>2, <3>3, <3>4 DEF ContentIsAudited, At, Item
  <2>5. CASE ~Record(w) /\ ~Stream(w)
    <3>1. UNCHANGED <<users, markers, events>>
      BY <1>2, <2>5, TableSteps
         DEF Quiet, audit, tables, ArriveCreate, CreateItem, Delete, SaveGrant, DeleteGrant
    <3>2. req'[w].step # "streaming"
      <4> USE DEF TypeOK, At, GoTo, Answer, Serve, Report, Idle
      <4>1. CASE Arrive(w) \/ ArriveCreate(w) \/ CreateItem(w)
        BY <4>1, ArrivalStep DEF CreateItem
      <4>2. CASE FindItem(w) \/ FindGrant(w)
        BY <4>2 DEF FindItem, FindGrant, Refuse
      <4>3. CASE \/ Get(w) \/ Update(w) \/ Delete(w) \/ RefuseOwner(w) \/ FindGrantee(w)
                 \/ SaveGrant(w) \/ DeleteGrant(w) \/ ReadGrants(w)
        BY <4>3 DEF Get, Update, Delete, RefuseOwner, FindGrantee, SaveGrant,
                    DeleteGrant, ReadGrants
      <4>4. CASE OpenContent(w) \/ RefuseRange(w) \/ FailSeek(w) \/ Close(w) \/ Fail(w)
        BY <4>4 DEF OpenContent, RefuseRange, FailSeek, Close, Fail
      <4> QED BY <1>2, <2>5, <4>1, <4>2, <4>3, <4>4 DEF RequestStep
    <3> QED BY <2>1, <3>1, <3>2 DEF MarkersOK, OneEventPerSession, ContentIsAudited, At, Item
  <2> QED BY <2>3, <2>4, <2>5
<1>3. ASSUME NEW u \in Users, SetActive(u, TRUE) \/ SetActive(u, FALSE)
      PROVE  MarkersOK' /\ OneEventPerSession' /\ ContentIsAudited'
  <2>1. UNCHANGED <<markers, events, req>> /\ (\A x \in Users :
          users[x] = "deleted" => users'[x] = "deleted")
    BY <1>3 DEF SetActive, audit, TypeOK
  <2>2. \A k \in Keys : SessionOf[k[1]] \in Users
    BY AccessAssumption DEF Keys
  <2> QED BY <2>1, <2>2 DEF MarkersOK, OneEventPerSession, ContentIsAudited, At, Item
<1>4. ASSUME NEW u \in Users, DeleteUser(u)
      PROVE  MarkersOK' /\ OneEventPerSession' /\ ContentIsAudited'
  <2>1. /\ UNCHANGED <<events, req>>
        /\ \A x \in Users : users[x] = "deleted" => users'[x] = "deleted"
        /\ users'[u] = "deleted"
        /\ markers' = {k \in markers : SessionOf[k[1]] # u}
    BY <1>4 DEF DeleteUser, TypeOK
  <2>2. \A k \in Keys : SessionOf[k[1]] \in Users
    BY AccessAssumption DEF Keys
  <2> QED BY <2>1, <2>2 DEF MarkersOK, OneEventPerSession, ContentIsAudited, At, Item
<1> QED BY <1>1, <1>2, <1>3, <1>4 DEF Next, vars, tables

-----------------------------------------------------------------------------
(* Permissions.                                                            *)

\* Only a request that was authorized comes to a step after that.
Allowed == {"authorized", "checked", "opened", "streaming", "served"}

LEMMA AllowedStep ==
  ASSUME TypeOK, RequestOK, NEW w \in Workers, RequestStep(w),
         req'[w].step \in Allowed, req[w].step \notin Allowed
  PROVE  CreateItem(w) \/ FindItem(w) \/ FindGrant(w)
<1> USE DEF TypeOK, At, GoTo, Answer, Serve, Report, Idle, Allowed
<1>1. ~Arrive(w) /\ ~ArriveCreate(w)
  BY ArrivalStep
<1>2. ~Get(w) /\ ~Update(w) /\ ~Delete(w) /\ ~RefuseOwner(w) /\ ~FindGrantee(w)
      /\ ~SaveGrant(w) /\ ~DeleteGrant(w) /\ ~ReadGrants(w)
  BY DEF Get, Update, Delete, RefuseOwner, FindGrantee, SaveGrant, DeleteGrant, ReadGrants
<1>3. ~OpenContent(w) /\ ~Record(w) /\ ~RefuseRange(w) /\ ~FailSeek(w)
      /\ ~Stream(w) /\ ~Close(w)
  BY DEF OpenContent, Record, RefuseRange, FailSeek, Stream, Close
<1>4. ~Fail(w)
  BY DEF Fail
<1> QED BY <1>1, <1>2, <1>3, <1>4 DEF RequestStep

\* Authorization sees the permission in the rows: a grant that is found has an
\* item, since grants refer to rows.
LEMMA AuthorizedIsPermitted ==
  ASSUME TypeOK, RequestOK, GrantsReferToRows, NEW w \in Workers,
         CreateItem(w) \/ FindItem(w) \/ FindGrant(w), req'[w].step \in Allowed
  PROVE  Permitted(w)'
<1>1. CASE CreateItem(w)
  BY <1>1 DEF CreateItem, Permitted, Serve, TypeOK
<1>2. CASE FindItem(w)
  BY <1>2 DEF FindItem, Refuse, GoTo, Report, Answer, Idle, Allowed, TypeOK, Permitted, Exists,
              Item, Actor, tables
<1>3. CASE FindGrant(w)
  <2>1. Required(req[w].op) \in grants[Item(w)][Actor(w)]
    BY <1>3 DEF FindGrant, Refuse, GoTo, Report, Answer, Idle, Allowed, TypeOK
  <2>2. Item(w) \in Media /\ Actor(w) \in Users
    BY <1>3, AccessAssumption DEF FindGrant, At, RequestOK, Actor
  <2>3. Exists(Item(w))
    BY <2>1, <2>2 DEF GrantsReferToRows
  <2>4. /\ UNCHANGED <<items, grants>>
        /\ req'[w] = [req[w] EXCEPT !.step = "authorized"]
    BY <1>3, <2>1 DEF FindGrant, GoTo, TypeOK, tables
  <2> QED BY <2>1, <2>3, <2>4 DEF Permitted, Required, Exists, Item, Actor, Sharing, TypeOK
<1> QED BY <1>1, <1>2, <1>3

LEMMA StepHeld ==
  ASSUME TypeOK, RequestOK, GrantsReferToRows, HeldOK, [Next]_vars
  PROVE  HeldOK'
<1>1. CASE UNCHANGED vars
  BY <1>1 DEF vars, HeldOK
<1>2. CASE Next
  <2>1. ASSUME NEW v \in Workers, req'[v].step \in Allowed
        PROVE  held[v] \/ Permitted(v)'
    <3>1. CASE req'[v].step = req[v].step
      BY <2>1, <3>1 DEF HeldOK, Allowed
    <3>2. CASE req'[v].step # req[v].step
      <4>1. PICK w \in Workers : RequestStep(w)
        BY <1>2, <3>2 DEF Next, SetActive, DeleteUser
      <4>2. v = w
        BY <3>2, <4>1, RequestMoves, MoveTyped
      <4>3. CASE req[v].step \in Allowed
        BY <4>3 DEF HeldOK, Allowed
      <4>4. CASE req[v].step \notin Allowed
        BY <2>1, <4>1, <4>2, <4>4, AllowedStep, AuthorizedIsPermitted
      <4> QED BY <4>3, <4>4
    <3> QED BY <3>1, <3>2
  <2>2. \A v \in Workers : req'[v].step \in Allowed => held'[v]
    BY <1>2, <2>1 DEF Next, Observe, Allowed
  <2> QED BY <2>2 DEF HeldOK, Allowed
<1> QED BY <1>1, <1>2

-----------------------------------------------------------------------------
(* Theorems.                                                               *)

LEMMA InitHolds == Init => IInv
<1> SUFFICES ASSUME Init PROVE IInv
  OBVIOUS
<1>1. TypeOK /\ RequestOK
  BY InitTyped
<1>2. \A w \in Workers : req[w].step = "idle"
  BY DEF Init, Idle
<1>3. IdsOK /\ HeldOK /\ ContentIsAudited
  BY <1>2 DEF IdsOK, HeldOK, ContentIsAudited, Knows, Creating, At
<1>4. MarkersOK /\ OneEventPerSession /\ GrantsReferToRows
  BY DEF Init, MarkersOK, OneEventPerSession, GrantsReferToRows
<1> QED BY <1>1, <1>3, <1>4 DEF IInv

\* The invariant on which the properties below rest.
THEOREM Invariance == Spec => []IInv
<1>1. IInv /\ [Next]_vars => IInv'
  BY StepTyped, StepRequests, StepIds, StepGrants, StepEvents, StepHeld DEF IInv
<1> QED BY <1>1, InitHolds, PTL DEF Spec

\* Every row, every event and every request has its shape, for any numbers of them.
THEOREM TypeCorrect == Spec => []TypeOK
<1>1. IInv => TypeOK
  BY DEF IInv
<1> QED BY <1>1, Invariance, PTL

\* No deletion leaves a grant behind, and no replacement in flight stores one
\* for a missing item, a deleted user or the owner.
THEOREM GrantSafety == Spec => []GrantsReferToRows
<1>1. IInv => GrantsReferToRows
  BY DEF IInv
<1> QED BY <1>1, Invariance, PTL

\* Nothing is served without a permission that was there during the request.
THEOREM AuthorizationSafety == Spec => []AccessWasGranted
<1>1. IInv => AccessWasGranted
  BY DEF IInv, HeldOK, AccessWasGranted
<1> QED BY <1>1, Invariance, PTL

\* A session has one event per medium, outcome and reason, however many ranges it
\* reads and however its readings are refused and fail.
THEOREM EventSafety == Spec => []OneEventPerSession
<1>1. IInv => OneEventPerSession
  BY DEF IInv
<1> QED BY <1>1, Invariance, PTL

\* A content is streamed only after the event of its session.
THEOREM AuditSafety == Spec => []ContentIsAudited
<1>1. IInv => ContentIsAudited
  BY DEF IInv
<1> QED BY <1>1, Invariance, PTL

\* An opened content has at least one byte, as every stored content has.
LEMMA OpenedSize ==
  ASSUME IInv, NEW w \in Workers, At(w, "opened")
  PROVE  req[w].size \in 1..MaxInt
BY AccessAssumption, MaxIntAssumption DEF IInv, TypeOK, At

\* For each range of each content the bytes sent are those it selects.
THEOREM RangeSafety == Spec => []RangesAreExact
<1>1. IInv => RangesAreExact
  BY OpenedSize, RangeIsExact DEF RangesAreExact
<1> QED BY <1>1, Invariance, PTL

\* Server and client agree on each range of each content.
THEOREM AgreementSafety == Spec => []ClientAcceptsRanges
<1>1. IInv => ClientAcceptsRanges
  BY OpenedSize, ClientAgrees DEF ClientAcceptsRanges
<1> QED BY <1>1, Invariance, PTL

-----------------------------------------------------------------------------
(* Decisions.                                                              *)

\* A request that looks for a grant is not the owner's.
FoundOK == \A w \in Workers : At(w, "found") => req[w].owner # Actor(w)

LEMMA FoundStep ==
  ASSUME TypeOK, RequestOK, FoundOK, [Next]_vars
  PROVE  FoundOK'
<1>1. CASE req' = req
  BY <1>1 DEF FoundOK, At, Actor
<1>2. ASSUME NEW w \in Workers, RequestStep(w) PROVE FoundOK'
  <2>1. \A v \in Workers : v # w => req'[v] = req[v]
    BY <1>2, RequestMoves, MoveTyped
  <2>2. CASE FindItem(w)
    <3>1. req'[w].step = "found" =>
            /\ req'[w].owner # Actor(w)
            /\ req'[w].session = req[w].session
      BY <2>2 DEF FindItem, Refuse, GoTo, Report, Answer, Idle, At, TypeOK
    <3> QED  BY <2>1, <3>1 DEF FoundOK, At, Actor
  <2>3. CASE Arrive(w) \/ ArriveCreate(w)
    BY <2>1, <2>3, ArrivalStep DEF FoundOK, At, Actor
  <2>4. CASE ~FindItem(w) /\ ~Arrive(w) /\ ~ArriveCreate(w)
    <3>1. req'[w].step # "found"
      BY <1>2, <2>4
         DEF RequestStep, TypeOK, At, GoTo, Answer, Serve, Report, Idle, CreateItem, FindGrant,
             Refuse, Get, Update, Delete, RefuseOwner, FindGrantee, SaveGrant,
             DeleteGrant, ReadGrants, OpenContent, Record, RefuseRange, FailSeek,
             Stream, Close, Fail
    <3> QED  BY <2>1, <3>1 DEF FoundOK, At, Actor
  <2> QED  BY <2>2, <2>3, <2>4
<1> QED  BY <1>1, <1>2 DEF Next, vars, SetActive, DeleteUser

LEMMA FoundInvariance == Spec => [](IInv /\ FoundOK)
<1>1. Init => FoundOK
  BY DEF Init, FoundOK, At, Idle
<1>2. IInv /\ FoundOK /\ [Next]_vars => FoundOK'
  BY FoundStep DEF IInv
<1> QED  BY <1>1, <1>2, Invariance, PTL DEF Spec

\* What an operation on an item requires is what Permitted looks for.
LEMMA PermissionRequired ==
  ASSUME NEW w \in Workers, req[w].op # "create"
  PROVE  Permitted(w) <=>
           /\ Exists(Item(w))
           /\ \/ items[Item(w)] = Actor(w)
              \/ Required(req[w].op) \in grants[Item(w)][Actor(w)]
BY DEF Permitted, Required, Sharing

\* Item and grant are read in two queries; owners do not change and a deletion
\* takes the grants along, so the second is as good as both at once
\* (authorizeItem).
THEOREM DecisionSafety == Spec => DecisionsAreCurrent
<1> DEFINE Current(w) == CASE At(w, "authorized")' -> Permitted(w)
                           [] At(w, "found")'      -> TRUE
                           [] OTHER                -> ~Permitted(w)
           Step == \A w \in Workers : FindItem(w) \/ FindGrant(w) => Current(w)
<1>1. IInv /\ FoundOK => Step
  <2> SUFFICES ASSUME IInv, FoundOK, NEW w \in Workers, FindItem(w) \/ FindGrant(w)
               PROVE  Current(w)
    OBVIOUS
  <2>1. /\ req[w].op # "create"
        /\ Item(w) \in Media /\ Actor(w) \in Users
        /\ req \in [Workers -> RequestRecord]
    BY AccessAssumption
       DEF IInv, FindItem, FindGrant, At, RequestOK, TypeOK, RequestRecord, Actor
  <2>2. CASE FindItem(w)
    <3>1. CASE Exists(Item(w))
      <4>1. /\ items[Item(w)] = Actor(w) => req'[w].step = "authorized"
            /\ items[Item(w)] # Actor(w) => req'[w].step = "found"
        BY <2>1, <2>2, <3>1 DEF FindItem, RequestRecord
      <4> QED  BY <2>1, <3>1, <4>1, PermissionRequired DEF At
    <3>2. CASE ~Exists(Item(w))
      <4>1. req'[w].step \in {"recording", "idle"}
        BY <2>1, <2>2, <3>2 DEF FindItem, Refuse, GoTo, Report, Answer, Idle, RequestRecord
      <4> QED  BY <2>1, <3>2, <4>1, PermissionRequired DEF At
    <3> QED  BY <3>1, <3>2
  <2>3. CASE FindGrant(w)
    <3>1. CASE Required(req[w].op) \in grants[Item(w)][Actor(w)]
      <4>1. req'[w].step = "authorized"
        BY <2>1, <2>3, <3>1 DEF FindGrant, GoTo, RequestRecord
      <4>2. Exists(Item(w))
        BY <2>1, <3>1 DEF IInv, GrantsReferToRows
      <4> QED  BY <2>1, <3>1, <4>1, <4>2, PermissionRequired DEF At
    <3>2. CASE Required(req[w].op) \notin grants[Item(w)][Actor(w)]
      <4>1. req'[w].step \in {"recording", "idle"}
        BY <2>1, <2>3, <3>2 DEF FindGrant, Refuse, GoTo, Report, Answer, Idle, RequestRecord
      <4>2. Exists(Item(w)) => items[Item(w)] # Actor(w)
        BY <2>3 DEF FindGrant, FoundOK, IInv, IdsOK, Knows, At, Exists
      <4> QED  BY <2>1, <3>2, <4>1, <4>2, PermissionRequired DEF At
    <3> QED  BY <3>1, <3>2
  <2> QED  BY <2>2, <2>3
<1>2. IInv /\ FoundOK /\ [Next]_vars => [Step]_vars
  BY <1>1
<1> QED  BY <1>2, FoundInvariance, PTL DEF Spec, DecisionsAreCurrent

\* Who creates an item did so before, or has just been given a new id.
LEMMA CreatorsArrive ==
  ASSUME TypeOK, RequestOK, [Next]_vars, NEW v \in Workers, Creating(v)'
  PROVE  req'[v] = req[v] \/ req'[v].media \notin ids
<1>1. CASE req' = req
  BY <1>1
<1>2. ASSUME NEW w \in Workers, RequestStep(w)
      PROVE  req'[v] = req[v] \/ req'[v].media \notin ids
  <2>1. CASE v # w
    BY <1>2, <2>1, RequestMoves, MoveTyped
  <2>2. CASE v = w /\ ArriveCreate(w)
    <3>1. PICK s \in Sessions, m \in Media \ ids :
            req' = [req EXCEPT ![w] = [Idle EXCEPT !.step = "arrived", !.op = "create",
                                                   !.session = s, !.media = m]]
      BY <2>2, Zenon DEF ArriveCreate
    <3> QED  BY <2>2, <3>1 DEF Idle, TypeOK
  <2>3. CASE v = w /\ Arrive(w)
    BY <2>3 DEF Arrive, Creating, At, Idle, TypeOK
  <2>4. CASE v = w /\ FindItem(w)
    BY <2>4 DEF FindItem, Refuse, GoTo, Report, Answer, Idle, Creating, At, TypeOK
  <2>5. CASE v = w /\ ~Arrive(w) /\ ~ArriveCreate(w) /\ ~FindItem(w)
    BY <1>2, <2>5, KnowledgeStep
  <2> QED  BY <2>1, <2>2, <2>3, <2>4, <2>5
<1> QED  BY <1>1, <1>2 DEF Next, vars, SetActive, DeleteUser

\* Items change by CreateItem and Delete, the ids by ArriveCreate.
LEMMA ItemSteps ==
  ASSUME [Next]_vars
  PROVE  /\ ids \subseteq ids'
         /\ \/ items' = items
            \/ \E w \in Workers : CreateItem(w) \/ Delete(w)
<1>1. ASSUME NEW w \in Workers, RequestStep(w)
      PROVE  /\ ids \subseteq ids'
             /\ items' = items \/ CreateItem(w) \/ Delete(w)
  BY <1>1, TableSteps DEF Quiet, ArriveCreate, CreateItem, Delete, SaveGrant, DeleteGrant,
                          Record, Stream, tables
<1> QED  BY <1>1 DEF Next, vars, tables, SetActive, DeleteUser

\* An item is deleted once and for all; until then it has one owner.
THEOREM DeletionSafety == Spec => DeletionIsFinal
<1> DEFINE Final(m) == /\ Exists(m) => items'[m] = items[m] \/ Gone(m)'
                       /\ Gone(m)   => Gone(m)'
           Step == \A m \in Media : Final(m)
<1>1. IInv /\ [Next]_vars => Step
  <2> SUFFICES ASSUME IInv, [Next]_vars, NEW m \in Media PROVE Final(m)
    OBVIOUS
  <2> USE DEF IInv
  <2>1. /\ \A w \in Workers : Creating(w) => Item(w) # m
        /\ m \in ids
        /\ ~Exists(m)'
        => Gone(m)'
    <3> SUFFICES ASSUME \A w \in Workers : Creating(w) => Item(w) # m, m \in ids,
                        NEW w \in Workers, Creating(w)'
                 PROVE  req'[w].media # m
      BY ItemSteps DEF Gone, Creating, At, Item
    <3> QED  BY CreatorsArrive DEF Creating, At, Item
  <2>2. Exists(m) => /\ m \in ids
                     /\ \A w \in Workers : Creating(w) => Item(w) # m
    BY DEF TypeOK, IdsOK, Exists, Item
  <2>3. Gone(m) => /\ m \in ids /\ ~Exists(m)
                   /\ \A w \in Workers : Creating(w) => Item(w) # m
    BY DEF Gone, Creating
  <2>4. CASE items' = items
    BY <2>1, <2>3, <2>4 DEF Exists
  <2>5. ASSUME NEW w \in Workers, CreateItem(w) PROVE Final(m)
    <3>1. Creating(w) /\ (Item(w) # m => items'[m] = items[m])
      BY <2>5 DEF CreateItem, Creating, TypeOK
    <3> QED  BY <2>1, <2>2, <2>3, <3>1 DEF Exists
  <2>6. ASSUME NEW w \in Workers, Delete(w) PROVE Final(m)
    <3>1. items'[m] = items[m] \/ items'[m] = None
      BY <2>6 DEF Delete, TypeOK
    <3> QED  BY <2>1, <2>2, <2>3, <3>1 DEF Exists
  <2> QED  BY <2>4, <2>5, <2>6, ItemSteps
<1>2. IInv /\ [Next]_vars => [Step]_vars
  BY <1>1
<1> QED  BY <1>2, Invariance, PTL DEF Spec, DeletionIsFinal
=============================================================================
