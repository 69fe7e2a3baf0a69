---------------------------- MODULE MediaAccess ----------------------------
(***************************************************************************)
(* Who may do what with a medium: owners, grants and the access events of  *)
(* managed content (internal/application/media over media_items,           *)
(* media_grants and content_audit_markers).                                *)
(*                                                                         *)
(* A worker is the goroutine of one HTTP request, an action one database   *)
(* transaction or one call of the content store.  A request is authorized  *)
(* by up to two queries and acts in a later transaction; meanwhile other   *)
(* requests change the item, the grants and the users.                     *)
(*                                                                         *)
(* Left to chance: the role of an actor, every failure of the database and *)
(* of the content store (ManagedContent), and the size of a content.  Left *)
(* out: the events of grants and deletions, stored in their transactions,  *)
(* and the text of the answers.                                            *)
(***************************************************************************)
EXTENDS ContentRange

CONSTANTS
  Workers,    \* concurrent requests
  Users, Media,
  Sessions, SessionOf,  \* bearer tokens and whose they are
  Masks,      \* permission sets that requests grant
  MaxSize,    \* bound on the size of a content
  MaxRequests,  \* bound on the number of requests
  None

Permissions == {"discover", "read", "download", "update", "delete", "share"}

ASSUME AccessAssumption ==
  /\ SessionOf \in [Sessions -> Users]
  /\ Masks \subseteq (SUBSET Permissions) \ {{}}
  /\ MaxSize \in 1..MaxInt
  /\ MaxRequests \in Nat
  /\ None \notin Users \union Media \union Sessions

VARIABLES
  users,    \* "active", "inactive" or, for good, "deleted"
  items,    \* media_items: medium -> owner, or None
  ids,      \* the media ids that were generated
  grants,   \* media_grants: medium -> user -> permissions, {} without a row
  markers,  \* content_audit_markers
  events,   \* the number of content events in audit_events, by their key
  req,      \* worker -> its request
  held,     \* worker -> whether its actor was permitted since it arrived
  arrived   \* the number of requests so far

tables == <<users, items, ids, grants>>
audit  == <<markers, events>>
vars   == <<tables, audit, req, held, arrived>>

Operations == {"create", "get", "update", "delete", "content",
               "replace", "revoke", "inspect"}

\* What a content event says of a reading; only a success has no reason.
Success == [outcome |-> "success", reason |-> ""]
Denied  == [outcome |-> "denied", reason |-> "unknown_target"]
Failure(reason) == [outcome |-> "failure", reason |-> reason]

FailureReasons ==
  {"missing_content_location", "missing_managed_file", "operation_failure"}

Results == {Success, Denied} \union {Failure(reason) : reason \in FailureReasons}

\* The primary key of content_audit_markers.
Keys == Sessions \X Media \X Results

Steps == {"idle", "arrived", "found", "authorized", "checked", "opened",
          "streaming", "recording", "served"}

Idle == [step |-> "idle", session |-> None, op |-> "get", media |-> None,
         owner |-> None, target |-> None, mask |-> {}, size |-> 0,
         result |-> Success]

TypeOK ==
  /\ users   \in [Users -> {"active", "inactive", "deleted"}]
  /\ items   \in [Media -> Users \union {None}]
  /\ ids     \subseteq Media
  /\ grants  \in [Media -> [Users -> SUBSET Permissions]]
  /\ markers \subseteq Keys
  /\ events  \in [Keys -> Nat]
  /\ req     \in [Workers ->
       [step : Steps, session : Sessions \union {None}, op : Operations,
        media : Media \union {None}, owner : Users \union {None},
        target : Users \union {None},
        mask : SUBSET Permissions, size : 0..MaxSize, result : Results]]
  /\ held    \in [Workers -> BOOLEAN]
  /\ arrived \in 0..MaxRequests
  /\ \A m \in Media : items[m] # None => m \in ids
  /\ \A w \in Workers :
       /\ req[w].step # "idle" => req[w].session # None
       /\ req[w].step \in {"opened", "streaming"} => req[w].size > 0
       /\ req[w].size > 0 => req[w].step \in {"opened", "streaming", "recording"}

Actor(w)    == SessionOf[req[w].session]
Item(w)     == req[w].media
Exists(m)   == items[m] # None
At(w, step) == req[w].step = step
GoTo(w, step) == req' = [req EXCEPT ![w].step = step]
Answer(w)     == req' = [req EXCEPT ![w] = Idle]
Serve(w)      == req' = [req EXCEPT ![w].step = "served"]

\* A reading that was refused or failed has an event to store before its answer.
Report(w, result) ==
  req' = [req EXCEPT ![w].step = "recording", ![w].result = result]

Sharing == {"replace", "revoke", "inspect"}

\* Fault: whoever may see an item may share it.
RequiredLoose(op) ==
  CASE op = "get"     -> "discover"
    [] op = "content" -> "read"
    [] op \in Sharing -> "discover"
    [] OTHER          -> op

Required(op) ==
  CASE op = "get"     -> "discover"
    [] op = "content" -> "read"
    [] op \in Sharing -> "share"
    [] OTHER          -> op  \* "update" and "delete"

Init ==
  /\ users   = [u \in Users |-> "active"]
  /\ items   \in [Media -> Users \union {None}]
  /\ ids     = {m \in Media : Exists(m)}
  /\ grants  = [m \in Media |-> [u \in Users |-> {}]]
  /\ markers = {}
  /\ events  = [k \in Keys |-> 0]
  /\ req     = [w \in Workers |-> Idle]
  /\ held    = [w \in Workers |-> FALSE]
  /\ arrived = 0

-----------------------------------------------------------------------------
(* Requests and their authorization.                                       *)

\* RequireAuthentication resolved the session and its active user; the handler
\* decoded valid input.
Arrive(w) ==
  \E s \in Sessions, op \in Operations \ {"create"}, m \in Media :
    /\ At(w, "idle") \/ At(w, "served")
    /\ arrived < MaxRequests
    /\ users[SessionOf[s]] = "active"
    /\ \E target \in IF op \in Sharing THEN Users ELSE {None},
          mask \in IF op = "replace" THEN Masks ELSE {{}} :
         req' = [req EXCEPT ![w] =
                   [Idle EXCEPT !.step = "arrived", !.session = s, !.op = op,
                                !.media = m, !.target = target, !.mask = mask]]
    /\ arrived' = arrived + 1
    /\ UNCHANGED <<tables, audit>>

\* mayCreateMedia looks at the role as the session was resolved.
ArriveCreate(w) ==
  \E s \in Sessions, m \in Media \ ids :
    /\ At(w, "idle") \/ At(w, "served")
    /\ arrived < MaxRequests
    /\ users[SessionOf[s]] = "active"
    /\ ids' = ids \union {m}
    /\ req' = [req EXCEPT ![w] = [Idle EXCEPT !.step = "arrived", !.op = "create",
                                              !.session = s, !.media = m]]
    /\ arrived' = arrived + 1
    /\ UNCHANGED <<users, items, grants, audit>>

\* The owner_id of the new row must exist.
CreateItem(w) ==
  /\ At(w, "arrived") /\ req[w].op = "create"
  /\ users[Actor(w)] # "deleted"
  /\ items' = [items EXCEPT ![Item(w)] = Actor(w)]
  /\ Serve(w)
  /\ UNCHANGED <<users, ids, grants, audit, arrived>>

\* ErrMediaNotFound, for a reading with its event.
Refuse(w) == IF req[w].op = "content" THEN Report(w, Denied) ELSE Answer(w)

FindItem(w) ==
  /\ At(w, "arrived") /\ req[w].op # "create"
  /\ IF Exists(Item(w))
       THEN LET owner == items[Item(w)]
                step  == IF owner = Actor(w) THEN "authorized" ELSE "found"
            IN  req' = [req EXCEPT ![w].step = step, ![w].owner = owner]
       ELSE Refuse(w)
  /\ UNCHANGED <<tables, audit, arrived>>

FindGrant(w) ==
  /\ At(w, "found")
  /\ IF Required(req[w].op) \in grants[Item(w)][Actor(w)]
       THEN GoTo(w, "authorized")
       ELSE Refuse(w)
  /\ UNCHANGED <<tables, audit, arrived>>

-----------------------------------------------------------------------------
(* Metadata.                                                               *)

Get(w) ==
  /\ At(w, "authorized") /\ req[w].op = "get"
  /\ Serve(w)
  /\ UNCHANGED <<tables, audit, arrived>>

\* The row keeps its owner.
Update(w) ==
  /\ At(w, "authorized") /\ req[w].op = "update"
  /\ IF Exists(Item(w)) THEN Serve(w) ELSE Answer(w)
  /\ UNCHANGED <<tables, audit, arrived>>

\* Content that is being read cannot be staged for deletion.
InUse(m) == \E w \in Workers : Item(w) = m /\ req[w].size > 0

Delete(w) ==
  LET m == Item(w)
  IN  /\ At(w, "authorized") /\ req[w].op = "delete"
      /\ ~InUse(m)
      /\ IF Exists(m) THEN Serve(w) ELSE Answer(w)
      /\ grants' = [grants EXCEPT ![m] = [u \in Users |-> {}]]
      /\ items'  = [items EXCEPT ![m] = None]
      /\ UNCHANGED <<users, ids, audit, arrived>>

-----------------------------------------------------------------------------
(* Grants: GrantService.                                                   *)

\* ErrOwnerGrant, by the item as it was found.
RefuseOwner(w) ==
  /\ At(w, "authorized") /\ req[w].op \in {"replace", "revoke"}
  /\ req[w].owner = req[w].target
  /\ Answer(w)
  /\ UNCHANGED <<tables, audit, arrived>>

FindGrantee(w) ==
  /\ At(w, "authorized") /\ req[w].op = "replace"
  /\ req[w].owner # req[w].target
  /\ IF users[req[w].target] = "active" THEN GoTo(w, "checked") ELSE Answer(w)
  /\ UNCHANGED <<tables, audit, arrived>>

\* Fault: the foreign keys are not enforced.
SaveGrantUnchecked(w) ==
  /\ At(w, "checked")
  /\ grants' = [grants EXCEPT ![Item(w)][req[w].target] = req[w].mask]
  /\ Serve(w)
  /\ UNCHANGED <<users, items, ids, audit, arrived>>

\* The item and the grantee are checked by the foreign keys of the row.
SaveGrant(w) ==
  /\ At(w, "checked")
  /\ Exists(Item(w)) /\ users[req[w].target] # "deleted"
  /\ grants' = [grants EXCEPT ![Item(w)][req[w].target] = req[w].mask]
  /\ Serve(w)
  /\ UNCHANGED <<users, items, ids, audit, arrived>>

\* ErrGrantNotFound without a row.
DeleteGrant(w) ==
  /\ At(w, "authorized") /\ req[w].op = "revoke"
  /\ req[w].owner # req[w].target
  /\ IF grants[Item(w)][req[w].target] # {} THEN Serve(w) ELSE Answer(w)
  /\ grants' = [grants EXCEPT ![Item(w)][req[w].target] = {}]
  /\ UNCHANGED <<users, items, ids, audit, arrived>>

\* GrantsByMedia, or GrantByUser which needs a row.
ReadGrants(w) ==
  /\ At(w, "authorized") /\ req[w].op = "inspect"
  /\ \/ Serve(w)
     \/ grants[Item(w)][req[w].target] = {} /\ Answer(w)
  /\ UNCHANGED <<tables, audit, arrived>>

-----------------------------------------------------------------------------
(* Managed content and its access events.                                  *)

\* The file is there only with its rows (ManagedContent).  The location may be
\* missing, of an item that was deleted or never uploaded, the file, or a call
\* fails.
OpenContent(w) ==
  /\ At(w, "authorized") /\ req[w].op = "content"
  /\ \/ /\ Exists(Item(w))
        /\ \E size \in 1..MaxSize :
             req' = [req EXCEPT ![w].step = "opened", ![w].size = size]
     \/ \E reason \in FailureReasons : Report(w, Failure(reason))
  /\ UNCHANGED <<tables, audit, arrived>>

\* Fault: the marker may be stored for a session that is gone.
AppendOnceUnreferenced(w, result) ==
  LET key == <<req[w].session, Item(w), result>>
  IN  /\ markers' = markers \union {key}
      /\ events'  = IF key \in markers THEN events
                    ELSE [events EXCEPT ![key] = @ + 1]

\* The foreign key of a marker: its session must exist.
AppendOnce(w, result) ==
  LET key == <<req[w].session, Item(w), result>>
  IN  /\ users[Actor(w)] # "deleted"
      /\ markers' = markers \union {key}
      /\ events'  = IF key \in markers THEN events
                    ELSE [events EXCEPT ![key] = @ + 1]

Record(w) ==
  /\ At(w, "recording")
  /\ AppendOnce(w, req[w].result)
  /\ Answer(w)
  /\ UNCHANGED <<tables, arrived>>

\* 416, without an event.
RefuseRange(w) ==
  /\ At(w, "opened")
  /\ \E header \in Headers : ParseContentRange(header, req[w].size) = Unsatisfiable
  /\ Answer(w)
  /\ UNCHANGED <<tables, audit, arrived>>

\* A first position above zero is sought in the file; a failure is recorded
\* before the file is closed.
FailSeek(w) ==
  /\ At(w, "opened")
  /\ \E header \in Headers :
       LET answer == ParseContentRange(header, req[w].size)
       IN  answer # Unsatisfiable /\ answer.start > 0
  /\ Report(w, Failure("operation_failure"))
  /\ UNCHANGED <<tables, audit, arrived>>

\* Fault: the answer does not wait for the event.
StreamUnrecorded(w) ==
  /\ At(w, "opened")
  /\ AppendOnce(w, Success) \/ UNCHANGED audit
  /\ GoTo(w, "streaming")
  /\ UNCHANGED <<tables, arrived>>

\* RecordSuccessfulAccess comes before the first byte, and before a HEAD answer.
Stream(w) ==
  /\ At(w, "opened")
  /\ \E header \in Headers : ParseContentRange(header, req[w].size) # Unsatisfiable
  /\ AppendOnce(w, Success)
  /\ GoTo(w, "streaming")
  /\ UNCHANGED <<tables, arrived>>

\* Fault: the file is not closed.
CloseNothing(w) ==
  /\ At(w, "streaming")
  /\ GoTo(w, "idle")
  /\ UNCHANGED <<tables, audit, arrived>>

Close(w) ==
  /\ At(w, "streaming")
  /\ Answer(w)
  /\ UNCHANGED <<tables, audit, arrived>>

\* A call returns an error, which rolls its transaction back.
Fail(w) ==
  /\ req[w].step \notin {"idle", "served", "streaming"}
  /\ IF req[w].op = "content" /\ req[w].step \in {"arrived", "found"}
       THEN Report(w, Failure("operation_failure"))
       ELSE Answer(w)
  /\ UNCHANGED <<tables, audit, arrived>>

-----------------------------------------------------------------------------
(* User administration, in one transaction each (Accounts).                *)

SetActive(u, active) ==
  /\ users[u] # "deleted"
  /\ users' = [users EXCEPT ![u] = IF active THEN "active" ELSE "inactive"]
  /\ UNCHANGED <<items, ids, grants, audit, req, arrived>>

\* An owner of media cannot be deleted; sessions cascade to their markers.
DeleteUser(u) ==
  /\ users[u] # "deleted"
  /\ \A m \in Media : items[m] # u
  /\ users' = [users EXCEPT ![u] = "deleted"]
  /\ grants' = [m \in Media |-> [grants[m] EXCEPT ![u] = {}]]
  /\ markers' = {k \in markers : SessionOf[k[1]] # u}
  /\ UNCHANGED <<items, ids, events, req, arrived>>

-----------------------------------------------------------------------------
RequestStep(w) ==
  \/ Arrive(w) \/ ArriveCreate(w) \/ CreateItem(w)
  \/ FindItem(w) \/ FindGrant(w)
  \/ Get(w) \/ Update(w) \/ Delete(w)
  \/ RefuseOwner(w) \/ FindGrantee(w) \/ SaveGrant(w)
  \/ DeleteGrant(w) \/ ReadGrants(w)
  \/ OpenContent(w) \/ Record(w) \/ RefuseRange(w) \/ FailSeek(w)
  \/ Stream(w) \/ Close(w) \/ Fail(w)

\* What the operation needs, by the rows of this moment.
Permitted(w) ==
  \/ req[w].op = "create"
  \/ /\ Exists(Item(w))
     /\ \/ items[Item(w)] = Actor(w)
        \/ CASE req[w].op = "get"     -> "discover" \in grants[Item(w)][Actor(w)]
             [] req[w].op = "content" -> "read"  \in grants[Item(w)][Actor(w)]
             [] req[w].op \in Sharing -> "share" \in grants[Item(w)][Actor(w)]
             [] OTHER -> req[w].op \in grants[Item(w)][Actor(w)]

\* A history of each request, from its arrival to its answer.
Observe ==
  held' = [w \in Workers |->
    IF req'[w].step = "idle" THEN FALSE
    ELSE (req'[w].step # "arrived" /\ held[w]) \/ Permitted(w)']

Next ==
  /\ \/ \E w \in Workers : RequestStep(w)
     \/ \E u \in Users : SetActive(u, TRUE) \/ SetActive(u, FALSE) \/ DeleteUser(u)
  /\ Observe

Spec == Init /\ [][Next]_vars

-----------------------------------------------------------------------------
\* A grant always refers to an item and to a user that exist, and never to the
\* owner of the item: deletions and replacements in flight leave none behind.
GrantsReferToRows ==
  \A m \in Media, u \in Users :
    grants[m][u] # {} => Exists(m) /\ users[u] # "deleted" /\ items[m] # u

\* Nothing is served to an actor who did not have the permission at a moment
\* of the request, although item and grant are read one after the other:
\* what was revoked before a request arrived is out of its reach.
AccessWasGranted ==
  \A w \in Workers : req[w].step \in {"served", "streaming"} => held[w]

\* The two queries of authorizeItem decide as one that reads item and grant at
\* once: for the rows of the moment in which the decision falls, an allowed
\* request is permitted and a refused one is not.
DecisionsAreCurrent ==
  [][\A w \in Workers :
       FindItem(w) \/ FindGrant(w) =>
         CASE At(w, "authorized")' -> Permitted(w)
           [] At(w, "found")'      -> TRUE
           [] OTHER                -> ~Permitted(w)]_vars

\* No row, and no request in flight that would store one.
Gone(m) ==
  /\ m \in ids /\ ~Exists(m)
  /\ \A w \in Workers :
       At(w, "arrived") /\ req[w].op = "create" => Item(w) # m

\* An item keeps its owner until it is deleted, and a deleted item does not
\* come back, whatever requests of it are in flight.
DeletionIsFinal ==
  [][\A m \in Media :
       /\ Exists(m) => items'[m] = items[m] \/ Gone(m)'
       /\ Gone(m)   => Gone(m)']_vars

\* docs/audit.md: one content event per login session, medium, outcome and
\* reason, under concurrent ranges and the deletion of the user and its sessions.
OneEventPerSession ==
  /\ \A k \in Keys : events[k] <= 1
  /\ \A k \in markers : events[k] = 1

\* No byte of a medium leaves without the event of its session.
ContentIsAudited ==
  \A w \in Workers : At(w, "streaming") =>
    events[<<req[w].session, Item(w), Success>>] > 0

\* The bytes sent for a header are exactly those it selects, and none where
\* the code refuses a number it cannot represent; nothing overflows.
RangesAreExact ==
  \A w \in Workers : At(w, "opened") =>
    \A header \in Headers :
      LET size   == req[w].size
          answer == ParseContentRange(header, size)
      IN  IF answer = Unsatisfiable
            THEN \/ Selected(header, size) = {}
                 \/ \E f \in DOMAIN header : f # "form" /\ ~Parses(header[f])
            ELSE /\ answer.length > 0
                 /\ Sent(answer) = Selected(header, size)

\* The typed client accepts the answer to each range it can ask for, unless
\* nothing is selected, and the interval it was sent says which bytes follow.
ClientAcceptsRanges ==
  \A w \in Workers : At(w, "opened") =>
    \A request \in Requests :
      LET answer == ParseContentRange(request, req[w].size)
      IN  Accepts(request, answer, req[w].size)
            <=> Selected(request, req[w].size) # {}
=============================================================================
