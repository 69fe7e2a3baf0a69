----------------------------- MODULE Consoles ------------------------------
(***************************************************************************)
(* One interactive console: mediaarchive-admin, listing the users or the   *)
(* audit events, or mediaarchive, listing the media.  It keeps a bearer    *)
(* token and the position of a listing between commands; meanwhile other   *)
(* users change the rows, sessions expire, the role of the operator is     *)
(* taken away, calls fail before or after they took effect, and the        *)
(* program is interrupted or killed.                                       *)
(*                                                                         *)
(* A behaviour follows one of the three listings, chosen in Init.  All     *)
(* sessions are of one account.  Left out: commands and prompts that       *)
(* change neither state nor database, what a form asks before its call,    *)
(* and the columns of a row that no listing filters by.                    *)
(***************************************************************************)
EXTENDS Directory

CONSTANTS
  Tables,       \* tables to choose from: functions from Ids to time and kind
  Searches,     \* filters the operator asks for
  DefaultLimit, \* of a user listing after a deletion
  Tokens        \* sessions the server may create

ASSUME ConsoleAssumption ==
  /\ Tables \subseteq [Ids -> [at : Times, kind : Kinds]]
  /\ Searches \subseteq {f \in Filters : ValidFilter(f)}
  /\ DefaultLimit \in Limits
  /\ None \notin Tokens /\ None \notin Ids

VARIABLES
  listing,      \* the directory this console lists
  table,        \* time and kind of each row
  present,      \* rows that are in the table and, of media, discoverable
  gone,         \* users deleted for good
  sessions,     \* session -> "unused", "live" or "ended"
  lost,         \* sessions whose answer, or whose logout, was lost
  admin,        \* whether the account has the administrator role
  interrupted,  \* SIGINT (os.Interrupt) canceled the context of run
  killed,       \* the session the program was killed with, or None
  console,      \* the console's step, its session and what it works on
  view,         \* pageStarted, its limit, filter and nextCursor
  history,      \* what the listing since its first page has shown
  refused       \* rows of the last page, if the client refused it

server == <<listing, table, present, gone, sessions, lost, admin, interrupted, killed>>
shown  == <<view, history, refused>>
vars   == <<server, console, shown>>

\* "verifying": logged in, but the account is not yet looked at.
\* "confirming": a user is to be deleted once its name is typed.
Steps == {"prompt", "verifying", "revoking", "confirming", "closed"}

NoView    == [started |-> FALSE, filter |-> NoFilter, limit |-> DefaultLimit, cursor |-> None]
NoHistory == [rows |-> {}, stable |-> {}, repeated |-> FALSE]

Row(i) == [id |-> i, at |-> table[i].at, kind |-> table[i].kind]

AdminProgram  == listing # "media"
Authenticated == console.token # None
AtPrompt      == console.step = "prompt"

TypeOK ==
  /\ listing     \in Listings
  /\ table       \in Tables
  /\ present     \subseteq Ids
  /\ gone        \subseteq Ids \ present
  /\ sessions    \in [Tokens -> {"unused", "live", "ended"}]
  /\ lost        \subseteq Tokens
  /\ admin       \in BOOLEAN
  /\ interrupted \in BOOLEAN
  /\ killed      \in Tokens \union {None}
  /\ console     \in [step : Steps, token : Tokens \union {None},
                      candidate : Tokens \union {None}, target : Ids \union {None}]
  /\ view        \in [started : BOOLEAN, filter : Filters, limit : Limits,
                      cursor : Cursors \union {None}]
  /\ history     \in [rows : SUBSET Ids, stable : SUBSET Ids, repeated : BOOLEAN]
  /\ refused     \subseteq Rows
  /\ console.candidate # None <=> console.step \in {"verifying", "revoking"}
  /\ console.target # None <=> console.step = "confirming"
  /\ killed # None => console.step = "closed"
  /\ view.started => Authenticated

Init ==
  /\ listing     \in Listings
  /\ table       \in Tables
  /\ present     \in SUBSET Ids
  /\ gone        = {}
  /\ sessions    = [t \in Tokens |-> "unused"]
  /\ lost        = {}
  /\ admin       = TRUE
  /\ interrupted = FALSE
  /\ killed      = None
  /\ console     = [step |-> "prompt", token |-> None, candidate |-> None, target |-> None]
  /\ view        = NoView
  /\ history     = NoHistory
  /\ refused     = {}

-----------------------------------------------------------------------------
(* The session.  A call with the context of run is not made once that      *)
(* context is canceled.                                                    *)

End(t)    == sessions' = [sessions EXCEPT ![t] = "ended"]
GoTo(step) == console' = [console EXCEPT !.step = step]

\* The answer may be lost on its way, and the session with it.
Login(t) ==
  /\ AtPrompt /\ ~Authenticated /\ ~interrupted
  /\ sessions[t] = "unused"
  /\ sessions' = [sessions EXCEPT ![t] = "live"]
  /\ \/ /\ console' = [console EXCEPT !.step = "verifying", !.candidate = t]
        /\ UNCHANGED lost
     \/ lost' = lost \union {t} /\ UNCHANGED console
  /\ UNCHANGED <<listing, table, present, gone, admin, interrupted, killed, shown>>

\* CurrentUser answered.  The user console starts without a listing.
Verify ==
  /\ console.step = "verifying" /\ ~interrupted
  /\ sessions[console.candidate] = "live"
  /\ AdminProgram => admin
  /\ console' = [console EXCEPT !.step = "prompt", !.token = console.candidate,
                                !.candidate = None]
  /\ IF AdminProgram THEN UNCHANGED <<view, history>> ELSE view' = NoView /\ history' = NoHistory
  /\ UNCHANGED <<server, refused>>

\* It failed, or the user is not an administrator.
Reject ==
  /\ console.step = "verifying"
  /\ GoTo("revoking")
  /\ UNCHANGED <<server, shown>>

\* Fault: the session is revoked with the context of run.
RevokeRejectedInterrupted ==
  /\ console.step = "revoking"
  /\ IF interrupted THEN UNCHANGED <<sessions, lost>>
     ELSE \/ End(console.candidate) /\ UNCHANGED lost
          \/ lost' = lost \union {console.candidate} /\ UNCHANGED sessions
  /\ console' = [console EXCEPT !.step = "prompt", !.candidate = None]
  /\ UNCHANGED <<listing, table, present, gone, admin, interrupted, killed, shown>>

\* With a context of its own, and regardless of the outcome.
RevokeRejected ==
  /\ console.step = "revoking"
  /\ \/ End(console.candidate) /\ UNCHANGED lost
     \/ lost' = lost \union {console.candidate} /\ UNCHANGED sessions
  /\ console' = [console EXCEPT !.step = "prompt", !.candidate = None]
  /\ UNCHANGED <<listing, table, present, gone, admin, interrupted, killed, shown>>

\* Fault: the listing is kept for the next session.
ClearTokenOnly(step) ==
  /\ console' = [console EXCEPT !.step = step, !.token = None]
  /\ UNCHANGED <<view, history>>

\* clearSession, which leaves the limit of the user listing as it is.
Clear(step) ==
  /\ console' = [console EXCEPT !.step = step, !.token = None]
  /\ view' = [NoView EXCEPT !.limit = IF listing = "users" THEN view.limit ELSE DefaultLimit]
  /\ history' = NoHistory

\* A logout that fails, before or after it took effect, keeps the session.
Logout ==
  /\ AtPrompt /\ Authenticated /\ ~interrupted
  /\ \/ End(console.token) /\ Clear("prompt")
     \/ End(console.token) /\ UNCHANGED <<console, view, history>>
  /\ UNCHANGED <<listing, table, present, gone, lost, admin, interrupted, killed, refused>>

\* With a context of its own, and regardless of the outcome.
LogoutOnExit ==
  /\ \/ End(console.token) /\ UNCHANGED lost
     \/ lost' = lost \union {console.token} /\ UNCHANGED sessions
  /\ Clear("closed")

\* exit, end of input or an interrupted prompt.
Exit ==
  /\ AtPrompt
  /\ IF Authenticated THEN LogoutOnExit
     ELSE GoTo("closed") /\ UNCHANGED <<sessions, lost, view, history>>
  /\ UNCHANGED <<listing, table, present, gone, admin, interrupted, killed, refused>>

\* Ends every session of the account; so does one whose answer is lost.
ChangePassword ==
  /\ AtPrompt /\ Authenticated /\ ~interrupted
  /\ sessions[console.token] = "live"
  /\ sessions' = [t \in Tokens |-> IF sessions[t] = "live" THEN "ended" ELSE sessions[t]]
  /\ Clear("prompt") \/ UNCHANGED <<console, view, history>>
  /\ UNCHANGED <<listing, table, present, gone, lost, admin, interrupted, killed, refused>>

-----------------------------------------------------------------------------
(* The listing.                                                            *)

Permitted == sessions[console.token] = "live" /\ (AdminProgram => admin)
Ready     == AtPrompt /\ Authenticated

\* ListEvents stores the event of its own access before it reads; an event
\* beyond Ids is left out.
Recorded ==
  IF listing = "audit" /\ present # Ids
  THEN {present \union {i} : i \in Ids \ present}
  ELSE {present}

\* A page the console takes, the first of a listing or one that continues it.
Accept(page, filter, limit, cursor) ==
  LET ids == {r.id : r \in page.rows}
  IN  /\ view' = [started |-> TRUE, filter |-> filter, limit |-> limit,
                  cursor |-> page.cursor]
      /\ history' = IF cursor = None
           THEN [rows |-> ids, repeated |-> FALSE,
                 stable |-> {i \in present' : Matches(filter, Row(i))}]
           ELSE [history EXCEPT !.rows = @ \union ids,
                                !.repeated = @ \/ history.rows \intersect ids # {}]
      /\ refused' = {}

\* No page is taken; unloaded is the view that is left.
Refuse(page, unloaded) ==
  /\ view' = unloaded
  /\ history' = IF unloaded.started THEN history ELSE NoHistory
  /\ refused' = page

\* One call of the directory: answered and accepted, answered and refused by
\* the client, or failed before or after the server's part of it.
Load(filter, limit, cursor, unloaded) ==
  LET served == ~interrupted /\ Permitted /\ Fits(listing, cursor, filter, limit)
  IN  /\ \/ /\ served
            /\ \E now \in Recorded :
                 LET page == Page(listing, {Row(i) : i \in now}, filter, cursor, limit)
                 IN  /\ present' = now
                     /\ IF Usable(listing, page, limit)
                          THEN Accept(page, filter, limit, cursor)
                          ELSE Refuse(page.rows, unloaded)
         \/ /\ present' \in {present} \union (IF served THEN Recorded ELSE {})
            /\ Refuse({}, unloaded)
      /\ UNCHANGED <<listing, table, gone, sessions, lost, admin, interrupted, killed, console>>

\* A user listing that fails is not started, and keeps its cursor.
StartUserList(limit) ==
  /\ Ready /\ listing = "users"
  /\ Load(NoFilter, limit, None, [view EXCEPT !.started = FALSE, !.limit = limit])

\* Fault: the filter is stored before its first page is loaded, as the limit
\* of a user listing is.
StartAuditListStored(filter, limit) ==
  /\ Ready /\ listing = "audit"
  /\ Load(filter, limit, None, [view EXCEPT !.filter = filter, !.limit = limit])

\* An audit listing that fails leaves the one before it as it was.
StartAuditList(filter, limit) ==
  /\ Ready /\ listing = "audit"
  /\ Load(filter, limit, None, view)

\* So does a media listing or search, which asks for no times.
StartMediaPage(filter, limit) ==
  /\ Ready /\ listing = "media"
  /\ filter.from = None /\ filter.to = None
  /\ Load(filter, limit, None, view)

NextPage ==
  /\ Ready /\ view.started /\ view.cursor # None
  /\ Load(view.filter, view.limit, view.cursor, view)

FirstPage ==
  /\ Ready /\ view.started
  /\ Load(view.filter, view.limit, None, view)

-----------------------------------------------------------------------------
(* Users that this console creates and deletes.                            *)

CreateUser(i) ==
  /\ Ready /\ ~interrupted /\ listing = "users" /\ Permitted
  /\ i \notin present \union gone
  /\ present' = present \union {i}
  /\ UNCHANGED <<listing, table, gone, sessions, lost, admin, interrupted, killed, console, shown>>

\* Reads the user whose name is to be typed.
SelectUser(i) ==
  /\ Ready /\ ~interrupted /\ listing = "users" /\ Permitted
  /\ i \in present
  /\ console' = [console EXCEPT !.step = "confirming", !.target = i]
  /\ UNCHANGED <<server, shown>>

\* An empty line, end of input, an interrupt or a call that failed.
KeepUser ==
  /\ console.step = "confirming"
  /\ console' = [console EXCEPT !.step = "prompt", !.target = None]
  /\ UNCHANGED <<server, shown>>

\* A row another user removes.
Vanish(i) ==
  /\ present' = present \ {i}
  /\ gone' = IF listing = "users" THEN gone \union {i} ELSE gone

\* The user selected, whatever has become of its name; then the listing has
\* to be started again, unless the answer was lost.
DeleteUser ==
  /\ console.step = "confirming" /\ ~interrupted /\ Permitted
  /\ console.target \in present
  /\ Vanish(console.target)
  /\ console' = [console EXCEPT !.step = "prompt", !.target = None]
  /\ \/ view' = NoView /\ history' = NoHistory
     \/ UNCHANGED view /\ history' = [history EXCEPT !.stable = @ \ {console.target}]
  /\ UNCHANGED <<listing, table, sessions, lost, admin, interrupted, killed, refused>>

-----------------------------------------------------------------------------
(* Everybody else.                                                         *)

\* A user is created, an event stored, an item created or granted.
Appear(i) ==
  /\ i \notin present \union gone
  /\ present' = present \union {i}
  /\ UNCHANGED <<listing, table, gone, sessions, lost, admin, interrupted, killed, console, shown>>

\* A user is deleted, an item deleted, hidden or changed; never an event.
Disappear(i) ==
  /\ listing # "audit" /\ i \in present
  /\ Vanish(i)
  /\ history' = [history EXCEPT !.stable = @ \ {i}]
  /\ UNCHANGED <<listing, table, sessions, lost, admin, interrupted, killed, console, view, refused>>

Expire(t) ==
  /\ sessions[t] = "live"
  /\ End(t)
  /\ UNCHANGED <<listing, table, present, gone, lost, admin, interrupted, killed, console, shown>>

SetRole ==
  /\ AdminProgram
  /\ admin' = ~admin
  /\ UNCHANGED <<listing, table, present, gone, sessions, lost, interrupted, killed, console, shown>>

Interrupt ==
  /\ ~interrupted
  /\ interrupted' = TRUE
  /\ UNCHANGED <<listing, table, present, gone, sessions, lost, admin, killed, console, shown>>

\* SIGTERM, which the programs do not handle, SIGKILL or a crash: nothing is
\* logged out, and the server keeps the session until it expires.
Kill ==
  /\ killed'  = IF Authenticated THEN console.token ELSE console.candidate
  /\ console' = [step |-> "closed", token |-> None, candidate |-> None, target |-> None]
  /\ view'    = NoView
  /\ history' = NoHistory
  /\ UNCHANGED <<listing, table, present, gone, sessions, lost, admin, interrupted, refused>>

\* Nobody looks once the program has ended.
Environment ==
  /\ console.step # "closed"
  /\ \/ \E i \in Ids : Appear(i) \/ Disappear(i)
     \/ \E t \in Tokens : Expire(t)
     \/ SetRole \/ Interrupt \/ Kill

Session ==
  \/ \E t \in Tokens : Login(t)
  \/ Verify \/ Reject \/ RevokeRejected \/ Logout \/ Exit \/ ChangePassword

Listing ==
  \/ \E n \in Limits : StartUserList(n)
  \/ \E f \in Searches, n \in Limits : StartAuditList(f, n) \/ StartMediaPage(f, n)
  \/ NextPage \/ FirstPage

UserChange ==
  \/ \E i \in Ids : CreateUser(i) \/ SelectUser(i)
  \/ KeepUser \/ DeleteUser

Next == Session \/ Listing \/ UserChange \/ Environment

Spec == Init /\ [][Next]_vars

-----------------------------------------------------------------------------
(* Properties.                                                             *)

\* However the rows change between two pages, and whatever calls fail: a row
\* that matched from the first page on is shown once the listing is past its
\* position, and no row twice (docs/milestones/021: stable keyset pages).
ListingIsComplete ==
  view.started =>
    /\ ~history.repeated
    /\ \A i \in history.stable :
         \/ i \in history.rows
         \/ view.cursor # None /\ After(listing, view.cursor, Row(i))

\* The console never continues a listing with the cursor of another: the
\* server accepts the cursor that is kept with the filter that is kept, after
\* failed listings, logouts, password changes and deletions.
CursorsFit ==
  view.started => Fits(listing, view.cursor, view.filter, view.limit)

\* No session stays behind that the console could have ended: a live session
\* is in use, about to be checked or revoked, or the answer that would have
\* named or ended it was lost.  Interrupting the program does not change that;
\* killing it leaves the one session of that moment, never two.
SessionsEnd ==
  \A t \in Tokens : sessions[t] = "live" =>
    t \in lost \union {console.token, console.candidate, killed}

\* The client refuses a page of the server only where the text of two times
\* within one second sorts differently from the times.
PagesAreUsable ==
  refused # {} =>
    \E a, b \in refused : a.at # b.at /\ Second(a.at) = Second(b.at)

\* A filter lets through what docs/audit.md does not say only within the second
\* of one of its own times.
FiltersOffByFraction ==
  view.started => \A i \in history.rows :
    \/ Documented(view.filter, Row(i))
    \/ \E t \in {view.filter.from, view.filter.to} \ {None} :
         t # table[i].at /\ Second(t) = Second(table[i].at)

\* What docs/audit.md says of the times of a filter holds of what is listed.
FiltersAsDocumented ==
  view.started => \A i \in history.rows : Documented(view.filter, Row(i))
=============================================================================
