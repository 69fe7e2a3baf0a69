-------------------------- MODULE ServerLifecycle --------------------------
(***************************************************************************)
(* Processes that share one database: servers (cmd/server), which migrate  *)
(* it, serve and shut down on a signal, and runs of mediaarchive-admin     *)
(* bootstrap, which migrate it as well.  Processes crash and are started   *)
(* again, and a server may be started before the last one has ended.       *)
(*                                                                         *)
(* Left out: flags and the wiring of the handler, which fail before they   *)
(* change anything, and what a request does.                               *)
(***************************************************************************)
EXTENDS Naturals

CONSTANTS
  Servers, Tools,  \* processes; a tool is a bootstrap run
  Requests,
  Last,            \* the number of embedded migrations
  MaxStarts,       \* bound on the number of process starts
  None

Processes == Servers \union Tools
Versions  == 1..Last

ASSUME LifecycleAssumption ==
  /\ Servers \intersect Tools = {}
  /\ Last \in Nat \ {0}
  /\ MaxStarts \in Nat
  /\ None \notin Processes

VARIABLES
  executed,  \* how often the script of a version was committed
  recorded,  \* schema_migrations
  writer,    \* the process whose transaction holds SQLite's write lock
  proc,      \* process -> its step and the version it has come to
  signaled,  \* processes whose context was canceled by SIGINT or SIGTERM
  drain,     \* process -> how far its call of Shutdown is
  listener,  \* the process that listens on the address
  request,   \* request -> its server and its step
  starts     \* the number of starts so far

schema  == <<executed, recorded, writer>>
serving == <<drain, listener, request>>
vars    == <<schema, proc, signaled, serving, starts>>

\* "begun": a transaction without a lock; "executed": its script has run and
\* its version is inserted; "returned": run returns, "closed": and has closed
\* the database.
Steps == {"down", "checking", "begun", "executed", "ready", "serving", "returned", "closed"}

\* "abandoned": cut off by a process that did not wait for it.
RequestSteps == {"none", "active", "answered", "failed", "cut", "abandoned"}

Migrating == {"checking", "begun", "executed"}

TypeOK ==
  /\ executed \in [Versions -> Nat]
  /\ recorded \subseteq Versions
  /\ writer   \in Processes \union {None}
  /\ proc     \in [Processes -> [step : Steps, next : 1..(Last + 1)]]
  /\ signaled \subseteq Processes
  /\ drain    \in [Processes -> {"none", "draining", "expired"}]
  /\ listener \in Servers \union {None}
  /\ request  \in [Requests -> [server : Servers \union {None}, step : RequestSteps]]
  /\ starts   \in 0..MaxStarts
  /\ \A p \in Processes : writer = p <=> proc[p].step = "executed"
  /\ \A s \in Servers : listener = s => proc[s].step = "serving"

At(p, step)   == proc[p].step = step
GoTo(p, step) == proc' = [proc EXCEPT ![p].step = step]
Active(s)     == {r \in Requests : request[r].server = s /\ request[r].step = "active"}
Running(p)    == ~At(p, "down")
Free(lock, p) == IF lock = p THEN None ELSE lock

Init ==
  /\ executed = [v \in Versions |-> 0]
  /\ recorded = {}
  /\ writer   = None
  /\ proc     = [p \in Processes |-> [step |-> "down", next |-> 1]]
  /\ signaled = {}
  /\ drain    = [p \in Processes |-> "none"]
  /\ listener = None
  /\ request  = [r \in Requests |-> [server |-> None, step |-> "none"]]
  /\ starts   = 0

-----------------------------------------------------------------------------
(* Start and migration.                                                    *)

\* Opens the database and creates schema_migrations unless it exists.
Start(p) ==
  /\ At(p, "down") /\ starts < MaxStarts
  /\ proc' = [proc EXCEPT ![p] = [step |-> "checking", next |-> 1]]
  /\ drain' = [drain EXCEPT ![p] = "none"]
  /\ signaled' = signaled \ {p}
  /\ starts' = starts + 1
  /\ UNCHANGED <<schema, listener, request>>

\* Asks for the version outside of a transaction.
Check(p) ==
  /\ At(p, "checking") /\ p \notin signaled
  /\ proc[p].next <= Last
  /\ proc' = IF proc[p].next \in recorded THEN [proc EXCEPT ![p].next = @ + 1]
                                          ELSE [proc EXCEPT ![p].step = "begun"]
  /\ UNCHANGED <<schema, signaled, serving, starts>>

\* Fault: scripts that may run again (IF NOT EXISTS, OR IGNORE).
ExecuteAgain(p) ==
  /\ At(p, "begun") /\ p \notin signaled
  /\ writer = None
  /\ writer' = p
  /\ GoTo(p, "executed")
  /\ UNCHANGED <<executed, recorded, signaled, serving, starts>>

\* The script and the row of its version, both of which fail in a database
\* that has them.  The transaction waits for the lock at its first write.
Execute(p) ==
  /\ At(p, "begun") /\ p \notin signaled
  /\ writer = None
  /\ proc[p].next \notin recorded
  /\ writer' = p
  /\ GoTo(p, "executed")
  /\ UNCHANGED <<executed, recorded, signaled, serving, starts>>

Commit(p) ==
  /\ At(p, "executed") /\ p \notin signaled
  /\ LET v == proc[p].next
     IN  /\ executed' = [executed EXCEPT ![v] = @ + 1]
         /\ recorded' = recorded \union {v}
         /\ proc' = [proc EXCEPT ![p] = [step |-> "checking", next |-> v + 1]]
  /\ writer' = None
  /\ UNCHANGED <<signaled, serving, starts>>

\* Fault: the transaction is not rolled back.
FailHolding(p) ==
  /\ proc[p].step \in Migrating
  /\ GoTo(p, "returned")
  /\ UNCHANGED <<schema, signaled, serving, starts>>

\* Any error: a canceled context, a lock that is not given up within
\* busy_timeout, a version another process has applied since Check.
Fail(p) ==
  /\ proc[p].step \in Migrating
  /\ GoTo(p, "returned")
  /\ writer' = Free(writer, p)
  /\ UNCHANGED <<executed, recorded, signaled, serving, starts>>

\* Fault: the last migration is left out.
MigratedEarly(p) ==
  /\ At(p, "checking") /\ proc[p].next >= Last
  /\ GoTo(p, "ready")
  /\ UNCHANGED <<schema, signaled, serving, starts>>

Migrated(p) ==
  /\ At(p, "checking") /\ proc[p].next > Last
  /\ GoTo(p, "ready")
  /\ UNCHANGED <<schema, signaled, serving, starts>>

-----------------------------------------------------------------------------
(* Serving and shutting down.                                              *)

\* A bootstrap run has created its administrator, or was refused.
Bootstrap(p) ==
  /\ p \in Tools /\ At(p, "ready")
  /\ GoTo(p, "returned")
  /\ UNCHANGED <<schema, signaled, serving, starts>>

\* ListenAndServe.
Listen(p) ==
  /\ p \in Servers /\ At(p, "ready")
  /\ drain[p] = "none" /\ listener = None
  /\ listener' = p
  /\ GoTo(p, "serving")
  /\ UNCHANGED <<schema, signaled, drain, request, starts>>

\* The address is in use, or Shutdown was called before.
NotListening(p) ==
  /\ p \in Servers /\ At(p, "ready")
  /\ listener # None \/ drain[p] # "none"
  /\ GoTo(p, "returned")
  /\ UNCHANGED <<schema, signaled, serving, starts>>

Arrive(r) ==
  /\ listener # None /\ request[r].step = "none"
  /\ request' = [request EXCEPT ![r] = [server |-> listener, step |-> "active"]]
  /\ UNCHANGED <<schema, proc, signaled, drain, listener, starts>>

\* An answer; an error once the database is closed under the request.
Finish(r) ==
  /\ request[r].step = "active"
  /\ \/ request' = [request EXCEPT ![r].step = "answered"]
     \/ /\ At(request[r].server, "closed")
        /\ request' = [request EXCEPT ![r].step = "failed"]
  /\ UNCHANGED <<schema, proc, signaled, drain, listener, starts>>

Signal(p) ==
  /\ Running(p) /\ p \notin signaled
  /\ signaled' = signaled \union {p}
  /\ UNCHANGED <<schema, proc, serving, starts>>

\* The goroutine that waits for the signal: Shutdown closes the listener and
\* waits for the active requests.
Shutdown(p) ==
  /\ p \in signaled \intersect Servers
  /\ proc[p].step \in {"ready", "serving"} /\ drain[p] = "none"
  /\ drain' = [drain EXCEPT ![p] = "draining"]
  /\ listener' = Free(listener, p)
  /\ UNCHANGED <<schema, proc, signaled, request, starts>>

\* Its ten seconds are over.
Expire(p) ==
  /\ drain[p] = "draining" /\ Active(p) # {} /\ Running(p)
  /\ drain' = [drain EXCEPT ![p] = "expired"]
  /\ UNCHANGED <<schema, proc, signaled, listener, request, starts>>

\* Fault: run waits for the requests, whatever time they take.
ReturnDrained(p) ==
  /\ At(p, "serving") /\ drain[p] # "none"
  /\ Active(p) = {}
  /\ GoTo(p, "returned")
  /\ UNCHANGED <<schema, signaled, serving, starts>>

\* ListenAndServe returns ErrServerClosed as soon as Shutdown has begun.
Return(p) ==
  /\ At(p, "serving") /\ drain[p] # "none"
  /\ GoTo(p, "returned")
  /\ UNCHANGED <<schema, signaled, serving, starts>>

Close(p) ==
  /\ At(p, "returned")
  /\ GoTo(p, "closed")
  /\ UNCHANGED <<schema, signaled, serving, starts>>

Cut(p, step) ==
  request' = [r \in Requests |->
    IF r \in Active(p) THEN [request[r] EXCEPT !.step = step] ELSE request[r]]

\* The end of main is the end of the process.
Exit(p) ==
  /\ At(p, "closed")
  /\ GoTo(p, "down")
  /\ Cut(p, IF drain[p] = "draining" THEN "abandoned" ELSE "cut")
  /\ UNCHANGED <<schema, signaled, drain, listener, starts>>

Crash(p) ==
  /\ Running(p)
  /\ GoTo(p, "down")
  /\ Cut(p, "cut")
  /\ writer' = Free(writer, p)
  /\ listener' = Free(listener, p)
  /\ UNCHANGED <<executed, recorded, signaled, drain, starts>>

\* The main goroutine of a process.
Main(p) ==
  \/ Check(p) \/ Execute(p) \/ Commit(p) \/ Fail(p) \/ Migrated(p)
  \/ Bootstrap(p) \/ Listen(p) \/ NotListening(p)
  \/ Return(p) \/ Close(p) \/ Exit(p)

Next ==
  \/ \E p \in Processes : Start(p) \/ Main(p) \/ Signal(p) \/ Shutdown(p) \/ Expire(p) \/ Crash(p)
  \/ \E r \in Requests : Arrive(r) \/ Finish(r)

\* Goroutines are scheduled; a database call ends, with an error if the lock
\* is held for longer than busy_timeout.  A request need not end.
Fairness == \A p \in Processes : WF_vars(Main(p)) /\ WF_vars(Shutdown(p))

Spec == Init /\ [][Next]_vars /\ Fairness

-----------------------------------------------------------------------------
(* Properties.                                                             *)

\* Whatever processes migrate at once, fail or crash: the scripts are applied
\* in the order of their versions, each exactly once, and with its row.
MigratedOnce ==
  \A v \in Versions :
    /\ executed[v] = IF v \in recorded THEN 1 ELSE 0
    /\ v \in recorded => 1..v \subseteq recorded

\* A process that goes on after Migrate, and every server of a request, has
\* the whole schema, also when its start raced that of another process.
SchemaIsComplete ==
  \A p \in Processes :
    proc[p].step \in {"ready", "serving"} \/ Active(p) # {} => recorded = Versions

\* A signal ends the process from every step, during its migration, before
\* it listens, and although a request never ends.
StopsOnSignal ==
  \A p \in Processes : p \in signaled ~> At(p, "down")

\* Processes that migrate at once advance the schema as one would that migrates
\* alone: from a version to the next.
MigrationsAdvance ==
  [][recorded' = recorded \/
     \E v \in Versions :
       /\ recorded = 1..(v - 1) /\ recorded' = 1..v
       /\ executed' = [executed EXCEPT ![v] = 1]]_vars

\* A request is answered by the server that took it, unless that server crashes
\* or was told to stop.
RequestsEndWithCause ==
  [][\A r \in Requests : request[r].step = "active" =>
       LET s == request[r].server
       IN  /\ request'[r].server = s
           /\ \/ request'[r].step \in {"active", "answered"}
              \/ s \in signaled
              \/ Crash(s)]_vars

\* "so active requests get an opportunity to finish before the process exits"
\* (cmd/server/main.go): only the deadline of Shutdown or a crash cuts off a
\* request.
RequestsAreDrained ==
  \A r \in Requests : request[r].step # "abandoned"
=============================================================================
