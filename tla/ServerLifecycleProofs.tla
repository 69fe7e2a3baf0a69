----------------------- MODULE ServerLifecycleProofs -----------------------
(***************************************************************************)
(* The schema is migrated once and as a whole, one version at a time, and  *)
(* requests are cut off for a cause, for any number of servers, bootstrap  *)
(* runs, requests, migrations and starts.                                  *)
(***************************************************************************)
EXTENDS ServerLifecycle, TLAPS

\* Shutdown closes the listener before run can return.
ListenerOK ==
  \A s \in Servers : listener = s => drain[s] = "none"

\* A process has come to a version by way of all before it, and only the
\* process with the write lock is about to record one.
ProgressOK ==
  \A p \in Processes :
    /\ proc[p].step \in Migrating =>
         \A v \in Versions : v < proc[p].next => v \in recorded
    /\ proc[p].step \in {"begun", "executed"} => proc[p].next \in Versions
    /\ At(p, "executed") => proc[p].next \notin recorded

IInv == TypeOK /\ ListenerOK /\ ProgressOK /\ MigratedOnce /\ SchemaIsComplete

-----------------------------------------------------------------------------
(* Types.                                                                  *)

LEMMA InitTyped == Init => TypeOK
BY LifecycleAssumption DEF Init, TypeOK, Processes, Versions, Steps, RequestSteps

\* A server that is to return has given up the address, a process that
\* commits has not come to the end of the migrations.
LEMMA StepTyped ==
  ASSUME TypeOK, ListenerOK, ProgressOK, [Next]_vars
  PROVE  TypeOK'
<1> USE LifecycleAssumption DEF TypeOK, Processes
<1>1. ASSUME NEW p \in Processes, Start(p) PROVE TypeOK'
  BY <1>1 DEF Start, At, schema, Steps, Running
<1>2. ASSUME NEW p \in Processes, Main(p) PROVE TypeOK'
  <2>1. CASE Check(p)
    BY <2>1 DEF Check, At, schema, serving, Steps
  <2>2. CASE Execute(p)
    BY <2>2 DEF Execute, At, GoTo, serving, Steps
  <2>3. CASE Commit(p)
    <3>1. proc[p].next \in 1..Last
      BY <2>3 DEF ProgressOK, Commit, At, Versions
    <3>2. executed' \in [Versions -> Nat]
      <4>1. executed' = [executed EXCEPT ![proc[p].next] = executed[proc[p].next] + 1]
        BY <2>3, Zenon DEF Commit
      <4>2. \A v \in Versions : executed[v] + 1 \in Nat
        OBVIOUS
      <4> QED  BY <3>1, <4>1, <4>2 DEF Versions
    <3>3. recorded' \subseteq Versions
      BY <2>3, <3>1 DEF Commit, Versions
    <3>4. proc' \in [Processes -> [step : Steps, next : 1..(Last + 1)]]
      <4>1. proc' = [proc EXCEPT ![p] = [step |-> "checking", next |-> proc[p].next + 1]]
        BY <2>3 DEF Commit
      <4>2. proc[p].next + 1 \in 1..(Last + 1)
        BY <3>1
      <4> QED  BY <4>1, <4>2 DEF Steps
    <3> QED  BY <2>3, <3>2, <3>3, <3>4 DEF Commit, At, serving
  <2>4. CASE Fail(p)
    BY <2>4 DEF Fail, At, GoTo, Free, Migrating, serving, Steps
  <2>5. CASE Migrated(p)
    BY <2>5 DEF Migrated, At, GoTo, schema, serving, Steps
  <2>6. CASE Bootstrap(p)
    BY <2>6 DEF Bootstrap, At, GoTo, schema, serving, Steps
  <2>7. CASE Listen(p)
    BY <2>7 DEF Listen, At, GoTo, schema, Steps
  <2>8. CASE NotListening(p)
    BY <2>8 DEF NotListening, At, GoTo, schema, serving, Steps
  <2>9. CASE Return(p)
    BY <2>9 DEF Return, At, GoTo, schema, serving, Steps, ListenerOK
  <2>10. CASE Close(p)
    BY <2>10 DEF Close, At, GoTo, schema, serving, Steps
  <2>11. CASE Exit(p)
    BY <2>11 DEF Exit, At, GoTo, Cut, Active, schema, Steps, RequestSteps
  <2> QED  BY <1>2, <2>1, <2>2, <2>3, <2>4, <2>5, <2>6, <2>7, <2>8, <2>9, <2>10, <2>11 DEF Main
<1>3. ASSUME NEW p \in Processes, Signal(p) PROVE TypeOK'
  BY <1>3 DEF Signal, schema, serving, At
<1>4. ASSUME NEW p \in Processes, Shutdown(p) PROVE TypeOK'
  BY <1>4 DEF Shutdown, Free, schema, At
<1>5. ASSUME NEW p \in Processes, Expire(p) PROVE TypeOK'
  BY <1>5 DEF Expire, schema, At
<1>6. ASSUME NEW p \in Processes, Crash(p) PROVE TypeOK'
  BY <1>6 DEF Crash, Running, At, GoTo, Cut, Active, Free, Steps, RequestSteps
<1>7. ASSUME NEW r \in Requests, Arrive(r) PROVE TypeOK'
  BY <1>7 DEF Arrive, schema, RequestSteps, At
<1>8. ASSUME NEW r \in Requests, Finish(r) PROVE TypeOK'
  BY <1>8 DEF Finish, schema, RequestSteps, At
<1>9. CASE UNCHANGED vars
  BY <1>9 DEF vars, schema, serving, At
<1> QED  BY <1>1, <1>2, <1>3, <1>4, <1>5, <1>6, <1>7, <1>8, <1>9 DEF Next

-----------------------------------------------------------------------------
(* The rest of the invariant.                                              *)

LEMMA ListenerStep ==
  ASSUME TypeOK, ListenerOK, [Next]_vars
  PROVE  ListenerOK'
<1> USE DEF TypeOK, ListenerOK, Processes
<1>1. ASSUME NEW p \in Processes, Start(p) PROVE ListenerOK'
  BY <1>1 DEF Start, At
<1>2. ASSUME NEW p \in Processes, Main(p) PROVE ListenerOK'
  <2>1. CASE Listen(p)
    BY <2>1 DEF Listen
  <2>2. CASE ~Listen(p)
    BY <1>2, <2>2 DEF Main, Check, Execute, Commit, Fail, Migrated, Bootstrap,
                      NotListening, Return, Close, Exit, serving
  <2> QED  BY <2>1, <2>2
<1>3. ASSUME NEW p \in Processes, Signal(p) \/ Shutdown(p) \/ Expire(p) \/ Crash(p)
      PROVE  ListenerOK'
  BY <1>3, LifecycleAssumption DEF Signal, Shutdown, Expire, Crash, Free, serving
<1>4. ASSUME NEW r \in Requests, Arrive(r) \/ Finish(r) PROVE ListenerOK'
  BY <1>4 DEF Arrive, Finish
<1>5. CASE UNCHANGED vars
  BY <1>5 DEF vars, serving
<1> QED  BY <1>1, <1>2, <1>3, <1>4, <1>5 DEF Next

\* Only a process at its start or in its migration moves to another version.
LEMMA ProgressStep ==
  ASSUME TypeOK, ProgressOK, [Next]_vars
  PROVE  ProgressOK'
<1> USE LifecycleAssumption DEF TypeOK, ProgressOK, Processes, Migrating, At
<1>1. ASSUME NEW p \in Processes, Start(p) PROVE ProgressOK'
  BY <1>1 DEF Start, schema, Versions
<1>2. ASSUME NEW p \in Processes, Main(p) PROVE ProgressOK'
  <2>1. CASE Check(p)
    BY <2>1 DEF Check, schema, Versions
  <2>2. CASE Execute(p)
    BY <2>2 DEF Execute, GoTo
  <2>3. CASE Commit(p)
    BY <2>3 DEF Commit, Versions
  <2>4. CASE Fail(p)
    BY <2>4 DEF Fail, GoTo
  <2>5. CASE Migrated(p) \/ Bootstrap(p) \/ Listen(p) \/ NotListening(p)
             \/ Return(p) \/ Close(p) \/ Exit(p)
    BY <2>5 DEF Migrated, Bootstrap, Listen, NotListening, Return, Close, Exit, GoTo, schema
  <2> QED  BY <1>2, <2>1, <2>2, <2>3, <2>4, <2>5 DEF Main
<1>3. ASSUME NEW p \in Processes, Crash(p) PROVE ProgressOK'
  BY <1>3 DEF Crash, GoTo
<1>4. CASE UNCHANGED <<schema, proc>>
  BY <1>4 DEF schema
<1>5. ASSUME NEW p \in Processes, Signal(p) \/ Shutdown(p) \/ Expire(p)
      PROVE  UNCHANGED <<schema, proc>>
  BY <1>5 DEF Signal, Shutdown, Expire
<1>6. ASSUME NEW r \in Requests, Arrive(r) \/ Finish(r)
      PROVE  UNCHANGED <<schema, proc>>
  BY <1>6 DEF Arrive, Finish
<1> QED  BY <1>1, <1>2, <1>3, <1>4, <1>5, <1>6 DEF Next, vars

\* Scripts and versions change in Commit alone.
LEMMA MigrationStep ==
  ASSUME TypeOK, ProgressOK, MigratedOnce, [Next]_vars
  PROVE  MigratedOnce' /\ recorded \subseteq recorded'
<1>1. ASSUME NEW p \in Processes, Commit(p)
      PROVE  MigratedOnce' /\ recorded \subseteq recorded'
  <2> DEFINE n == proc[p].next
  <2>1. /\ n \in 1..Last /\ n \notin recorded
        /\ \A v \in Versions : v < n => v \in recorded
        /\ executed \in [Versions -> Nat]
    BY <1>1 DEF Commit, ProgressOK, TypeOK, Migrating, At, Versions
  <2>2. /\ executed' = [executed EXCEPT ![n] = executed[n] + 1]
        /\ recorded' = recorded \union {n}
    BY <1>1, Zenon DEF Commit
  <2> HIDE DEF n
  <2>3. \A v \in Versions : executed'[v] = IF v \in recorded' THEN 1 ELSE 0
    BY <2>1, <2>2 DEF MigratedOnce, Versions
  <2>4. \A v \in Versions : v \in recorded' => 1..v \subseteq recorded'
    BY <2>1, <2>2, LifecycleAssumption DEF MigratedOnce, Versions
  <2> QED  BY <2>2, <2>3, <2>4 DEF MigratedOnce
<1>2. CASE UNCHANGED <<executed, recorded>>
  BY <1>2 DEF MigratedOnce
<1>3. (\E p \in Processes : Commit(p)) \/ UNCHANGED <<executed, recorded>>
  BY DEF Next, vars, schema, Start, Main, Check, Execute, Fail, Migrated, Bootstrap,
         Listen, NotListening, Return, Close, Exit, Signal, Shutdown, Expire,
         Crash, Arrive, Finish
<1> QED  BY <1>1, <1>2, <1>3

\* A process that goes on has come past the last version.
LEMMA SchemaStep ==
  ASSUME TypeOK, TypeOK', ProgressOK, SchemaIsComplete,
         recorded \subseteq recorded', [Next]_vars
  PROVE  SchemaIsComplete'
<1> DEFINE Uses(p) == proc[p].step \in {"ready", "serving"} \/ Active(p) # {}
<1>1. CASE recorded = Versions
  BY <1>1 DEF TypeOK, SchemaIsComplete
<1>2. ASSUME NEW p \in Processes, Migrated(p) PROVE recorded = Versions
  <2>1. \A v \in Versions : v < proc[p].next
    BY <1>2, LifecycleAssumption DEF Migrated, Versions, TypeOK
  <2> QED  BY <1>2, <2>1 DEF Migrated, At, ProgressOK, Migrating, TypeOK
<1>3. ASSUME \A p \in Processes : ~Uses(p), ~(\E p \in Processes : Migrated(p)),
             NEW q \in Processes
      PROVE  ~Uses(q)'
  <2> USE DEF TypeOK, Processes, Active, At, GoTo
  <2>1. ASSUME NEW p \in Processes, Start(p) PROVE ~Uses(q)'
    BY <1>3, <2>1 DEF Start
  <2>2. ASSUME NEW p \in Processes, Main(p) PROVE ~Uses(q)'
    <3>1. CASE Check(p) \/ Execute(p) \/ Commit(p) \/ Fail(p)
      BY <1>3, <3>1 DEF Check, Execute, Commit, Fail, serving
    <3>2. CASE Bootstrap(p) \/ NotListening(p) \/ Return(p) \/ Close(p)
      BY <1>3, <3>2 DEF Bootstrap, NotListening, Return, Close, serving
    <3>3. ~Listen(p)
      BY <1>3 DEF Listen
    <3>4. CASE Exit(p)
      BY <1>3, <3>4 DEF Exit, Cut
    <3> QED  BY <1>3, <2>2, <3>1, <3>2, <3>3, <3>4 DEF Main
  <2>3. ASSUME NEW p \in Processes, Crash(p) PROVE ~Uses(q)'
    BY <1>3, <2>3 DEF Crash, Cut
  <2>4. ASSUME NEW p \in Processes, Signal(p) \/ Shutdown(p) \/ Expire(p)
        PROVE  ~Uses(q)'
    BY <1>3, <2>4 DEF Signal, Shutdown, Expire, serving
  <2>5. ASSUME NEW r \in Requests PROVE ~Arrive(r)
    BY <1>3 DEF Arrive
  <2>6. ASSUME NEW r \in Requests, Finish(r) PROVE ~Uses(q)'
    BY <1>3, <2>6 DEF Finish
  <2>7. CASE UNCHANGED vars
    BY <1>3, <2>7 DEF vars, serving
  <2> QED  BY <2>1, <2>2, <2>3, <2>4, <2>5, <2>6, <2>7 DEF Next
<1>4. CASE recorded # Versions
  BY <1>2, <1>3, <1>4 DEF SchemaIsComplete
<1> QED  BY <1>1, <1>4

-----------------------------------------------------------------------------
(* Theorems.                                                               *)

THEOREM Invariance == Spec => []IInv
<1>1. Init => IInv
  <2> SUFFICES ASSUME Init PROVE IInv
    OBVIOUS
  <2>1. TypeOK
    BY InitTyped
  <2>2. ListenerOK /\ ProgressOK
    BY LifecycleAssumption DEF Init, ListenerOK, ProgressOK, Processes, Migrating, At
  <2>3. MigratedOnce /\ SchemaIsComplete
    BY DEF Init, MigratedOnce, SchemaIsComplete, Active
  <2> QED  BY <2>1, <2>2, <2>3 DEF IInv
<1>2. IInv /\ [Next]_vars => IInv'
  <2> SUFFICES ASSUME IInv, [Next]_vars PROVE IInv'
    OBVIOUS
  <2>1. TypeOK' /\ ListenerOK' /\ ProgressOK'
    BY StepTyped, ListenerStep, ProgressStep DEF IInv
  <2>2. MigratedOnce' /\ recorded \subseteq recorded'
    BY MigrationStep DEF IInv
  <2>3. SchemaIsComplete'
    BY <2>1, <2>2, SchemaStep DEF IInv
  <2> QED  BY <2>1, <2>2, <2>3 DEF IInv
<1> QED  BY <1>1, <1>2, PTL DEF Spec

\* Processes, locks and requests have their types in every reachable state.
THEOREM TypeCorrect == Spec => []TypeOK
BY Invariance, PTL DEF IInv

\* Every migration is applied once and in order, whoever migrates at once.
THEOREM MigrationSafety == Spec => []MigratedOnce
BY Invariance, PTL DEF IInv

\* No server and no bootstrap run works on a part of the schema.
THEOREM SchemaSafety == Spec => []SchemaIsComplete
BY Invariance, PTL DEF IInv

\* However many processes migrate, each commit takes the schema from all the
\* versions before one to all the versions up to it.
THEOREM MigrationProgress == Spec => MigrationsAdvance
<1> DEFINE Advance(v) == /\ recorded = 1..(v - 1) /\ recorded' = 1..v
                         /\ executed' = [executed EXCEPT ![v] = 1]
           Step == recorded' = recorded \/ \E v \in Versions : Advance(v)
<1>1. IInv /\ [Next]_vars => Step
  <2> SUFFICES ASSUME IInv, [Next]_vars PROVE Step
    OBVIOUS
  <2>1. ASSUME NEW p \in Processes, Commit(p) PROVE \E v \in Versions : Advance(v)
    <3> DEFINE n == proc[p].next
    <3>1. /\ n \in 1..Last /\ n \notin recorded /\ recorded \subseteq 1..Last
          /\ \A v \in 1..Last : v < n => v \in recorded
      BY <2>1 DEF IInv, Commit, ProgressOK, TypeOK, Migrating, At, Versions
    <3>2. /\ executed' = [executed EXCEPT ![n] = executed[n] + 1]
          /\ recorded' = recorded \union {n}
      BY <2>1, Zenon DEF Commit
    <3>3. executed[n] = 0
      BY <3>1 DEF IInv, MigratedOnce, Versions
    <3> HIDE DEF n
    <3>4. \A v \in recorded : ~(n < v)
      <4> SUFFICES ASSUME NEW v \in recorded, n < v PROVE FALSE
        OBVIOUS
      <4>1. 1..v \subseteq recorded
        BY <3>1 DEF IInv, MigratedOnce, Versions
      <4> QED  BY <3>1, <4>1
    <3>5. recorded = 1..(n - 1)
      <4>1. Last \in Nat /\ n \in Nat /\ n <= Last
        BY <3>1, LifecycleAssumption
      <4>2. recorded \subseteq 1..(n - 1)
        <5> SUFFICES ASSUME NEW v \in recorded PROVE v \in 1..(n - 1)
          OBVIOUS
        <5>1. v \in 1..Last /\ v # n /\ ~(n < v)
          BY <3>1, <3>4
        <5> QED  BY <4>1, <5>1
      <4>3. 1..(n - 1) \subseteq recorded
        BY <3>1, <4>1
      <4> QED  BY <4>2, <4>3
    <3>6. recorded' = 1..n
      BY <3>1, <3>2, <3>5
    <3>7. Advance(n)
      BY <3>2, <3>3, <3>5, <3>6
    <3> QED  BY <3>1, <3>7 DEF Versions
  <2>2. CASE ~(\E p \in Processes : Commit(p))
    BY <2>2 DEF Next, vars, schema, Start, Main, Check, Execute, Fail, Migrated, Bootstrap,
                Listen, NotListening, Return, Close, Exit, Signal, Shutdown, Expire,
                Crash, Arrive, Finish
  <2> QED  BY <2>1, <2>2
<1>2. IInv /\ [Next]_vars => [Step]_vars
  BY <1>1
<1> QED  BY <1>2, Invariance, PTL DEF Spec, MigrationsAdvance

-----------------------------------------------------------------------------
(* Requests end with a cause.                                              *)

\* Shutdown is called for a signal only, in the same process.
SignalOK ==
  \A p \in Processes : drain[p] # "none" => p \in signaled

\* A request is active in a server that serves or was told to stop.
ServedOK ==
  \A r \in Requests : request[r].step = "active" =>
    LET s == request[r].server
    IN  /\ s \in Servers
        /\ proc[s].step \in {"serving", "returned", "closed"}
        /\ proc[s].step # "serving" => drain[s] # "none"

LEMMA SignalStep ==
  ASSUME TypeOK, SignalOK, [Next]_vars
  PROVE  SignalOK'
<1> USE DEF TypeOK, SignalOK, Processes
<1>1. ASSUME NEW p \in Processes, Start(p) PROVE SignalOK'
  BY <1>1 DEF Start
<1>2. ASSUME NEW p \in Processes, Signal(p) \/ Shutdown(p) \/ Expire(p) PROVE SignalOK'
  BY <1>2 DEF Signal, Shutdown, Expire, serving
<1>3. CASE UNCHANGED <<drain, signaled>>
  BY <1>3
<1>4. ASSUME NEW p \in Processes, Main(p) \/ Crash(p) PROVE UNCHANGED <<drain, signaled>>
  BY <1>4 DEF Main, Check, Execute, Commit, Fail, Migrated, Bootstrap, Listen,
              NotListening, Return, Close, Exit, Crash, serving
<1>5. ASSUME NEW r \in Requests, Arrive(r) \/ Finish(r) PROVE UNCHANGED <<drain, signaled>>
  BY <1>5 DEF Arrive, Finish
<1> QED  BY <1>1, <1>2, <1>3, <1>4, <1>5 DEF Next, vars, serving

\* A server leaves its requests only through Return, after Shutdown has begun,
\* and Exit and Crash, which leave none active.
LEMMA ServedStep ==
  ASSUME TypeOK, ServedOK, [Next]_vars
  PROVE  ServedOK'
<1> USE LifecycleAssumption DEF TypeOK, ServedOK, Processes, At, GoTo
<1>1. ASSUME NEW p \in Processes, Start(p) PROVE ServedOK'
  BY <1>1 DEF Start
<1>2. ASSUME NEW p \in Processes, Main(p) PROVE ServedOK'
  <2>1. CASE Check(p) \/ Execute(p) \/ Commit(p) \/ Fail(p) \/ Migrated(p)
    BY <2>1 DEF Check, Execute, Commit, Fail, Migrated, Migrating, serving
  <2>2. CASE Bootstrap(p) \/ Listen(p) \/ NotListening(p)
    BY <2>2 DEF Bootstrap, Listen, NotListening, serving
  <2>3. CASE Return(p) \/ Close(p)
    BY <2>3 DEF Return, Close, serving
  <2>4. CASE Exit(p)
    BY <2>4 DEF Exit, Cut, Active
  <2> QED  BY <1>2, <2>1, <2>2, <2>3, <2>4 DEF Main
<1>3. ASSUME NEW p \in Processes, Crash(p) PROVE ServedOK'
  BY <1>3 DEF Crash, Cut, Active
<1>4. ASSUME NEW p \in Processes, Signal(p) \/ Shutdown(p) \/ Expire(p) PROVE ServedOK'
  BY <1>4 DEF Signal, Shutdown, Expire, serving
<1>5. ASSUME NEW r \in Requests, Arrive(r) PROVE ServedOK'
  BY <1>5 DEF Arrive
<1>6. ASSUME NEW r \in Requests, Finish(r) PROVE ServedOK'
  BY <1>6 DEF Finish
<1>7. CASE UNCHANGED vars
  BY <1>7 DEF vars, serving
<1> QED  BY <1>1, <1>2, <1>3, <1>4, <1>5, <1>6, <1>7 DEF Next

LEMMA ServedInvariance == Spec => [](TypeOK /\ SignalOK /\ ServedOK)
<1>1. Init => SignalOK /\ ServedOK
  BY DEF Init, SignalOK, ServedOK
<1>2. TypeOK /\ SignalOK /\ ServedOK /\ [Next]_vars => SignalOK' /\ ServedOK'
  BY SignalStep, ServedStep
<1> QED  BY <1>1, <1>2, TypeCorrect, PTL DEF Spec

\* A request stays with its server and ends with an answer, unless that server
\* crashes or was told to stop: no other process, start or error cuts it off.
THEOREM RequestSafety == Spec => RequestsEndWithCause
<1> DEFINE Ends(r) == LET s == request[r].server
                      IN  /\ request'[r].server = s
                          /\ \/ request'[r].step \in {"active", "answered"}
                             \/ s \in signaled
                             \/ Crash(s)
           Step == \A r \in Requests : request[r].step = "active" => Ends(r)
<1>1. TypeOK /\ SignalOK /\ ServedOK /\ [Next]_vars => Step
  <2> SUFFICES ASSUME TypeOK, SignalOK, ServedOK, [Next]_vars,
                      NEW r \in Requests, request[r].step = "active"
               PROVE  Ends(r)
    OBVIOUS
  <2> USE DEF TypeOK
  <2>1. /\ request[r].server \in Processes
        /\ At(request[r].server, "closed") => request[r].server \in signaled
    BY DEF ServedOK, SignalOK, Processes, At
  <2>2. CASE request' = request
    BY <2>2
  <2>3. ASSUME NEW p \in Processes, Exit(p) PROVE Ends(r)
    BY <2>1, <2>3 DEF Exit, Cut, Active, RequestSteps
  <2>4. ASSUME NEW p \in Processes, Crash(p) PROVE Ends(r)
    <3>1. CASE request[r].server = p
      <4>1. request'[r].server = p
        BY <2>4, <3>1 DEF Crash, Cut, Active
      <4> QED  BY <2>4, <3>1, <4>1
    <3>2. CASE request[r].server # p
      <4>1. request'[r] = request[r]
        BY <2>4, <3>2 DEF Crash, Cut, Active
      <4> QED  BY <4>1
    <3> QED  BY <3>1, <3>2
  <2>5. ASSUME NEW q \in Requests, Arrive(q) PROVE Ends(r)
    BY <2>5 DEF Arrive
  <2>6. ASSUME NEW q \in Requests, Finish(q) PROVE Ends(r)
    BY <2>1, <2>6 DEF Finish
  <2>7. ASSUME NEW p \in Processes,
               Start(p) \/ Signal(p) \/ Shutdown(p) \/ Expire(p) \/ (Main(p) /\ ~Exit(p))
        PROVE  request' = request
    BY <2>7 DEF Start, Signal, Shutdown, Expire, Main, Check, Execute, Commit, Fail,
                Migrated, Bootstrap, Listen, NotListening, Return, Close, serving
  <2> QED  BY <2>2, <2>3, <2>4, <2>5, <2>6, <2>7 DEF Next, Main, vars, serving
<1>2. TypeOK /\ SignalOK /\ ServedOK /\ [Next]_vars => [Step]_vars
  BY <1>1
<1> QED  BY <1>2, ServedInvariance, PTL DEF Spec, RequestsEndWithCause
=============================================================================
