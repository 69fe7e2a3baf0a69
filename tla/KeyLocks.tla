------------------------------ MODULE KeyLocks ------------------------------
(***************************************************************************)
(* The key lock registry of the content store                              *)
(* (internal/storage/filesystem/key_locks.go): a reference-counted         *)
(* sync.RWMutex per storage key, created when a key is first locked and    *)
(* dropped from the map when its last user is done.                        *)
(*                                                                         *)
(* registry.mutex makes reference and unreference atomic, but nothing      *)
(* holds it between them: a goroutine may take a reference to an object    *)
(* that others are about to release.  The RWMutex is modelled by its       *)
(* contract in Go: a writer first excludes other writers, then waits for   *)
(* the readers that are in; a reader that comes after it waits until it    *)
(* unlocks, and Unlock admits every waiting reader at once.                *)
(***************************************************************************)
EXTENDS Naturals, FiniteSets

CONSTANTS
  Holders,  \* goroutines
  Keys,     \* storage keys
  Objects,  \* referencedKeyLock objects that may be allocated
  None

ASSUME HoldersAssumption == IsFiniteSet(Holders)
ASSUME NoneAssumption == None \notin Objects \union Keys \union Holders

VARIABLES
  locks,       \* registry.locks: key -> object
  references,  \* object -> referencedKeyLock.references
  admitted,    \* object -> the readers its RWMutex has let in
  announced,   \* object -> the writer that excludes the other writers
  call         \* goroutine -> its call of acquireRead or acquireWrite

vars == <<locks, references, admitted, announced, call>>

Modes  == {"read", "write"}
Stages == {"idle", "referenced", "blocked", "held", "released"}

Call == [stage : Stages, mode : Modes, key : Keys \union {None},
         object : Objects \union {None}]

Idle == [stage |-> "idle", mode |-> "read", key |-> None, object |-> None]

TypeOK ==
  /\ locks      \in [Keys -> Objects \union {None}]
  /\ references \in [Objects -> Nat]
  /\ admitted   \in [Objects -> SUBSET Holders]
  /\ announced  \in [Objects -> Holders \union {None}]
  /\ call       \in [Holders -> Call]

At(h, stage, mode) == call[h].stage = stage /\ call[h].mode = mode

Move(h, stage) == call' = [call EXCEPT ![h].stage = stage]

\* The goroutines that have taken a reference to an object.
Users(o) == {h \in Holders : call[h].object = o}

-----------------------------------------------------------------------------
\* Fault: a reader takes part without being counted.
ReferenceUncounted(h, k, mode) ==
  /\ call[h] = Idle
  /\ \E o \in Objects :
       /\ IF locks[k] # None
            THEN o = locks[k] /\ UNCHANGED references
            ELSE /\ Users(o) = {} /\ \A j \in Keys : locks[j] # o
                 /\ references' = [references EXCEPT ![o] = 1]
       /\ locks' = [locks EXCEPT ![k] = o]
       /\ call'  = [call EXCEPT ![h] = [stage |-> "referenced", mode |-> mode,
                                        key |-> k, object |-> o]]
  /\ UNCHANGED <<admitted, announced>>

\* reference: under registry.mutex.  A new object is one nobody can reach.
Reference(h, k, mode) ==
  /\ call[h] = Idle
  /\ \E o \in Objects :
       /\ IF locks[k] # None
            THEN /\ o = locks[k]
                 /\ references' = [references EXCEPT ![o] = @ + 1]
            ELSE /\ Users(o) = {} /\ \A j \in Keys : locks[j] # o
                 /\ references' = [references EXCEPT ![o] = 1]
       /\ locks' = [locks EXCEPT ![k] = o]
       /\ call'  = [call EXCEPT ![h] = [stage |-> "referenced", mode |-> mode,
                                        key |-> k, object |-> o]]
  /\ UNCHANGED <<admitted, announced>>

\* RLock: in, or waiting for the announced writer to unlock.
RLock(h) ==
  /\ At(h, "referenced", "read")
  /\ LET o == call[h].object
     IN  IF announced[o] = None
           THEN /\ admitted' = [admitted EXCEPT ![o] = @ \union {h}]
                /\ Move(h, "held")
           ELSE Move(h, "blocked") /\ UNCHANGED admitted
  /\ UNCHANGED <<locks, references, announced>>

\* A reader that Unlock has admitted runs again.
Wake(h) ==
  /\ At(h, "blocked", "read")
  /\ h \in admitted[call[h].object]
  /\ Move(h, "held")
  /\ UNCHANGED <<locks, references, admitted, announced>>

\* Lock: exclude other writers ...
Announce(h) ==
  /\ At(h, "referenced", "write")
  /\ announced[call[h].object] = None
  /\ announced' = [announced EXCEPT ![call[h].object] = h]
  /\ Move(h, "blocked")
  /\ UNCHANGED <<locks, references, admitted>>

\* ... then wait for the readers that are in.
Lock(h) ==
  /\ At(h, "blocked", "write")
  /\ admitted[call[h].object] = {}
  /\ Move(h, "held")
  /\ UNCHANGED <<locks, references, admitted, announced>>

RUnlock(h) ==
  /\ At(h, "held", "read")
  /\ admitted' = [admitted EXCEPT ![call[h].object] = @ \ {h}]
  /\ Move(h, "released")
  /\ UNCHANGED <<locks, references, announced>>

\* Fault: the waiting readers are left waiting.
UnlockSilently(h) ==
  /\ At(h, "held", "write")
  /\ announced' = [announced EXCEPT ![call[h].object] = None]
  /\ Move(h, "released")
  /\ UNCHANGED <<locks, references, admitted>>

Unlock(h) ==
  /\ At(h, "held", "write")
  /\ LET o == call[h].object
     IN  /\ announced' = [announced EXCEPT ![o] = None]
         /\ admitted'  = [admitted EXCEPT ![o] =
                            {g \in Users(o) : At(g, "blocked", "read")}]
  /\ Move(h, "released")
  /\ UNCHANGED <<locks, references>>

\* Fault: the object is dropped while others wait for it.
UnreferenceEagerly(h) ==
  /\ call[h].stage = "released"
  /\ references' = [references EXCEPT ![call[h].object] = @ - 1]
  /\ locks'      = [locks EXCEPT ![call[h].key] = None]
  /\ call'       = [call EXCEPT ![h] = Idle]
  /\ UNCHANGED <<admitted, announced>>

\* unreference: under registry.mutex.
Unreference(h) ==
  /\ call[h].stage = "released"
  /\ LET o == call[h].object
     IN  /\ references' = [references EXCEPT ![o] = @ - 1]
         /\ locks' = IF references[o] = 1
                       THEN [locks EXCEPT ![call[h].key] = None]
                       ELSE locks
  /\ call' = [call EXCEPT ![h] = Idle]
  /\ UNCHANGED <<admitted, announced>>

-----------------------------------------------------------------------------
Init ==
  /\ locks      = [k \in Keys |-> None]
  /\ references = [o \in Objects |-> 0]
  /\ admitted   = [o \in Objects |-> {}]
  /\ announced  = [o \in Objects |-> None]
  /\ call       = [h \in Holders |-> Idle]

Next ==
  \E h \in Holders :
    \/ \E k \in Keys, mode \in Modes : Reference(h, k, mode)
    \/ RLock(h)
    \/ Wake(h)
    \/ Announce(h)
    \/ Lock(h)
    \/ RUnlock(h)
    \/ Unlock(h)
    \/ Unreference(h)

\* A goroutine runs on, and its handler closes what it opened (the server's
\* write timeout ends a stream).  Announce competes with other writers for a
\* mutex; sync.Mutex hands over to a waiter that starves.
Fairness ==
  \A h \in Holders :
    /\ WF_vars(RLock(h))
    /\ WF_vars(Wake(h))
    /\ SF_vars(Announce(h))
    /\ WF_vars(Lock(h))
    /\ WF_vars(RUnlock(h))
    /\ WF_vars(Unlock(h))
    /\ WF_vars(Unreference(h))

Spec == Init /\ [][Next]_vars

FairSpec == Spec /\ Fairness

-----------------------------------------------------------------------------
(* Properties.                                                             *)

\* The registry implements a shared or exclusive lock per key, although the
\* lock object of a key is dropped and allocated again between its users.
Held(k, mode) == {h \in Holders : At(h, "held", mode) /\ call[h].key = k}

Guard == INSTANCE KeyGuard
  WITH reading <- [k \in Keys |-> Held(k, "read")],
       writing <- [k \in Keys |-> Held(k, "write")]

GuardPromised == Guard!Spec

\* A key has a lock object exactly while a goroutine has a reference to it,
\* and all of them to the same one: the map does not grow with the archive,
\* and an object still in use is never dropped.
RegistryMatchesUse ==
  /\ \A h \in Holders :
       call[h].stage # "idle" => locks[call[h].key] = call[h].object
  /\ \A k \in Keys :
       locks[k] # None => references[locks[k]] = Cardinality(Users(locks[k]))
                          /\ Users(locks[k]) # {}

\* Nobody waits for a goroutine that waits: a call under way can take its next
\* step, or another call on the same object can.
CanRun(h) ==
  \/ At(h, "referenced", "read")
  \/ At(h, "referenced", "write") /\ announced[call[h].object] = None
  \/ At(h, "blocked", "read")     /\ h \in admitted[call[h].object]
  \/ At(h, "blocked", "write")    /\ admitted[call[h].object] = {}
  \/ call[h].stage \in {"held", "released"}

NoDeadlock ==
  \A h \in Holders : call[h].stage # "idle" =>
    \E g \in Users(call[h].object) : CanRun(g)

\* A writer that has announced itself is not overtaken: until it has had the
\* lock, no reader is let in to the object.
WritersAreNotOvertaken ==
  [][\A o \in Objects : announced[o] # None =>
       \/ admitted'[o] \subseteq admitted[o]
       \/ At(announced[o], "held", "write")]_vars

\* A reader waits for one writer only: when that one is done the reader is in,
\* and no later writer keeps it out again.
ReadersWaitOnce ==
  [][\A h \in Holders : At(h, "blocked", "read") =>
       LET o == call[h].object
       IN  announced'[o] = announced[o] \/ h \in admitted'[o]]_vars

\* The map has no more keys than there are calls under way, however many keys
\* were locked before.
RegistryIsBounded ==
  Cardinality({k \in Keys : locks[k] # None})
    <= Cardinality({h \in Holders : call[h] # Idle})

\* Every caller gets its lock: readers that keep coming do not starve a
\* writer, and writers do not starve each other or a reader.
EveryCallGranted ==
  \A h \in Holders : call[h].stage = "referenced" ~> call[h].stage = "held"
=============================================================================
