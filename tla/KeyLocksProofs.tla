--------------------------- MODULE KeyLocksProofs ---------------------------
(***************************************************************************)
(* KeyLocks implements KeyGuard and keeps its registry in step with its    *)
(* use, for any number of goroutines, keys and lock objects.               *)
(*                                                                         *)
(* That an object is dropped only by its last user rests on counting: the  *)
(* references of a registered object are the goroutines that hold one.     *)
(***************************************************************************)
EXTENDS KeyLocks, FiniteSetTheorems, TLAPS

\* A call under way refers to the object its key is registered with.
CallsOK ==
  \A h \in Holders :
    \/ call[h] = Idle
    \/ /\ call[h].stage # "idle"
       /\ call[h].key \in Keys /\ call[h].object \in Objects
       /\ locks[call[h].key] = call[h].object

\* No two keys share an object.
KeysOK ==
  \A j, k \in Keys : locks[k] # None /\ locks[j] = locks[k] => j = k

CountsOK ==
  \A k \in Keys : locks[k] # None =>
    /\ references[locks[k]] = Cardinality(Users(locks[k]))
    /\ Users(locks[k]) # {}

\* Who is in an RWMutex: readers it has admitted, or the writer it announced.
MutexOK ==
  /\ \A o \in Objects : \A h \in admitted[o] :
       /\ call[h].object = o /\ call[h].mode = "read"
       /\ call[h].stage \in {"blocked", "held"}
  /\ \A o \in Objects : announced[o] # None =>
       /\ call[announced[o]].object = o /\ call[announced[o]].mode = "write"
       /\ call[announced[o]].stage \in {"blocked", "held"}
  /\ \A h \in Holders : At(h, "held", "read") => h \in admitted[call[h].object]
  /\ \A h \in Holders :
       call[h].mode = "write" /\ call[h].stage \in {"blocked", "held"} =>
         announced[call[h].object] = h
  /\ \A h \in Holders : At(h, "held", "write") => admitted[call[h].object] = {}

IInv == TypeOK /\ CallsOK /\ KeysOK /\ CountsOK /\ MutexOK

\* The set of users of an object is finite, whatever the calls do.
LEMMA UsersFinite ==
  ASSUME NEW o
  PROVE  IsFiniteSet(Users(o)) /\ IsFiniteSet(Users(o)')
<1>1. Users(o) \subseteq Holders /\ Users(o)' \subseteq Holders
  BY DEF Users
<1> QED  BY <1>1, HoldersAssumption, FS_Subset

\* A new registry is empty and unused.
LEMMA IInvInit == Init => IInv
  BY NoneAssumption
  DEF Init, IInv, TypeOK, CallsOK, KeysOK, CountsOK, MutexOK, Call, Idle,
      Stages, Modes, At

-----------------------------------------------------------------------------
(* Taking and dropping references.                                         *)

\* A reference to a registered object adds one user to it.
LEMMA ReferenceShared ==
  ASSUME IInv, NEW h \in Holders, NEW k \in Keys, NEW mode \in Modes,
         Reference(h, k, mode), locks[k] # None
  PROVE  IInv'
<1> USE DEF IInv, TypeOK
<1>1. PICK o \in Objects :
        /\ o = locks[k]
        /\ references' = [references EXCEPT ![o] = @ + 1]
        /\ locks' = [locks EXCEPT ![k] = o]
        /\ call' = [call EXCEPT ![h] = [stage |-> "referenced", mode |-> mode,
                                        key |-> k, object |-> o]]
  BY DEF Reference
<1>2. locks' = locks /\ UNCHANGED <<admitted, announced>> /\ call[h] = Idle
  BY <1>1 DEF Reference
<1>3. TypeOK'
  BY <1>1, <1>2 DEF Call, Stages
<1>4. CallsOK' /\ KeysOK'
  BY <1>1, <1>2 DEF CallsOK, KeysOK
<1>5. Users(o)' = Users(o) \union {h} /\ h \notin Users(o)
  BY <1>1, <1>2, NoneAssumption DEF Users, Idle
<1>6. \A p \in Objects \ {o} : Users(p)' = Users(p)
  BY <1>1, <1>2, NoneAssumption DEF Users, Idle
<1>7. Cardinality(Users(o)') = Cardinality(Users(o)) + 1
  BY <1>5, UsersFinite, FS_AddElement
<1>8. CountsOK'
  BY <1>1, <1>2, <1>5, <1>6, <1>7 DEF CountsOK
<1>9. MutexOK'
  BY <1>1, <1>2, NoneAssumption DEF MutexOK, At, Idle
<1> QED  BY <1>3, <1>4, <1>8, <1>9

\* A new object has one user and nobody in its mutex.
LEMMA ReferenceFresh ==
  ASSUME IInv, NEW h \in Holders, NEW k \in Keys, NEW mode \in Modes,
         Reference(h, k, mode), locks[k] = None
  PROVE  IInv'
<1> USE DEF IInv, TypeOK
<1>1. PICK o \in Objects :
        /\ Users(o) = {} /\ \A j \in Keys : locks[j] # o
        /\ references' = [references EXCEPT ![o] = 1]
        /\ locks' = [locks EXCEPT ![k] = o]
        /\ call' = [call EXCEPT ![h] = [stage |-> "referenced", mode |-> mode,
                                        key |-> k, object |-> o]]
  BY DEF Reference
<1>2. UNCHANGED <<admitted, announced>> /\ call[h] = Idle
  BY DEF Reference
<1>3. TypeOK'
  BY <1>1, <1>2 DEF Call, Stages
<1>4. CallsOK'
  BY <1>1, <1>2, NoneAssumption DEF CallsOK
<1>5. KeysOK'
  BY <1>1 DEF KeysOK
<1>6. Users(o)' = {h}
  BY <1>1, <1>2 DEF Users
<1>7. \A p \in Objects \ {o} : Users(p)' = Users(p)
  BY <1>1, <1>2, NoneAssumption DEF Users, Idle
<1>8. Cardinality({h}) = 1
  BY FS_Singleton
<1>9. CountsOK'
  BY <1>1, <1>6, <1>7, <1>8, NoneAssumption DEF CountsOK
<1>10. MutexOK'
  <2>1. /\ \A g \in Holders \ {h} : call'[g] = call[g]
        /\ call[h].stage = "idle" /\ call'[h].stage = "referenced"
    BY <1>1, <1>2 DEF Idle
  <2>2. /\ \A p \in Objects : h \notin admitted[p] /\ announced[p] # h
    BY <2>1, NoneAssumption DEF MutexOK
  <2>3. \A p \in Objects :
          /\ \A g \in admitted[p] : call'[g] = call[g]
          /\ announced[p] # None => call'[announced[p]] = call[announced[p]]
    BY <2>1, <2>2
  <2>4. \A g \in Holders : call'[g].stage \in {"blocked", "held"} => call'[g] = call[g]
    BY <2>1
  <2>5. /\ \A p \in Objects : \A g \in admitted[p] :
             /\ call'[g].object = p /\ call'[g].mode = "read"
             /\ call'[g].stage \in {"blocked", "held"}
        /\ \A p \in Objects : announced[p] # None =>
             /\ call'[announced[p]].object = p /\ call'[announced[p]].mode = "write"
             /\ call'[announced[p]].stage \in {"blocked", "held"}
    BY <2>3 DEF MutexOK
  <2>6. ASSUME NEW g \in Holders, call'[g].stage \in {"blocked", "held"}
        PROVE  /\ At(g, "held", "read")' => g \in admitted[call'[g].object]
               /\ call'[g].mode = "write" => announced[call'[g].object] = g
               /\ At(g, "held", "write")' => admitted[call'[g].object] = {}
    <3>1. /\ At(g, "held", "read") => g \in admitted[call[g].object]
          /\ call[g].mode = "write" /\ call[g].stage \in {"blocked", "held"}
               => announced[call[g].object] = g
          /\ At(g, "held", "write") => admitted[call[g].object] = {}
      BY DEF MutexOK
    <3>2. call'[g] = call[g]
      BY <2>4, <2>6
    <3> QED  BY <2>6, <3>1, <3>2 DEF At
  <2> QED  BY <1>2, <2>5, <2>6 DEF MutexOK, At
<1> QED  BY <1>3, <1>4, <1>5, <1>9, <1>10

\* The object goes when its only user does, and stays otherwise.
LEMMA UnreferenceKeeps ==
  ASSUME IInv, NEW h \in Holders, Unreference(h)
  PROVE  IInv'
<1> USE DEF IInv, TypeOK
<1>1. PICK o \in Objects, k \in Keys :
        /\ o = call[h].object /\ k = call[h].key /\ locks[k] = o
        /\ call[h].stage = "released" /\ o # None
  BY NoneAssumption DEF Unreference, CallsOK, Idle
<1>2. /\ UNCHANGED <<admitted, announced>>
      /\ call' = [call EXCEPT ![h] = Idle]
      /\ references' = [references EXCEPT ![o] = @ - 1]
  BY <1>1 DEF Unreference
<1>3. Users(o)' = Users(o) \ {h} /\ h \in Users(o)
  BY <1>1, <1>2 DEF Users, Idle
<1>4. \A p \in Objects \ {o} : Users(p)' = Users(p)
  BY <1>1, <1>2, NoneAssumption DEF Users, Idle
<1>5. /\ references[o] = Cardinality(Users(o))
      /\ Cardinality(Users(o)') = Cardinality(Users(o)) - 1
      /\ Cardinality(Users(o)) \in Nat /\ Cardinality(Users(o)') \in Nat
  BY <1>1, <1>3, UsersFinite, FS_RemoveElement, FS_CardinalityType DEF CountsOK
<1>6. MutexOK'
  BY <1>1, <1>2, NoneAssumption DEF MutexOK, At, Idle
<1>7. CASE references[o] = 1
  <2>1. Users(o)' = {}
    BY <1>5, <1>7, UsersFinite, FS_EmptySet
  <2>2. locks' = [locks EXCEPT ![k] = None]
    BY <1>1, <1>7 DEF Unreference
  <2>3. TypeOK'
    BY <1>1, <1>2, <1>5, <1>7, <2>2 DEF Call, Idle, Stages, Modes
  <2>4. CallsOK'
    BY <1>1, <1>2, <2>1, <2>2 DEF CallsOK, Users
  <2>5. KeysOK'
    BY <1>1, <2>2 DEF KeysOK
  <2>6. CountsOK'
    BY <1>1, <1>2, <1>4, <2>2 DEF CountsOK, KeysOK
  <2> QED  BY <1>6, <2>3, <2>4, <2>5, <2>6
<1>8. CASE references[o] # 1
  <2>1. locks' = locks
    BY <1>1, <1>8 DEF Unreference
  <2>2. Users(o)' # {} /\ references[o] - 1 \in Nat
    BY <1>5, <1>8, UsersFinite, FS_EmptySet
  <2>3. TypeOK'
    BY <1>1, <1>2, <2>1, <2>2 DEF Call, Idle, Stages, Modes
  <2>4. CallsOK' /\ KeysOK'
    BY <1>1, <1>2, <2>1 DEF CallsOK, KeysOK
  <2>5. CountsOK'
    BY <1>1, <1>2, <1>4, <1>5, <2>1, <2>2 DEF CountsOK
  <2> QED  BY <1>6, <2>3, <2>4, <2>5
<1> QED  BY <1>7, <1>8

-----------------------------------------------------------------------------
(* The mutex.                                                              *)

\* A call that moves on keeps its object.
LEMMA MoveKeeps ==
  ASSUME IInv, NEW h \in Holders, call[h].stage # "idle",
         NEW stage \in Stages \ {"idle"}, Move(h, stage),
         UNCHANGED <<locks, references>>
  PROVE  /\ call' \in [Holders -> Call]
         /\ CallsOK' /\ KeysOK' /\ CountsOK'
<1> USE DEF IInv, TypeOK
<1>1. call' \in [Holders -> Call]
  BY DEF Move, Call
<1>2. CallsOK' /\ KeysOK'
  BY DEF Move, CallsOK, KeysOK, Call, Idle
<1>3. \A o \in Objects : Users(o)' = Users(o)
  BY DEF Move, Users, Call
<1>4. CountsOK'
  BY <1>3 DEF CountsOK
<1> QED  BY <1>1, <1>2, <1>4

\* The steps of an RWMutex keep its readers and its writer apart.
LEMMA MutexStep ==
  ASSUME IInv, NEW h \in Holders,
         \/ RLock(h) \/ Wake(h) \/ Announce(h)
         \/ Lock(h) \/ RUnlock(h) \/ Unlock(h)
  PROVE  IInv'
<1> USE DEF IInv, TypeOK
<1>1. call[h].stage # "idle" =>
        /\ call[h].object \in Objects
        /\ call[h] \in Call
  BY DEF CallsOK, Idle
<1>2. CASE RLock(h)
  <2>1. TypeOK' /\ CallsOK' /\ KeysOK' /\ CountsOK'
    BY <1>1, <1>2, MoveKeeps DEF RLock, At, Stages
  <2>2. PICK o \in Objects : o = call[h].object
    BY <1>1, <1>2 DEF RLock, At
  <2>3. /\ announced' = announced
        /\ call[h].stage = "referenced" /\ call[h].mode = "read"
        /\ \A g \in Holders :
             /\ call'[g].object = call[g].object /\ call'[g].mode = call[g].mode
             /\ g # h => call'[g] = call[g]
    BY <1>2 DEF RLock, Move, At, Call
  <2>4. CASE announced[o] = None
    <3>1. /\ admitted' = [admitted EXCEPT ![o] = @ \union {h}]
          /\ call'[h].stage = "held"
      BY <1>1, <1>2, <2>2, <2>4 DEF RLock, Move, Call
    <3>2. \A p \in Objects :
            admitted'[p] = IF p = o THEN admitted[p] \union {h} ELSE admitted[p]
      BY <3>1
    <3>3. /\ \A g \in Holders : h # g => call'[g] = call[g]
          /\ \A p \in Objects : announced[p] # h /\ (p # o => h \notin admitted[p])
      BY <2>2, <2>3, NoneAssumption DEF MutexOK
    <3>4. \A g \in Holders : call[g].mode = "write" /\ call[g].stage \in {"blocked", "held"}
                             => call[g].object # o
      BY <2>4, NoneAssumption DEF MutexOK
    <3>5. \A p \in Objects : announced[p] # None =>
            p # o /\ call'[announced[p]] = call[announced[p]]
      BY <2>4, <3>3
    <3>6. \A p \in Objects : \A g \in admitted'[p] :
            /\ g = h => p = o
            /\ g # h => g \in admitted[p] /\ call'[g] = call[g]
      <4> SUFFICES ASSUME NEW p \in Objects, NEW g \in admitted'[p]
                   PROVE  /\ g = h => p = o
                          /\ g # h => g \in admitted[p] /\ call'[g] = call[g]
        OBVIOUS
      <4>1. g = h \/ (g \in admitted[p] /\ g \in Holders)
        BY <3>2
      <4> QED  BY <3>2, <3>3, <4>1
    <3>7. /\ \A p \in Objects : \A g \in admitted'[p] :
               /\ call'[g].object = p /\ call'[g].mode = "read"
               /\ call'[g].stage \in {"blocked", "held"}
          /\ \A p \in Objects : announced[p] # None =>
               /\ call'[announced[p]].object = p /\ call'[announced[p]].mode = "write"
               /\ call'[announced[p]].stage \in {"blocked", "held"}
      BY <2>2, <2>3, <3>1, <3>5, <3>6 DEF MutexOK
    <3>8. ASSUME NEW g \in Holders
          PROVE  /\ At(g, "held", "read")' => g \in admitted'[call'[g].object]
                 /\ call'[g].mode = "write" /\ call'[g].stage \in {"blocked", "held"}
                      => announced[call'[g].object] = g
                 /\ At(g, "held", "write")' => admitted'[call'[g].object] = {}
      <4>1. CASE g = h
        BY <2>2, <2>3, <3>2, <4>1 DEF At
      <4>2. CASE g # h
        <5>1. call'[g] = call[g] /\ (call[g].stage # "idle" => call[g].object \in Objects)
          BY <2>3, <4>2 DEF CallsOK, Idle
        <5>2. /\ At(g, "held", "read") => g \in admitted[call[g].object]
              /\ call[g].mode = "write" /\ call[g].stage \in {"blocked", "held"}
                   => announced[call[g].object] = g
              /\ At(g, "held", "write") => admitted[call[g].object] = {}
          BY DEF MutexOK
        <5> QED  BY <3>2, <3>4, <5>1, <5>2 DEF At
      <4> QED  BY <4>1, <4>2
    <3>9. MutexOK'
      BY <2>3, <3>7, <3>8 DEF MutexOK
    <3> QED  BY <2>1, <3>9
  <2>5. CASE announced[o] # None
    <3>1. admitted' = admitted /\ call'[h].stage = "blocked"
      BY <1>1, <1>2, <2>2, <2>5 DEF RLock, Move, Call
    <3>2. \A g \in Holders :
            /\ call'[g].object = call[g].object /\ call'[g].mode = call[g].mode
            /\ call'[g].stage = IF g = h THEN "blocked" ELSE call[g].stage
      BY <2>3, <3>1
    <3>3. /\ \A p \in Objects : \A g \in admitted[p] :
               call'[g].object = p /\ call'[g].mode = "read"
               /\ call'[g].stage \in {"blocked", "held"}
          /\ \A p \in Objects : announced[p] # None =>
               call'[announced[p]].object = p /\ call'[announced[p]].mode = "write"
               /\ call'[announced[p]].stage \in {"blocked", "held"}
      BY <2>3, <3>2 DEF MutexOK
    <3>4. ASSUME NEW g \in Holders
          PROVE  /\ At(g, "held", "read")' => g \in admitted[call[g].object]
                 /\ call'[g].mode = "write" /\ call'[g].stage \in {"blocked", "held"}
                      => announced[call[g].object] = g
                 /\ At(g, "held", "write")' => admitted[call[g].object] = {}
      <4>1. CASE g = h
        BY <2>3, <3>1, <3>2, <4>1 DEF At
      <4>2. CASE g # h
        <5>1. call'[g] = call[g]
          BY <2>3, <4>2
        <5> QED  BY <5>1 DEF MutexOK, At
      <4> QED  BY <4>1, <4>2
    <3>5. UNCHANGED <<admitted, announced>>
      BY <2>3, <3>1
    <3>6. \A g \in Holders :
            /\ call'[g].stage = "held" /\ call'[g].mode = "read" =>
                 g \in admitted[call'[g].object]
            /\ call'[g].mode = "write" /\ call'[g].stage \in {"blocked", "held"} =>
                 announced[call'[g].object] = g
            /\ call'[g].stage = "held" /\ call'[g].mode = "write" =>
                 admitted[call'[g].object] = {}
      BY <3>2, <3>4 DEF At
    <3>7. MutexOK'
      BY <3>3, <3>5, <3>6 DEF MutexOK, At
    <3> QED  BY <2>1, <3>7
  <2> QED  BY <2>4, <2>5
<1>3. CASE Wake(h)
  <2>1. TypeOK' /\ CallsOK' /\ KeysOK' /\ CountsOK'
    BY <1>1, <1>3, MoveKeeps DEF Wake, At, Stages
  <2>2. MutexOK'
    BY <1>1, <1>3 DEF Wake, Move, At, MutexOK, Call
  <2> QED  BY <2>1, <2>2
<1>4. CASE Announce(h)
  <2>1. TypeOK' /\ CallsOK' /\ KeysOK' /\ CountsOK'
    BY <1>1, <1>4, MoveKeeps DEF Announce, At, Stages
  <2>2. MutexOK'
    BY <1>1, <1>4, NoneAssumption DEF Announce, Move, At, MutexOK, Call
  <2> QED  BY <2>1, <2>2
<1>5. CASE Lock(h)
  <2>1. TypeOK' /\ CallsOK' /\ KeysOK' /\ CountsOK'
    BY <1>1, <1>5, MoveKeeps DEF Lock, At, Stages
  <2>2. MutexOK'
    <3>1. PICK o \in Objects : o = call[h].object /\ admitted[o] = {}
      BY <1>1, <1>5 DEF Lock, At
    <3>2. /\ UNCHANGED <<admitted, announced>>
          /\ call[h].stage = "blocked" /\ call[h].mode = "write"
          /\ call' = [call EXCEPT ![h].stage = "held"]
      BY <1>5 DEF Lock, Move, At
    <3>3. \A g \in Holders :
            /\ call'[g].object = call[g].object /\ call'[g].mode = call[g].mode
            /\ g # h => call'[g].stage = call[g].stage
      BY <3>2 DEF Call
    <3>4. call'[h].stage = "held"
      BY <1>1, <3>2 DEF Call
    <3>5. /\ \A p \in Objects : \A g \in admitted[p] :
               /\ call'[g].object = p /\ call'[g].mode = "read"
               /\ call'[g].stage \in {"blocked", "held"}
          /\ \A p \in Objects : announced[p] # None =>
               /\ call'[announced[p]].object = p
               /\ call'[announced[p]].mode = "write"
               /\ call'[announced[p]].stage \in {"blocked", "held"}
      BY <3>2, <3>3, <3>4 DEF MutexOK
    <3>6. \A g \in Holders : call'[g].stage = "held" /\ call'[g].mode = "read" =>
            g \in admitted[call'[g].object]
      BY <3>2, <3>3 DEF MutexOK, At
    <3>7. \A g \in Holders :
            call'[g].mode = "write" /\ call'[g].stage \in {"blocked", "held"} =>
              announced[call'[g].object] = g
      BY <3>2, <3>3, <3>4 DEF MutexOK
    <3>8. \A g \in Holders : call'[g].stage = "held" /\ call'[g].mode = "write" =>
            admitted[call'[g].object] = {}
      BY <3>1, <3>2, <3>3 DEF MutexOK, At
    <3> QED  BY <3>2, <3>5, <3>6, <3>7, <3>8 DEF MutexOK, At
  <2> QED  BY <2>1, <2>2
<1>6. CASE RUnlock(h)
  <2>1. TypeOK' /\ CallsOK' /\ KeysOK' /\ CountsOK'
    BY <1>1, <1>6, MoveKeeps DEF RUnlock, At, Stages
  <2>2. MutexOK'
    BY <1>1, <1>6 DEF RUnlock, Move, At, MutexOK, Call
  <2> QED  BY <2>1, <2>2
<1>7. CASE Unlock(h)
  <2>1. TypeOK' /\ CallsOK' /\ KeysOK' /\ CountsOK'
    BY <1>1, <1>7, MoveKeeps DEF Unlock, At, Stages, Users
  <2>2. MutexOK'
    BY <1>1, <1>7, NoneAssumption DEF Unlock, Move, At, MutexOK, Call, Users, CallsOK, Idle
  <2> QED  BY <2>1, <2>2
<1> QED  BY <1>2, <1>3, <1>4, <1>5, <1>6, <1>7

\* Every step keeps the invariant.
LEMMA IInvStep ==
  ASSUME IInv, [Next]_vars
  PROVE  IInv'
<1>1. CASE UNCHANGED vars
  <2>1. \A o : Users(o)' = Users(o)
    BY <1>1 DEF vars, Users
  <2>2. TypeOK' /\ CallsOK' /\ KeysOK'
    BY <1>1 DEF vars, IInv, TypeOK, CallsOK, KeysOK
  <2>3. CountsOK'
    BY <1>1, <2>1 DEF vars, IInv, CountsOK
  <2>4. MutexOK'
    BY <1>1 DEF vars, IInv, MutexOK, At
  <2> QED  BY <2>2, <2>3, <2>4 DEF IInv
<1>2. CASE Next
  BY <1>2, ReferenceShared, ReferenceFresh, UnreferenceKeeps, MutexStep DEF Next
<1> QED  BY <1>1, <1>2

\* It holds of every reachable state.
LEMMA Invariance == Spec => []IInv
  BY IInvInit, IInvStep, PTL DEF Spec

-----------------------------------------------------------------------------
\* References are never negative, and calls and objects stay well formed.
THEOREM TypeCorrect == Spec => []TypeOK
<1>1. IInv => TypeOK
  BY DEF IInv
<1> QED  BY <1>1, Invariance, PTL

\* An object is registered exactly while it is in use, and all of the users of
\* a key use the same one.
THEOREM RegistryCorrect == Spec => []RegistryMatchesUse
<1>1. IInv => RegistryMatchesUse
  BY DEF IInv, CallsOK, CountsOK, RegistryMatchesUse, Idle
<1> QED  BY <1>1, Invariance, PTL

\* The locks held on a key are always shared ones or a single exclusive one.
THEOREM Exclusion == Spec => []Guard!Exclusive
<1>1. IInv => Guard!Exclusive
  <2>0. ASSUME IInv, NEW k \in Keys, NEW g \in Held(k, "write"),
               NEW h \in Held(k, "write") \union Held(k, "read")
        PROVE  h \in Held(k, "write") /\ g = h
    <3>1. call[g].object = locks[k] /\ call[h].object = locks[k]
      BY <2>0 DEF IInv, CallsOK, Held, At, Idle
    <3>2. locks[k] \in Objects
      BY <2>0, <3>1 DEF IInv, CallsOK, Held, At, Idle
    <3>3. admitted[locks[k]] = {} /\ announced[locks[k]] = g
      BY <2>0, <3>1 DEF IInv, MutexOK, Held, At
    <3>4. h \in Held(k, "write")
      BY <2>0, <3>1, <3>3 DEF IInv, MutexOK, Held
    <3>5. announced[locks[k]] = h
      BY <2>0, <3>1, <3>4 DEF IInv, MutexOK, Held, At
    <3> QED  BY <3>3, <3>4, <3>5
  <2>1. ASSUME IInv, NEW k \in Keys
        PROVE  /\ Held(k, "write") # {} => Held(k, "read") = {}
               /\ \A g, h \in Held(k, "write") : g = h
    <3>1. \A h \in Held(k, "read") : h \notin Held(k, "write")
      BY DEF Held, At
    <3> QED  BY <2>0, <2>1, <3>1
  <2> QED  BY <2>1 DEF Guard!Exclusive
<1> QED  BY <1>1, Invariance, PTL

-----------------------------------------------------------------------------
(* The refinement of KeyGuard.                                             *)

\* A lock is held by its own caller and stays with it while others move.
LEMMA HeldFrame ==
  ASSUME IInv, NEW h \in Holders, NEW c, call' = [call EXCEPT ![h] = c],
         call[h].stage # "held", c.stage # "held"
  PROVE  \A k \in Keys : /\ Held(k, "read")'  = Held(k, "read")
                         /\ Held(k, "write")' = Held(k, "write")
<1>1. \A g \in Holders : call'[g] = IF g = h THEN c ELSE call[g]
  BY DEF IInv, TypeOK
<1> QED  BY <1>1 DEF Held, At

\* Who gets a lock is added to its holders.
LEMMA HeldEnter ==
  ASSUME IInv, NEW h \in Holders, call[h].stage # "held", Move(h, "held"),
         NEW mode \in Modes, call[h].mode = mode
  PROVE  \A k \in Keys, m \in Modes :
           Held(k, m)' = IF k = call[h].key /\ m = mode
                           THEN Held(k, m) \union {h} ELSE Held(k, m)
<1>1. \A g \in Holders :
        /\ call'[g].key = call[g].key /\ call'[g].mode = call[g].mode
        /\ call'[g].stage = IF g = h THEN "held" ELSE call[g].stage
  BY DEF Move, IInv, TypeOK, Call
<1> QED  BY <1>1 DEF Held, At

\* Who releases a lock is removed from its holders.
LEMMA HeldLeave ==
  ASSUME IInv, NEW h \in Holders, Move(h, "released"),
         NEW mode \in Modes, At(h, "held", mode)
  PROVE  \A k \in Keys, m \in Modes :
           Held(k, m)' = IF k = call[h].key /\ m = mode
                           THEN Held(k, m) \ {h} ELSE Held(k, m)
<1>1. \A g \in Holders :
        /\ call'[g].key = call[g].key /\ call'[g].mode = call[g].mode
        /\ call'[g].stage = IF g = h THEN "released" ELSE call[g].stage
  BY DEF Move, IInv, TypeOK, Call
<1> QED  BY <1>1 DEF Held, At

\* The holders of a lock are in the mutex of the object its key has.
LEMMA HoldersInside ==
  ASSUME IInv, NEW k \in Keys, NEW mode \in Modes, NEW g \in Held(k, mode)
  PROVE  /\ locks[k] \in Objects
         /\ mode = "read"  => g \in admitted[locks[k]]
         /\ mode = "write" => announced[locks[k]] = g /\ admitted[locks[k]] = {}
<1>1. /\ g \in Holders /\ call[g].key = k
      /\ call[g].stage = "held" /\ call[g].mode = mode
  BY DEF Held, At
<1>2. locks[k] = call[g].object /\ locks[k] \in Objects
  BY <1>1 DEF IInv, CallsOK, Idle
<1> QED  BY <1>1, <1>2 DEF IInv, MutexOK, At

\* A call under way has a key, and the key an object.
LEMMA CallKeyed ==
  ASSUME IInv, NEW h \in Holders, call[h].stage # "idle"
  PROVE  /\ call[h].key \in Keys /\ call[h].object \in Objects
         /\ locks[call[h].key] = call[h].object
  BY DEF IInv, CallsOK, Idle

\* A reader that is let in meets no writer.
LEMMA EnterReading ==
  ASSUME IInv, NEW h \in Holders, call[h].stage \in {"referenced", "blocked"},
         call[h].mode = "read", Move(h, "held"),
         \/ announced[call[h].object] = None
         \/ h \in admitted[call[h].object]
  PROVE  \E k \in Keys : Guard!AcquireRead(h, k)
<1>1. PICK k \in Keys : k = call[h].key /\ locks[k] = call[h].object
  BY CallKeyed
<1>2. h \notin Held(k, "read") /\ Held(k, "write") = {}
  <2>1. h \notin Held(k, "read")
    BY DEF Held, At
  <2>2. ASSUME NEW g \in Held(k, "write") PROVE FALSE
    <3>1. announced[locks[k]] = g /\ admitted[locks[k]] = {} /\ g \in Holders
      BY <2>2, HoldersInside DEF Modes, Held
    <3> QED  BY <1>1, <3>1, NoneAssumption
  <2> QED  BY <2>1, <2>2
<1>3. \A j \in Keys :
        /\ Held(j, "read")' = IF j = k THEN Held(j, "read") \union {h}
                                       ELSE Held(j, "read")
        /\ Held(j, "write")' = Held(j, "write")
  BY <1>1, HeldEnter DEF Modes
<1>4. Guard!AcquireRead(h, k)
  BY <1>2, <1>3 DEF Guard!AcquireRead
<1> QED  BY <1>4

\* A writer that is let in meets nobody.
LEMMA EnterWriting ==
  ASSUME IInv, NEW h \in Holders, Lock(h)
  PROVE  \E k \in Keys : Guard!AcquireWrite(h, k)
<1>1. /\ call[h].stage = "blocked" /\ call[h].mode = "write"
      /\ Move(h, "held") /\ admitted[call[h].object] = {}
  BY DEF Lock, At
<1>2. PICK k \in Keys : k = call[h].key /\ locks[k] = call[h].object
  BY <1>1, CallKeyed
<1>3. announced[locks[k]] = h
  BY <1>1, <1>2 DEF IInv, MutexOK
<1>4. Held(k, "read") = {}
  BY <1>1, <1>2, HoldersInside DEF Modes
<1>5. Held(k, "write") = {}
  <2>1. ASSUME NEW g \in Held(k, "write") PROVE FALSE
    <3>1. g = h
      BY <1>3, HoldersInside DEF Modes
    <3> QED  BY <1>1, <3>1 DEF Held, At
  <2> QED  BY <2>1
<1>6. \A j \in Keys :
        /\ Held(j, "write")' = IF j = k THEN Held(j, "write") \union {h}
                                        ELSE Held(j, "write")
        /\ Held(j, "read")' = Held(j, "read")
  BY <1>1, <1>2, HeldEnter DEF Modes
<1>7. Held(k, "write")' = {h}
  BY <1>5, <1>6
<1>8. Guard!AcquireWrite(h, k)
  BY <1>4, <1>5, <1>6, <1>7 DEF Guard!AcquireWrite
<1> QED  BY <1>8

\* Every step of the registry is one of KeyGuard, or none.
LEMMA StepRefines ==
  ASSUME IInv, [Next]_vars
  PROVE  [Guard!Next]_(Guard!vars)
<1>0. ASSUME \A k \in Keys : /\ Held(k, "read")'  = Held(k, "read")
                             /\ Held(k, "write")' = Held(k, "write")
      PROVE  UNCHANGED Guard!vars
  BY <1>0 DEF Guard!vars
<1>1. CASE UNCHANGED vars
  BY <1>0, <1>1 DEF vars, Held, At
<1>2. ASSUME NEW h \in Holders, NEW k \in Keys, NEW mode \in Modes,
             Reference(h, k, mode)
      PROVE  UNCHANGED Guard!vars
  <2>1. PICK o \in Objects :
          call' = [call EXCEPT ![h] = [stage |-> "referenced", mode |-> mode,
                                       key |-> k, object |-> o]]
    BY <1>2 DEF Reference
  <2>2. call[h].stage # "held"
    BY <1>2 DEF Reference, Idle
  <2>3. [stage |-> "referenced", mode |-> mode, key |-> k, object |-> o].stage
          # "held"
    OBVIOUS
  <2>4. \A j \in Keys : /\ Held(j, "read")'  = Held(j, "read")
                         /\ Held(j, "write")' = Held(j, "write")
    BY <2>1, <2>2, <2>3, HeldFrame
  <2> QED  BY <1>0, <2>4
<1>3. ASSUME NEW h \in Holders, Unreference(h)
      PROVE  UNCHANGED Guard!vars
  <2>1. /\ call' = [call EXCEPT ![h] = Idle]
        /\ call[h].stage # "held" /\ Idle.stage # "held"
    BY <1>3 DEF Unreference, Idle
  <2> QED  BY <1>0, <2>1, HeldFrame
<1>4. ASSUME NEW h \in Holders, call[h].stage = "referenced", Move(h, "blocked")
      PROVE  UNCHANGED Guard!vars
  <2>1. call' = [call EXCEPT ![h] = [call[h] EXCEPT !.stage = "blocked"]]
    BY <1>4 DEF Move
  <2>2. [call[h] EXCEPT !.stage = "blocked"].stage # "held"
    BY DEF IInv, TypeOK, Call
  <2>3. call[h].stage # "held"
    BY <1>4
  <2>4. \A k \in Keys : /\ Held(k, "read")'  = Held(k, "read")
                         /\ Held(k, "write")' = Held(k, "write")
    BY <2>1, <2>2, <2>3, HeldFrame
  <2> QED  BY <1>0, <2>4
<1>5. ASSUME NEW h \in Holders, RLock(h)
      PROVE  UNCHANGED Guard!vars \/ \E k \in Keys : Guard!AcquireRead(h, k)
  <2>1. CASE announced[call[h].object] = None
    BY <1>5, <2>1, EnterReading DEF RLock, At
  <2>2. CASE announced[call[h].object] # None
    BY <1>4, <1>5, <2>2 DEF RLock, At
  <2> QED  BY <2>1, <2>2
<1>6. ASSUME NEW h \in Holders, Wake(h)
      PROVE  \E k \in Keys : Guard!AcquireRead(h, k)
  BY <1>6, EnterReading DEF Wake, At
<1>7. ASSUME NEW h \in Holders, RUnlock(h)
      PROVE  \E k \in Keys : Guard!ReleaseRead(h, k)
  <2>1. PICK k \in Keys : k = call[h].key
    BY <1>7, CallKeyed DEF RUnlock, At
  <2>2. h \in Held(k, "read")
    BY <1>7, <2>1 DEF RUnlock, Held
  <2>3. \A j \in Keys :
          /\ Held(j, "read")' = IF j = k THEN Held(j, "read") \ {h}
                                         ELSE Held(j, "read")
          /\ Held(j, "write")' = Held(j, "write")
    BY <1>7, <2>1, HeldLeave DEF RUnlock, Modes
  <2>4. Guard!ReleaseRead(h, k)
    BY <2>2, <2>3 DEF Guard!ReleaseRead
  <2> QED  BY <2>4
<1>8. ASSUME NEW h \in Holders, Unlock(h)
      PROVE  \E k \in Keys : Guard!ReleaseWrite(h, k)
  <2>1. PICK k \in Keys : k = call[h].key
    BY <1>8, CallKeyed DEF Unlock, At
  <2>2. h \in Held(k, "write")
    BY <1>8, <2>1 DEF Unlock, Held
  <2>3. \A j \in Keys :
          /\ Held(j, "write")' = IF j = k THEN Held(j, "write") \ {h}
                                          ELSE Held(j, "write")
          /\ Held(j, "read")' = Held(j, "read")
    BY <1>8, <2>1, HeldLeave DEF Unlock, Modes
  <2>4. Guard!ReleaseWrite(h, k)
    BY <2>2, <2>3 DEF Guard!ReleaseWrite
  <2> QED  BY <2>4
<1>9. ASSUME NEW h \in Holders, Announce(h)
      PROVE  UNCHANGED Guard!vars
  BY <1>4, <1>9 DEF Announce, At
<1> QED
  BY <1>1, <1>2, <1>3, <1>5, <1>6, <1>7, <1>8, <1>9, EnterWriting
  DEF Next, Guard!Next

\* The registry implements the shared or exclusive lock per key, although the
\* lock objects behind a key come and go.
THEOREM KeyGuardRefinement == Spec => GuardPromised
<1>1. Init => Guard!Init
  BY DEF Init, Guard!Init, Guard!Free, Held, At, Idle
<1>2. IInv /\ [Next]_vars => [Guard!Next]_(Guard!vars)
  BY StepRefines
<1> QED  BY <1>1, <1>2, Invariance, PTL DEF Spec, Guard!Spec, GuardPromised
-----------------------------------------------------------------------------
(* Waiting: the part of EveryCallGranted that is about states and steps.    *)

\* A reader waits only while a writer is announced, or it has been let in.
WaitOK ==
  \A h \in Holders : At(h, "blocked", "read") =>
    h \in admitted[call[h].object] \/ announced[call[h].object] # None

\* Every step keeps this: Unlock lets in all of the readers that wait.
LEMMA WaitStep ==
  ASSUME IInv, WaitOK, [Next]_vars
  PROVE  WaitOK'
<1> USE DEF IInv, TypeOK
<1>1. CASE UNCHANGED vars
  BY <1>1 DEF vars, WaitOK, At
<1>2. ASSUME NEW h \in Holders, NEW k \in Keys, NEW mode \in Modes,
             Reference(h, k, mode)
      PROVE  WaitOK'
  BY <1>2 DEF Reference, WaitOK, At
<1>3. ASSUME NEW h \in Holders, RLock(h)
      PROVE  WaitOK'
  <2>1. \A g \in Holders :
          /\ call'[g].object = call[g].object /\ call'[g].mode = call[g].mode
          /\ g # h => call'[g].stage = call[g].stage
    BY <1>3 DEF RLock, Move, Call
  <2>2. \A o \in Objects : admitted[o] \subseteq admitted'[o]
    BY <1>3 DEF RLock
  <2>3. call'[h].stage = "held" \/ announced[call[h].object] # None
    BY <1>3 DEF RLock, Move, Call
  <2>4. ASSUME NEW g \in Holders, At(g, "blocked", "read")'
        PROVE  g \in admitted'[call'[g].object] \/ announced[call[g].object] # None
    <3>1. CASE g = h
      BY <2>3, <2>4, <3>1 DEF At
    <3>2. CASE g # h
      <4>1. call[g].object \in Objects
        BY <2>1, <2>4, <3>2, CallKeyed DEF At
      <4> QED  BY <2>1, <2>2, <2>4, <3>2, <4>1 DEF WaitOK, At
    <3> QED  BY <3>1, <3>2
  <2> QED  BY <1>3, <2>1, <2>4 DEF RLock, WaitOK
<1>4. ASSUME NEW h \in Holders, Wake(h) \/ Lock(h)
      PROVE  WaitOK'
  <2>1. UNCHANGED <<admitted, announced>>
    BY <1>4 DEF Wake, Lock
  <2>2. \A g \in Holders :
          /\ call'[g].object = call[g].object /\ call'[g].mode = call[g].mode
          /\ call'[g].stage = IF g = h THEN "held" ELSE call[g].stage
    BY <1>4 DEF Wake, Lock, Move, Call
  <2> QED  BY <2>1, <2>2 DEF WaitOK, At
<1>5. ASSUME NEW h \in Holders, Announce(h)
      PROVE  WaitOK'
  BY <1>5, NoneAssumption, CallKeyed DEF Announce, Move, WaitOK, At
<1>6. ASSUME NEW h \in Holders, RUnlock(h)
      PROVE  WaitOK'
  BY <1>6 DEF RUnlock, Move, WaitOK, At
<1>7. ASSUME NEW h \in Holders, Unlock(h)
      PROVE  WaitOK'
  BY <1>7, CallKeyed DEF Unlock, Move, WaitOK, At, Users
<1>8. ASSUME NEW h \in Holders, Unreference(h)
      PROVE  WaitOK'
  BY <1>8 DEF Unreference, WaitOK, At, Idle
<1> QED
  BY <1>1, <1>2, <1>3, <1>4, <1>5, <1>6, <1>7, <1>8 DEF Next

LEMMA WaitInvariance == Spec => [](IInv /\ WaitOK)
<1>1. Init => IInv /\ WaitOK
  BY IInvInit DEF Init, WaitOK, At, Idle
<1>2. IInv /\ WaitOK /\ [Next]_vars => (IInv /\ WaitOK)'
  BY IInvStep, WaitStep
<1> QED  BY <1>1, <1>2, PTL DEF Spec

\* A reader that is in can go on: it runs, or has been let in and will.
LEMMA ReadersRun ==
  ASSUME IInv, NEW o \in Objects, NEW r \in admitted[o]
  PROVE  r \in Users(o) /\ CanRun(r)
<1>1. /\ r \in Holders /\ call[r].object = o /\ call[r].mode = "read"
      /\ call[r].stage \in {"blocked", "held"}
  BY DEF IInv, TypeOK, MutexOK
<1> QED  BY <1>1 DEF Users, CanRun, At

\* Behind a writer that has announced itself there is somebody who can go on:
\* the writer, or a reader it waits for.
LEMMA WriterRuns ==
  ASSUME IInv, NEW o \in Objects, announced[o] # None
  PROVE  \E g \in Users(o) : CanRun(g)
<1>1. PICK w \in Holders : w = announced[o]
  BY DEF IInv, TypeOK
<1>2. /\ call[w].object = o /\ call[w].mode = "write"
      /\ call[w].stage \in {"blocked", "held"}
  BY <1>1 DEF IInv, MutexOK
<1>3. CASE admitted[o] = {}
  <2>1. w \in Users(o) /\ CanRun(w)
    BY <1>2, <1>3 DEF Users, CanRun, At
  <2> QED  BY <2>1
<1>4. CASE admitted[o] # {}
  BY <1>4, ReadersRun
<1> QED  BY <1>3, <1>4

\* Goroutines that wait for a key never wait for each other only: somebody who
\* uses the same lock object can take its next step.
THEOREM DeadlockFreedom == Spec => []NoDeadlock
<1>1. ASSUME IInv, WaitOK, NEW h \in Holders, call[h].stage # "idle"
      PROVE  \E g \in Users(call[h].object) : CanRun(g)
  <2>1. PICK o \in Objects : o = call[h].object
    BY <1>1, CallKeyed
  <2>2. h \in Users(o)
    BY <2>1 DEF Users
  <2>3. call[h].stage \in Stages /\ call[h].mode \in Modes
    BY <1>1 DEF IInv, TypeOK, Call
  <2>4. \/ CanRun(h)
        \/ announced[o] # None
        \/ admitted[o] # {}
    BY <1>1, <2>1, <2>3 DEF WaitOK, CanRun, At, Stages, Modes
  <2> QED  BY <1>1, <2>1, <2>2, <2>4, WriterRuns, ReadersRun
<1>2. IInv /\ WaitOK => NoDeadlock
  BY <1>1 DEF NoDeadlock
<1> QED  BY <1>2, WaitInvariance, PTL

\* Readers that keep coming do not get in ahead of a writer that waits: this is
\* what its eventual turn rests on.
THEOREM WriterPriority == Spec => WritersAreNotOvertaken
<1>1. ASSUME IInv, [Next]_vars, NEW o \in Objects, announced[o] # None
      PROVE  admitted'[o] \subseteq admitted[o] \/ At(announced[o], "held", "write")
  <2> USE DEF IInv, TypeOK
  <2>1. CASE admitted' = admitted
    BY <2>1
  <2>2. ASSUME NEW h \in Holders, RLock(h)
        PROVE  admitted'[o] \subseteq admitted[o]
    BY <1>1, <2>2 DEF RLock
  <2>3. ASSUME NEW h \in Holders, RUnlock(h)
        PROVE  admitted'[o] \subseteq admitted[o]
    BY <1>1, <2>3 DEF RUnlock
  <2>4. ASSUME NEW h \in Holders, Unlock(h)
        PROVE  admitted'[o] \subseteq admitted[o] \/ At(announced[o], "held", "write")
    <3>1. CASE call[h].object = o
      <4>1. announced[o] = h
        BY <1>1, <2>4, <3>1 DEF Unlock, At, MutexOK
      <4> QED  BY <2>4, <4>1 DEF Unlock
    <3>2. CASE call[h].object # o
      BY <1>1, <2>4, <3>2 DEF Unlock
    <3> QED  BY <3>1, <3>2
  <2> QED
    BY <1>1, <2>1, <2>2, <2>3, <2>4
    DEF Next, vars, Reference, Wake, Announce, Lock, Unreference
<1>2. IInv /\ [Next]_vars =>
        [\A o \in Objects : announced[o] # None =>
           \/ admitted'[o] \subseteq admitted[o]
           \/ At(announced[o], "held", "write")]_vars
  BY <1>1
<1> QED  BY <1>2, Invariance, PTL DEF Spec, WritersAreNotOvertaken

\* Nor do writers that keep coming keep out a reader that waits.
THEOREM ReaderTurn == Spec => ReadersWaitOnce
<1>1. ASSUME IInv, WaitOK, [Next]_vars, NEW h \in Holders,
             At(h, "blocked", "read"), NEW o \in Objects, o = call[h].object
      PROVE  announced'[o] = announced[o] \/ h \in admitted'[o]
  <2> USE DEF IInv, TypeOK
  <2>1. CASE announced' = announced
    BY <2>1
  <2>2. ASSUME NEW g \in Holders, Announce(g)
        PROVE  announced'[o] = announced[o] \/ h \in admitted'[o]
    <3>1. CASE call[g].object = o
      BY <1>1, <2>2, <3>1 DEF Announce, WaitOK
    <3>2. CASE call[g].object # o
      BY <1>1, <2>2, <3>2 DEF Announce
    <3> QED  BY <3>1, <3>2
  <2>3. ASSUME NEW g \in Holders, Unlock(g)
        PROVE  announced'[o] = announced[o] \/ h \in admitted'[o]
    BY <1>1, <2>3 DEF Unlock, Users
  <2> QED
    BY <1>1, <2>1, <2>2, <2>3
    DEF Next, vars, Reference, RLock, Wake, Lock, RUnlock, Unreference
<1>2. ASSUME IInv, WaitOK, [Next]_vars, NEW h \in Holders, At(h, "blocked", "read")
      PROVE  \/ announced'[call[h].object] = announced[call[h].object]
             \/ h \in admitted'[call[h].object]
  BY <1>1, <1>2, CallKeyed DEF At
<1>3. IInv /\ WaitOK /\ [Next]_vars =>
        [\A h \in Holders : At(h, "blocked", "read") =>
           LET o == call[h].object
           IN  announced'[o] = announced[o] \/ h \in admitted'[o]]_vars
  BY <1>2
<1> QED  BY <1>3, WaitInvariance, PTL DEF Spec, ReadersWaitOnce

\* The map of the registry never has more keys than there are calls under way,
\* although nothing bounds the keys that are locked in the life of the process.
THEOREM RegistryBound == Spec => []RegistryIsBounded
<1>1. ASSUME IInv
      PROVE  RegistryIsBounded
  <2> DEFINE K == {k \in Keys : locks[k] # None}
             H == {h \in Holders : call[h] # Idle}
             f == [k \in K |-> CHOOSE h \in Users(locks[k]) : TRUE]
  <2>1. \A k \in K : f[k] \in Users(locks[k])
    BY <1>1 DEF IInv, CountsOK
  <2>2. \A k \in K : f[k] \in H /\ call[f[k]].object = locks[k]
    BY <1>1, <2>1, NoneAssumption DEF IInv, TypeOK, Users, Idle
  <2>3. \A j, k \in K : f[j] = f[k] => j = k
    <3>1. ASSUME NEW j \in K, NEW k \in K, f[j] = f[k]
          PROVE  j = k
      <4>1. locks[j] = locks[k] /\ locks[k] # None
        BY <2>2, <3>1
      <4> QED  BY <1>1, <4>1 DEF IInv, KeysOK
    <3> QED  BY <3>1
  <2>4. f \in Injection(K, H)
    <3>1. f \in [K -> H]
      BY <2>2
    <3> HIDE DEF f, K, H
    <3> QED  BY <2>3, <3>1 DEF Injection, IsInjective
  <2>5. IsFiniteSet(H)
    BY HoldersAssumption, FS_Subset
  <2>6. Cardinality(K) <= Cardinality(H)
    BY <2>4, <2>5, FS_Injection
  <2> QED  BY <2>6 DEF RegistryIsBounded
<1> QED  BY <1>1, Invariance, PTL
=============================================================================
