------------------------------ MODULE KeyGuard ------------------------------
(***************************************************************************)
(* What the content store asks of its key locks: for every storage key,    *)
(* either any number of readers or one writer.  How a caller waits, and    *)
(* which objects implement the locks, is not part of the promise.          *)
(***************************************************************************)
CONSTANTS Holders, Keys

VARIABLES
  reading,  \* key -> the holders of its shared lock
  writing   \* key -> the holders of its exclusive lock

vars == <<reading, writing>>

TypeOK ==
  /\ reading \in [Keys -> SUBSET Holders]
  /\ writing \in [Keys -> SUBSET Holders]

Free == [k \in Keys |-> {}]

Init == reading = Free /\ writing = Free

AcquireRead(h, k) ==
  /\ h \notin reading[k]
  /\ writing[k] = {}
  /\ reading' = [reading EXCEPT ![k] = @ \union {h}]
  /\ UNCHANGED writing

AcquireWrite(h, k) ==
  /\ reading[k] = {} /\ writing[k] = {}
  /\ writing' = [writing EXCEPT ![k] = {h}]
  /\ UNCHANGED reading

ReleaseRead(h, k) ==
  /\ h \in reading[k]
  /\ reading' = [reading EXCEPT ![k] = @ \ {h}]
  /\ UNCHANGED writing

ReleaseWrite(h, k) ==
  /\ h \in writing[k]
  /\ writing' = [writing EXCEPT ![k] = @ \ {h}]
  /\ UNCHANGED reading

Next ==
  \E h \in Holders, k \in Keys :
    \/ AcquireRead(h, k)
    \/ AcquireWrite(h, k)
    \/ ReleaseRead(h, k)
    \/ ReleaseWrite(h, k)

Spec == Init /\ [][Next]_vars

Exclusive ==
  \A k \in Keys :
    /\ writing[k] # {} => reading[k] = {}
    /\ \A g, h \in writing[k] : g = h
=============================================================================
