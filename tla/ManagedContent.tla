--------------------------- MODULE ManagedContent ---------------------------
(***************************************************************************)
(* Managed media content: a row of media_items, a row of media_contents    *)
(* and a file, kept together by the upload, deletion and reading services  *)
(* (internal/application/media) over the SQLite repositories and the       *)
(* content store (internal/storage/filesystem).                            *)
(*                                                                         *)
(* A worker is the goroutine of one HTTP request.  An action is one        *)
(* database transaction or one call of the content store.  The database    *)
(* and the directory tree survive a crash; the key locks do not, and       *)
(* nothing reconciles the three at the next start.  The locks are those    *)
(* KeyGuard promises; a storage key is the media id it is derived from.    *)
(*                                                                         *)
(* Left to chance: what a request is permitted, whether an upload is valid *)
(* and complete, and every failure of the database or of the file system,  *)
(* which a canceled request context is not told apart from.  How a request *)
(* is answered is left out.                                                *)
(***************************************************************************)
EXTENDS FiniteSets

CONSTANTS
  Workers,  \* concurrent requests
  Media,    \* media ids, random UUIDs
  None

ASSUME NoneAssumption == None \notin Media \union Workers

VARIABLES
  items,    \* media_items: where the size and checksum of a row come from
  located,  \* media_contents: the media with a content location
  disk,     \* media id -> its directory entries
  reading, writing,  \* the key locks
  job,      \* worker -> the progress of its request
  faulted   \* media on which an unfinished or failed call has left its mark

store == <<items, located, disk>>
locks == <<reading, writing>>
vars  == <<store, locks, job, faulted>>

Guard == INSTANCE KeyGuard WITH Holders <- Workers, Keys <- Media

Sizes   == {"derived", "claimed"}  \* by the server, by a client
Entries == {"temporary", "published", "staged"}

\* The steps at which a crash leaves something to reconcile.
Unfinished == {"upload.receiving", "upload.stored", "upload.compensating",
               "delete.staged", "delete.committed", "delete.failed"}

Steps == Unfinished \union
  {"idle", "update.authorized", "delete.authorized", "delete.metadata",
   "delete.located", "read.authorized", "read.located", "read.opened",
   "read.streaming"}

\* size: that of the item as a reader has found it.
Job  == [step : Steps, media : Media \union {None}, size : Sizes \union {None}]
Idle == [step |-> "idle", media |-> None, size |-> None]

TypeOK ==
  /\ items   \in [Media -> Sizes \union {"absent"}]
  /\ located \subseteq Media
  /\ disk    \in [Media -> SUBSET Entries]
  /\ Guard!TypeOK
  /\ job     \in [Workers -> Job]
  /\ faulted \subseteq Media
  /\ \A w \in Workers : job[w].step # "idle" => job[w].media # None

At(w, step)       == job[w].step = step
Begin(w, m, step) ==
  job' = [job EXCEPT ![w] = [Idle EXCEPT !.step = step, !.media = m]]
GoTo(w, step)     == job' = [job EXCEPT ![w].step = step]
Answer(w)         == job' = [job EXCEPT ![w] = Idle]

\* A lock that is taken and released within one call is free.
Free(m) == reading[m] = {} /\ writing[m] = {}

Has(m, entry)        == entry \in disk[m]
Remove(m, entry)     == disk' = [disk EXCEPT ![m] = @ \ {entry}]
Rename(m, from, to)  == disk' = [disk EXCEPT ![m] = (@ \ {from}) \union {to}]

\* A UUID that nothing refers to.
Fresh(m) ==
  /\ items[m] = "absent" /\ m \notin located /\ disk[m] = {}
  /\ \A w \in Workers : job[w].media # m

-----------------------------------------------------------------------------
(* Uploads: UploadService.UploadItem.                                      *)

\* Put takes the exclusive lock and creates the temporary file.
Receive(w, m) ==
  /\ At(w, "idle")
  /\ Fresh(m)
  /\ Guard!AcquireWrite(w, m)
  /\ disk' = [disk EXCEPT ![m] = {"temporary"}]
  /\ Begin(w, m, "upload.receiving")
  /\ UNCHANGED <<items, located, faulted>>

\* The content is complete and flushed: rename and release.
Publish(w) ==
  LET m == job[w].media
  IN  /\ At(w, "upload.receiving")
      /\ ~Has(m, "published")
      /\ Rename(m, "temporary", "published")
      /\ Guard!ReleaseWrite(w, m)
      /\ GoTo(w, "upload.stored")
      /\ UNCHANGED <<items, located, faulted>>

\* Any error of Put; the deferred removal of the temporary file may fail too.
AbandonUpload(w) ==
  LET m == job[w].media
  IN  /\ At(w, "upload.receiving")
      /\ \/ Remove(m, "temporary") /\ UNCHANGED faulted
         \/ faulted' = faulted \union {m} /\ UNCHANGED disk
      /\ Guard!ReleaseWrite(w, m)
      /\ Answer(w)
      /\ UNCHANGED <<items, located>>

\* CreateManagedWithAudit: item, authors, location and event, or nothing.
CreateManaged(w) ==
  LET m == job[w].media
  IN  /\ At(w, "upload.stored")
      /\ items[m] = "absent" /\ m \notin located
      /\ items'   = [items EXCEPT ![m] = "derived"]
      /\ located' = located \union {m}
      /\ Answer(w)
      /\ UNCHANGED <<disk, locks, faulted>>

\* Fault: the file is left behind.
RejectWithoutCompensation(w) ==
  /\ At(w, "upload.stored")
  /\ Answer(w)
  /\ UNCHANGED <<store, locks, faulted>>

\* The metadata is not valid, or the transaction fails.
RejectUpload(w) ==
  /\ At(w, "upload.stored")
  /\ GoTo(w, "upload.compensating")
  /\ UNCHANGED <<store, locks, faulted>>

\* compensateStoredContent: ContentStore.Delete under the exclusive lock.
Compensate(w) ==
  LET m == job[w].media
  IN  /\ At(w, "upload.compensating")
      /\ Free(m)
      /\ \/ Has(m, "published") /\ Remove(m, "published") /\ UNCHANGED faulted
         \/ faulted' = faulted \union {m} /\ UNCHANGED disk
      /\ Answer(w)
      /\ UNCHANGED <<items, located, locks>>

-----------------------------------------------------------------------------
(* Metadata: Service.CreateItem and Service.UpdateItem.                    *)

\* POST /media: a record without content, described by the client.
CreateItem(w, m) ==
  /\ At(w, "idle")
  /\ Fresh(m)
  /\ items' = [items EXCEPT ![m] = "claimed"]
  /\ Answer(w)
  /\ UNCHANGED <<located, disk, locks, faulted>>

\* authorizeItem has read the row, and the request is permitted.
Authorize(w, m, step) ==
  /\ At(w, "idle")
  /\ items[m] # "absent"
  /\ Begin(w, m, step)
  /\ UNCHANGED <<store, locks, faulted>>

\* Fault: stores a size that the request does not carry.
UpdateUnset(w, size) ==
  LET m == job[w].media
  IN  /\ At(w, "update.authorized")
      /\ items' = [items EXCEPT ![m] = IF @ = "absent" THEN @ ELSE job[w].size]
      /\ Answer(w)
      /\ UNCHANGED <<located, disk, locks, faulted>>

\* PUT /media/{id} stores the size and checksum that the client sends.
Update(w, size) ==
  LET m == job[w].media
  IN  /\ At(w, "update.authorized")
      /\ items' = [items EXCEPT ![m] = IF @ = "absent" THEN @ ELSE size]
      /\ Answer(w)
      /\ UNCHANGED <<located, disk, locks, faulted>>

-----------------------------------------------------------------------------
(* Deletion: ManagedService.DeleteItem.                                    *)

FindForDeletion(w) ==
  /\ At(w, "delete.authorized")
  /\ GoTo(w, IF job[w].media \in located THEN "delete.located"
                                         ELSE "delete.metadata")
  /\ UNCHANGED <<store, locks, faulted>>

\* DeleteWithAudit; media_contents restricts the deletion of its item.
DeleteMetadata(w) ==
  LET m == job[w].media
  IN  /\ At(w, "delete.metadata")
      /\ items' = [items EXCEPT ![m] = IF m \in located THEN @ ELSE "absent"]
      /\ Answer(w)
      /\ UNCHANGED <<located, disk, locks, faulted>>

\* Fault: the lock is released after the rename.
StageUnlocked(w) ==
  LET m == job[w].media
  IN  /\ At(w, "delete.located")
      /\ \/ /\ Has(m, "published") /\ ~Has(m, "staged")
            /\ Rename(m, "published", "staged")
            /\ GoTo(w, "delete.staged")
         \/ Answer(w) /\ UNCHANGED disk
      /\ UNCHANGED <<items, located, locks, faulted>>

\* StageDelete waits for the exclusive lock and keeps it if it succeeds.
StageDelete(w) ==
  LET m == job[w].media
  IN  /\ At(w, "delete.located")
      /\ \/ /\ Has(m, "published") /\ ~Has(m, "staged")
            /\ Guard!AcquireWrite(w, m)
            /\ Rename(m, "published", "staged")
            /\ GoTo(w, "delete.staged")
         \/ Free(m) /\ Answer(w) /\ UNCHANGED <<disk, locks>>
      /\ UNCHANGED <<items, located, faulted>>

\* Fault: restores nothing when the transaction fails.
DeleteManagedOnce(w) ==
  LET m == job[w].media
  IN  /\ At(w, "delete.staged")
      /\ \/ /\ m \in located
            /\ items'   = [items EXCEPT ![m] = "absent"]
            /\ located' = located \ {m}
         \/ UNCHANGED <<items, located>>
      /\ GoTo(w, "delete.committed")
      /\ UNCHANGED <<disk, locks, faulted>>

\* DeleteManagedWithAudit: location, grants, authors, item and event.
DeleteManaged(w) ==
  LET m == job[w].media
  IN  /\ At(w, "delete.staged")
      /\ \/ /\ m \in located
            /\ items'   = [items EXCEPT ![m] = "absent"]
            /\ located' = located \ {m}
            /\ GoTo(w, "delete.committed")
         \/ GoTo(w, "delete.failed") /\ UNCHANGED <<items, located>>
      /\ UNCHANGED <<disk, locks, faulted>>

\* Commit.  If the removal fails, the lock is not released: nobody holds the
\* staged deletion any more, and nobody else can.
CommitDeletion(w) ==
  LET m == job[w].media
  IN  /\ At(w, "delete.committed")
      /\ \/ /\ Has(m, "staged") /\ Remove(m, "staged")
            /\ Guard!ReleaseWrite(w, m)
            /\ Answer(w)
            /\ UNCHANGED faulted
         \/ /\ faulted' = faulted \union {m}
            /\ Answer(w)
            /\ UNCHANGED <<disk, locks>>
      /\ UNCHANGED <<items, located>>

\* Fault: the lock of a restored file is kept.
RollbackLocked(w) ==
  LET m == job[w].media
  IN  /\ At(w, "delete.failed")
      /\ Rename(m, "staged", "published")
      /\ Answer(w)
      /\ UNCHANGED <<items, located, locks, faulted>>

\* Rollback, which the cancellation of the request does not prevent.
RollbackDeletion(w) ==
  LET m == job[w].media
  IN  /\ At(w, "delete.failed")
      /\ \/ /\ Has(m, "staged") /\ ~Has(m, "published")
            /\ Rename(m, "staged", "published")
            /\ Guard!ReleaseWrite(w, m)
            /\ UNCHANGED faulted
         \/ faulted' = faulted \union {m} /\ UNCHANGED <<disk, locks>>
      /\ Answer(w)
      /\ UNCHANGED <<items, located>>

-----------------------------------------------------------------------------
(* Reading: ContentReadService and mediaContentHandler.serve.              *)

AuthorizeReading(w, m) ==
  /\ At(w, "idle")
  /\ items[m] # "absent"
  /\ job' = [job EXCEPT ![w] = [step |-> "read.authorized", media |-> m,
                                size |-> items[m]]]
  /\ UNCHANGED <<store, locks, faulted>>

FindForReading(w) ==
  /\ At(w, "read.authorized")
  /\ IF job[w].media \in located THEN GoTo(w, "read.located")
                                 ELSE Answer(w)
  /\ UNCHANGED <<store, locks, faulted>>

\* ContentStore.Open waits for the shared lock.  A file of another size than
\* the item that was authorized is closed again ("derived" is its own size).
Open(w) ==
  LET m == job[w].media
  IN  /\ At(w, "read.located")
      /\ \/ /\ Has(m, "published") /\ job[w].size = "derived"
            /\ Guard!AcquireRead(w, m)
            /\ GoTo(w, "read.opened")
         \/ writing[m] = {} /\ Answer(w) /\ UNCHANGED locks
      /\ UNCHANGED <<store, faulted>>

\* RecordSuccessfulAccess precedes the first byte.
RecordAccess(w) ==
  /\ At(w, "read.opened")
  /\ GoTo(w, "read.streaming")
  /\ UNCHANGED <<store, locks, faulted>>

\* The deferred Close: the stream has ended, was not satisfiable or not audited.
CloseReader(w) ==
  /\ At(w, "read.opened") \/ At(w, "read.streaming")
  /\ Guard!ReleaseRead(w, job[w].media)
  /\ Answer(w)
  /\ UNCHANGED <<store, faulted>>

-----------------------------------------------------------------------------
\* An error before a call that waits for a lock or changes anything.
Fail(w) ==
  /\ job[w].step \in {"update.authorized", "delete.authorized",
                      "delete.metadata", "read.authorized"}
  /\ Answer(w)
  /\ UNCHANGED <<store, locks, faulted>>

\* The server process ends and starts again.
Crash ==
  /\ job'     = [w \in Workers |-> Idle]
  /\ reading' = Guard!Free /\ writing' = Guard!Free
  /\ faulted' = faulted \union
                  {job[w].media : w \in {v \in Workers : job[v].step \in Unfinished}}
  /\ UNCHANGED store

Init ==
  /\ items   = [m \in Media |-> "absent"]
  /\ located = {}
  /\ disk    = [m \in Media |-> {}]
  /\ Guard!Init
  /\ job     = [w \in Workers |-> Idle]
  /\ faulted = {}

\* What a request does once it has begun.
Proceed(w) ==
  \/ Publish(w)
  \/ AbandonUpload(w)
  \/ CreateManaged(w)
  \/ RejectUpload(w)
  \/ \E size \in Sizes : Update(w, size)
  \/ FindForDeletion(w)
  \/ DeleteMetadata(w)
  \/ DeleteManaged(w)
  \/ CommitDeletion(w)
  \/ RollbackDeletion(w)
  \/ FindForReading(w)
  \/ RecordAccess(w)
  \/ CloseReader(w)
  \/ Fail(w)

\* The calls that wait for a lock.
Wait(w) == Compensate(w) \/ StageDelete(w) \/ Open(w)

Next ==
  \/ \E w \in Workers :
       \/ \E m \in Media :
            \/ Receive(w, m)
            \/ CreateItem(w, m)
            \/ \E step \in {"update.authorized", "delete.authorized"} :
                 Authorize(w, m, step)
            \/ AuthorizeReading(w, m)
       \/ Proceed(w)
       \/ Wait(w)
  \/ Crash

\* A handler runs on; the read and write timeouts of the server end an upload
\* that stalls and a stream that nobody reads.
Fairness == \A w \in Workers : WF_vars(Proceed(w))

Spec == Init /\ [][Next]_vars

FairSpec == Spec /\ Fairness

-----------------------------------------------------------------------------
(* Properties.                                                             *)

\* Whatever fails, and whenever the server crashes, a medium that has a content
\* location has an item and a file: at its storage key, or staged beside it.
NoDataLoss ==
  \A m \in located :
    items[m] # "absent" /\ (Has(m, "published") \/ Has(m, "staged"))

\* What is being streamed is neither hidden nor removed by a deletion, and
\* the locks are shared ones or a single exclusive one.
Reading(w) == At(w, "read.opened") \/ At(w, "read.streaming")

StreamsArePublished ==
  /\ Guard!Exclusive
  /\ \A w \in Workers : Reading(w) =>
       w \in reading[job[w].media] /\ Has(job[w].media, "published")

\* No file without a row and no row without a published file, except while a
\* request that will settle it is at work, or after a fault.
Working(m, steps) ==
  \E w \in Workers : job[w].media = m /\ job[w].step \in steps

Deleting == {"delete.staged", "delete.committed", "delete.failed"}

FilesMatchRows ==
  \A m \in Media \ faulted :
    /\ Has(m, "temporary") => Working(m, {"upload.receiving"})
    /\ Has(m, "staged")    => Working(m, Deleting)
    /\ Has(m, "published") =>
         m \in located \/ Working(m, {"upload.stored", "upload.compensating"})
    /\ m \in located => Has(m, "published") \/ Working(m, Deleting)

\* Every lock is released, which is what KeyLocks needs to grant the next one,
\* unless a deletion could not be finished: then its exclusive lock is kept for
\* the life of the process.
LocksAreReleased ==
  \A w \in Workers, m \in Media :
    /\ w \in reading[m] ~> w \notin reading[m]
    /\ w \in writing[m] ~> w \notin writing[m] \/ m \in faulted

\* A lock belongs to a request that goes on to release it, and that request is
\* never one that waits for a lock itself.  The exception is the exclusive lock
\* of a deletion that could not be finished: its file is staged, and stays so.
Locking == {"upload.receiving"} \union Deleting

Waiting(w) == job[w].step \in {"upload.compensating", "delete.located", "read.located"}

Kept(m) == m \in faulted /\ disk[m] = {"staged"}

LocksHaveOwners ==
  \A w \in Workers, m \in Media :
    /\ w \in reading[m] <=> Reading(w) /\ job[w].media = m
    /\ job[w].step \in Locking /\ job[w].media = m => w \in writing[m]
    /\ w \in writing[m] => (job[w].step \in Locking /\ job[w].media = m) \/ Kept(m)

NobodyWaitsForAWaiter ==
  \A w \in Workers : LET m == job[w].media
    IN Waiting(w) /\ ~Kept(m) =>
         \A v \in reading[m] \union writing[m] :
           job[v].step \in Locking \union {"read.opened", "read.streaming"}

\* Nothing reconciles what a crash or a failed call leaves: a file that is staged
\* without a deletion at work on it stays staged, and its row as it is.
Orphaned(m) == disk[m] = {"staged"} /\ ~Working(m, Deleting)

OrphansStay ==
  [][\A m \in Media : Orphaned(m) =>
       Orphaned(m)' /\ (m \in located' <=> m \in located)]_vars

-----------------------------------------------------------------------------
\* README.md and docs/milestones/019: the size and checksum of uploaded media
\* are the server's.  An update of the metadata replaces them, and the content
\* can no longer be read (ErrContentIntegrity).
UploadedSizesAreDerived ==
  \A m \in located : items[m] = "derived"
=============================================================================
