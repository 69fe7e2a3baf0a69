------------------------ MODULE ManagedContentProofs ------------------------
(***************************************************************************)
(* The safety of ManagedContent for any number of requests and media.      *)
(*                                                                         *)
(* The argument: an upload has its medium to itself, since nobody can be   *)
(* authorized for a row that does not exist; a deletion has it by its      *)
(* exclusive lock; so each knows what is on disk between its two steps.    *)
(***************************************************************************)
EXTENDS ManagedContent, TLAPS

Uploading == {"upload.receiving", "upload.stored", "upload.compensating"}

UploadOK(w, m) ==
  /\ items[m] = "absent" /\ m \notin located
  /\ \A v \in Workers : job[v].media = m => v = w
  /\ disk[m] = IF At(w, "upload.receiving") THEN {"temporary"}
                                            ELSE {"published"}

DeletionOK(w, m) ==
  /\ w \in writing[m]
  /\ disk[m] = {"staged"}
  /\ IF At(w, "delete.committed") THEN m \notin located ELSE m \in located

ReaderOK(w, m) == w \in reading[m] /\ disk[m] = {"published"}

\* A request that was authorized once finds no file that has no row.
ClientOK(m) == Has(m, "published") => m \in located

JobOK(w) ==
  /\ job[w].step \in Uploading => UploadOK(w, job[w].media)
  /\ job[w].step \in Deleting  => DeletionOK(w, job[w].media)
  /\ Reading(w)                => ReaderOK(w, job[w].media)
  /\ job[w].step \notin Uploading \union {"idle"} => ClientOK(job[w].media)

RowsOK ==
  \A m \in Media :
    /\ m \in located =>
         items[m] # "absent" /\ disk[m] \in {{"published"}, {"staged"}}
    /\ m \notin located /\ items[m] # "absent" => disk[m] = {}

IInv ==
  /\ TypeOK
  /\ Guard!Exclusive
  /\ RowsOK
  /\ \A w \in Workers : JobOK(w)
  /\ FilesMatchRows

-----------------------------------------------------------------------------
(* Steps.                                                                  *)

\* The vocabulary of the actions, expanded everywhere below.
USE NoneAssumption
USE DEF TypeOK, Job, Steps, Unfinished, Sizes, Entries, Idle, At, Begin, GoTo,
        Answer, Has, Remove, Rename, Free, store, locks, Guard!TypeOK,
        Guard!Exclusive, Uploading, Deleting, Reading

\* Calls go on or are answered, which keeps their type.
LEMMA JobMoves ==
  ASSUME TypeOK, NEW w \in Workers, job[w].step # "idle",
         Answer(w) \/ \E step \in Steps \ {"idle"} : GoTo(w, step)
  PROVE  /\ job' \in [Workers -> Job]
         /\ \A v \in Workers : job'[v].step # "idle" => job'[v].media # None
         /\ \A v \in Workers \ {w} : job'[v] = job[v]
<1>1. job[w] \in Job /\ Idle \in Job
  OBVIOUS
<1>2. CASE Answer(w)
  BY <1>1, <1>2
<1>3. ASSUME NEW step \in Steps \ {"idle"}, GoTo(w, step)
      PROVE  /\ job' \in [Workers -> Job]
             /\ \A v \in Workers : job'[v].step # "idle" => job'[v].media # None
             /\ \A v \in Workers \ {w} : job'[v] = job[v]
  <2>1. [job[w] EXCEPT !.step = step] \in Job
    BY <1>1
  <2> QED  BY <1>1, <1>3, <2>1
<1> QED  BY <1>2, <1>3

\* Files go on matching their rows while those at work on them do nothing.
LEMMA FilesStay ==
  ASSUME FilesMatchRows, UNCHANGED <<located, disk, faulted>>,
         \A v \in Workers : job[v].step \in Unfinished => job'[v] = job[v]
  PROVE  FilesMatchRows'
<1>1. \A m \in Media, steps \in SUBSET Unfinished :
        Working(m, steps) => Working(m, steps)'
  BY DEF Working
<1> QED  BY <1>1 DEF FilesMatchRows

\* An upload begins with a medium that nothing refers to.
LEMMA ReceiveKeeps ==
  ASSUME IInv, NEW w \in Workers, NEW m \in Media, Receive(w, m)
  PROVE  IInv'
<1> USE DEF IInv, Receive, Fresh, Guard!AcquireWrite
<1>1. TypeOK'
  <2>1. [step |-> "upload.receiving", media |-> m, size |-> None] \in Job
    OBVIOUS
  <2>2. job' \in [Workers -> Job]
    BY <2>1
  <2>3. \A v \in Workers : job'[v].step # "idle" => job'[v].media # None
    OBVIOUS
  <2>4. writing' \in [Media -> SUBSET Workers] /\ disk' \in [Media -> SUBSET Entries]
    OBVIOUS
  <2> QED  BY <2>2, <2>3, <2>4
<1>2. Guard!Exclusive'
  OBVIOUS
<1>3. RowsOK'
  BY DEF RowsOK
<1>4. JobOK(w)'
  BY DEF JobOK, UploadOK
<1>5. ASSUME NEW v \in Workers, v # w  PROVE JobOK(v)'
  BY <1>5 DEF JobOK, UploadOK, DeletionOK, ReaderOK, ClientOK
<1>6. FilesMatchRows'
  BY DEF FilesMatchRows, Working
<1> QED  BY <1>1, <1>2, <1>3, <1>4, <1>5, <1>6

\* The rename keeps the file with its upload.
LEMMA PublishKeeps ==
  ASSUME IInv, NEW w \in Workers, Publish(w)
  PROVE  IInv'
<1> USE DEF IInv, Publish, Guard!ReleaseWrite
<1>1. TypeOK'
  OBVIOUS
<1>2. Guard!Exclusive'
  OBVIOUS
<1>3. RowsOK'
  BY DEF RowsOK, JobOK, UploadOK
<1>4. JobOK(w)'
  BY DEF JobOK, UploadOK
<1>5. ASSUME NEW v \in Workers, v # w  PROVE JobOK(v)'
  BY <1>5 DEF JobOK, UploadOK, DeletionOK, ReaderOK, ClientOK
<1>6. FilesMatchRows'
  BY DEF FilesMatchRows, Working
<1> QED  BY <1>1, <1>2, <1>3, <1>4, <1>5, <1>6

\* An abandoned upload leaves no row.
LEMMA AbandonUploadKeeps ==
  ASSUME IInv, NEW w \in Workers, AbandonUpload(w)
  PROVE  IInv'
<1> USE DEF IInv, AbandonUpload, Guard!ReleaseWrite
<1>1. TypeOK'
  OBVIOUS
<1>2. Guard!Exclusive'
  OBVIOUS
<1>3. RowsOK'
  BY DEF RowsOK
<1>4. JobOK(w)'
  BY DEF JobOK
<1>5. ASSUME NEW v \in Workers, v # w  PROVE JobOK(v)'
  BY <1>5 DEF JobOK, UploadOK, DeletionOK, ReaderOK, ClientOK
<1>6. FilesMatchRows'
  BY DEF FilesMatchRows, Working
<1> QED  BY <1>1, <1>2, <1>3, <1>4, <1>5, <1>6

\* The rows of an upload refer to its published file.
LEMMA CreateManagedKeeps ==
  ASSUME IInv, NEW w \in Workers, CreateManaged(w)
  PROVE  IInv'
<1> USE DEF IInv, CreateManaged
<1>1. TypeOK'
  OBVIOUS
<1>2. Guard!Exclusive'
  OBVIOUS
<1>3. RowsOK'
  BY DEF RowsOK, JobOK, UploadOK
<1>4. JobOK(w)'
  BY DEF JobOK
<1>5. ASSUME NEW v \in Workers, v # w  PROVE JobOK(v)'
  BY <1>5 DEF JobOK, UploadOK, DeletionOK, ReaderOK, ClientOK
<1>6. FilesMatchRows'
  BY DEF FilesMatchRows, Working, JobOK, UploadOK
<1> QED  BY <1>1, <1>2, <1>3, <1>4, <1>5, <1>6

\* A rejected upload still has its medium to itself.
LEMMA RejectUploadKeeps ==
  ASSUME IInv, NEW w \in Workers, RejectUpload(w)
  PROVE  IInv'
<1> USE DEF IInv, RejectUpload
<1>1. TypeOK'
  OBVIOUS
<1>2. Guard!Exclusive'
  OBVIOUS
<1>3. RowsOK'
  BY DEF RowsOK
<1>4. JobOK(w)'
  BY DEF JobOK, UploadOK
<1>5. ASSUME NEW v \in Workers, v # w  PROVE JobOK(v)'
  BY <1>5 DEF JobOK, UploadOK, DeletionOK, ReaderOK, ClientOK
<1>6. FilesMatchRows'
  BY DEF FilesMatchRows, Working
<1> QED  BY <1>1, <1>2, <1>3, <1>4, <1>5, <1>6

\* The file that is removed has no row and no reader.
LEMMA CompensateKeeps ==
  ASSUME IInv, NEW w \in Workers, Compensate(w)
  PROVE  IInv'
<1> USE DEF IInv, Compensate
<1>1. TypeOK'
  OBVIOUS
<1>2. Guard!Exclusive'
  OBVIOUS
<1>3. RowsOK'
  BY DEF RowsOK, JobOK, UploadOK
<1>4. JobOK(w)'
  BY DEF JobOK
<1>5. ASSUME NEW v \in Workers, v # w  PROVE JobOK(v)'
  BY <1>5 DEF JobOK, UploadOK, DeletionOK, ReaderOK, ClientOK
<1>6. FilesMatchRows'
  BY DEF FilesMatchRows, Working, JobOK, UploadOK
<1> QED  BY <1>1, <1>2, <1>3, <1>4, <1>5, <1>6

\* A record without content has no file.
LEMMA CreateItemKeeps ==
  ASSUME IInv, NEW w \in Workers, NEW m \in Media, CreateItem(w, m)
  PROVE  IInv'
<1> USE DEF IInv, CreateItem, Fresh
<1>1. TypeOK'
  OBVIOUS
<1>2. Guard!Exclusive'
  OBVIOUS
<1>3. RowsOK'
  BY DEF RowsOK
<1>4. JobOK(w)'
  BY DEF JobOK
<1>5. ASSUME NEW v \in Workers, v # w  PROVE JobOK(v)'
  BY <1>5 DEF JobOK, UploadOK, DeletionOK, ReaderOK, ClientOK
<1>6. FilesMatchRows'
  BY DEF FilesMatchRows, Working
<1> QED  BY <1>1, <1>2, <1>3, <1>4, <1>5, <1>6

\* Only a medium that has a row, hence no upload, is authorized.
LEMMA AuthorizeKeeps ==
  ASSUME IInv, NEW w \in Workers, NEW m \in Media,
         NEW step \in {"update.authorized", "delete.authorized"}, Authorize(w, m, step)
  PROVE  IInv'
<1> USE DEF IInv, Authorize
<1>1. TypeOK'
  <2>1. [step |-> step, media |-> m, size |-> None] \in Job
    OBVIOUS
  <2>2. job' \in [Workers -> Job]
    BY <2>1
  <2> QED  BY <2>2
<1>2. Guard!Exclusive'
  OBVIOUS
<1>3. RowsOK'
  BY DEF RowsOK
<1>4. JobOK(w)'
  BY DEF RowsOK, JobOK, ClientOK
<1>5. ASSUME NEW v \in Workers, v # w  PROVE JobOK(v)'
  BY <1>5 DEF JobOK, UploadOK, DeletionOK, ReaderOK, ClientOK
<1>6. FilesMatchRows'
  BY DEF FilesMatchRows, Working
<1> QED  BY <1>1, <1>2, <1>3, <1>4, <1>5, <1>6

\* An update keeps the rows and the files in place.
LEMMA UpdateKeeps ==
  ASSUME IInv, NEW w \in Workers, NEW size \in Sizes, Update(w, size)
  PROVE  IInv'
<1> USE DEF IInv, Update
<1>1. TypeOK'
  OBVIOUS
<1>2. Guard!Exclusive'
  OBVIOUS
<1>3. RowsOK'
  BY DEF RowsOK
<1>4. JobOK(w)'
  BY DEF JobOK
<1>5. ASSUME NEW v \in Workers, v # w  PROVE JobOK(v)'
  BY <1>5 DEF JobOK, UploadOK, DeletionOK, ReaderOK, ClientOK
<1>6. FilesMatchRows'
  BY DEF FilesMatchRows, Working
<1> QED  BY <1>1, <1>2, <1>3, <1>4, <1>5, <1>6

\* A deletion that has not staged its file holds nothing.
LEMMA FindForDeletionKeeps ==
  ASSUME IInv, NEW w \in Workers, FindForDeletion(w)
  PROVE  IInv'
<1> USE DEF IInv, FindForDeletion
<1>1. TypeOK'
  OBVIOUS
<1>2. Guard!Exclusive'
  OBVIOUS
<1>3. RowsOK'
  BY DEF RowsOK
<1>4. JobOK(w)'
  BY DEF JobOK, ClientOK
<1>5. ASSUME NEW v \in Workers, v # w  PROVE JobOK(v)'
  BY <1>5 DEF JobOK, UploadOK, DeletionOK, ReaderOK, ClientOK
<1>6. FilesMatchRows'
  BY DEF FilesMatchRows, Working
<1> QED  BY <1>1, <1>2, <1>3, <1>4, <1>5, <1>6

\* An item with a content location is not deleted alone.
LEMMA DeleteMetadataKeeps ==
  ASSUME IInv, NEW w \in Workers, DeleteMetadata(w)
  PROVE  IInv'
<1> USE DEF IInv, DeleteMetadata
<1>1. TypeOK'
  OBVIOUS
<1>2. Guard!Exclusive'
  OBVIOUS
<1>3. RowsOK'
  BY DEF RowsOK
<1>4. JobOK(w)'
  BY DEF JobOK
<1>5. ASSUME NEW v \in Workers, v # w  PROVE JobOK(v)'
  BY <1>5 DEF JobOK, UploadOK, DeletionOK, ReaderOK, ClientOK
<1>6. FilesMatchRows'
  BY DEF FilesMatchRows, Working
<1> QED  BY <1>1, <1>2, <1>3, <1>4, <1>5, <1>6

\* The file is staged when nobody reads it.
LEMMA StageDeleteKeeps ==
  ASSUME IInv, NEW w \in Workers, StageDelete(w)
  PROVE  IInv'
<1> USE DEF IInv, StageDelete, Guard!AcquireWrite
<1>1. TypeOK'
  <2>1. /\ job' \in [Workers -> Job]
        /\ \A v \in Workers : job'[v].step # "idle" => job'[v].media # None
    BY JobMoves
  <2>2. /\ disk' \in [Media -> SUBSET Entries] /\ writing' \in [Media -> SUBSET Workers]
        /\ UNCHANGED <<items, located, reading, faulted>>
    OBVIOUS
  <2> QED  BY <2>1, <2>2
<1>2. Guard!Exclusive'
  OBVIOUS
<1>3. RowsOK'
  BY DEF RowsOK
<1>4. JobOK(w)'
  BY DEF RowsOK, JobOK, DeletionOK, ClientOK
<1>5. ASSUME NEW v \in Workers, v # w  PROVE JobOK(v)'
  BY <1>5 DEF JobOK, UploadOK, DeletionOK, ReaderOK, ClientOK
<1>6. FilesMatchRows'
  <2>1. PICK m \in Media : m = job[w].media
    OBVIOUS
  <2>2. \A n \in Media \ {m}, v \in Workers :
          disk'[n] = disk[n] /\ (job'[v].media = n <=> job[v].media = n)
          /\ (job[v].media = n => job'[v] = job[v])
    BY <2>1
  <2>3. located' = located /\ faulted' = faulted
    OBVIOUS
  <2>4. CASE job'[w].step = "delete.staged"
    <3>1. disk'[m] = {"staged"} /\ job'[w].media = m
      BY <1>4, <2>1, <2>4 DEF JobOK, DeletionOK
    <3> QED  BY <2>2, <2>3, <2>4, <3>1 DEF FilesMatchRows, Working
  <2>5. CASE job' = [job EXCEPT ![w] = Idle] /\ disk' = disk
    BY <2>3, <2>5 DEF FilesMatchRows, Working
  <2> QED  BY <2>4, <2>5
<1> QED  BY <1>1, <1>2, <1>3, <1>4, <1>5, <1>6

\* The rows go while the staged file is locked.
LEMMA DeleteManagedKeeps ==
  ASSUME IInv, NEW w \in Workers, DeleteManaged(w)
  PROVE  IInv'
<1> USE DEF IInv, DeleteManaged
<1>1. TypeOK'
  <2>1. /\ job' \in [Workers -> Job]
        /\ \A v \in Workers : job'[v].step # "idle" => job'[v].media # None
    BY JobMoves
  <2>2. /\ items' \in [Media -> Sizes \union {"absent"}] /\ located' \subseteq Media
        /\ UNCHANGED <<disk, reading, writing, faulted>>
    OBVIOUS
  <2> QED  BY <2>1, <2>2
<1>2. Guard!Exclusive'
  OBVIOUS
<1>3. RowsOK'
  BY DEF RowsOK
<1>4. JobOK(w)'
  BY DEF JobOK, DeletionOK, ClientOK
<1>5. ASSUME NEW v \in Workers, v # w  PROVE JobOK(v)'
  <2>1. PICK m \in Media : m = job[w].media /\ m \in located /\ disk[m] = {"staged"}
    BY DEF JobOK, DeletionOK
  <2>2. /\ job'[v] = job[v] /\ UNCHANGED <<disk, locks>>
        /\ \A u \in Workers : job'[u].media = job[u].media
    BY <1>5
  <2>3. \A n \in Media \ {m} :
          items'[n] = items[n] /\ (n \in located' <=> n \in located)
    BY <2>1
  <2>4. CASE job[v].media = m
    <3>1. job[v].step \notin Uploading \union Deleting /\ ~Reading(v)
      BY <1>5, <2>1, <2>4 DEF JobOK, UploadOK, DeletionOK, ReaderOK
    <3> QED  BY <2>1, <2>2, <2>4, <3>1 DEF JobOK, ClientOK
  <2>5. CASE job[v].media # m
    BY <2>1, <2>2, <2>3, <2>5 DEF JobOK, UploadOK, DeletionOK, ReaderOK, ClientOK
  <2> QED  BY <2>4, <2>5
<1>6. FilesMatchRows'
  <2>1. PICK m \in Media : m = job[w].media /\ disk[m] = {"staged"}
    BY DEF JobOK, DeletionOK
  <2>2. /\ job'[w].media = m /\ job'[w].step \in Deleting
        /\ \A v \in Workers \ {w} : job'[v] = job[v]
        /\ \A n \in Media \ {m} : n \in located' <=> n \in located
        /\ UNCHANGED <<disk, faulted>>
    BY <2>1
  <2>3. Working(m, Deleting)'
    BY <2>2 DEF Working
  <2>4. \A n \in Media \ {m}, steps \in SUBSET Unfinished :
          Working(n, steps) => Working(n, steps)'
    BY <2>1, <2>2 DEF Working
  <2> QED  BY <2>1, <2>2, <2>3, <2>4 DEF FilesMatchRows
<1> QED  BY <1>1, <1>2, <1>3, <1>4, <1>5, <1>6

\* The file that is removed has no row any more.
LEMMA CommitDeletionKeeps ==
  ASSUME IInv, NEW w \in Workers, CommitDeletion(w)
  PROVE  IInv'
<1> USE DEF IInv, CommitDeletion, Guard!ReleaseWrite
<1>1. TypeOK'
  <2>1. job' \in [Workers -> Job] /\ job[w].media \in Media
    OBVIOUS
  <2>2. \A v \in Workers : job'[v].step # "idle" => job'[v].media # None
    OBVIOUS
  <2>3. disk' \in [Media -> SUBSET Entries]
    <3>1. disk' = disk \/ disk' = [disk EXCEPT ![job[w].media] = @ \ {"staged"}]
      OBVIOUS
    <3> QED  BY <2>1, <3>1
  <2>5. writing' \in [Media -> SUBSET Workers]
    <3>1. \/ writing' = writing
          \/ writing' = [writing EXCEPT ![job[w].media] = @ \ {w}]
      OBVIOUS
    <3> QED  BY <2>1, <3>1
  <2>4. faulted' \subseteq Media /\ UNCHANGED <<items, located, reading>>
    BY <2>1
  <2> QED  BY <2>1, <2>2, <2>3, <2>4, <2>5
<1>2. Guard!Exclusive'
  OBVIOUS
<1>3. RowsOK'
  BY DEF RowsOK, JobOK, DeletionOK
<1>4. JobOK(w)'
  BY DEF JobOK
<1>5. ASSUME NEW v \in Workers, v # w  PROVE JobOK(v)'
  <2>1. PICK m \in Media : m = job[w].media /\ w \in writing[m] /\ disk[m] = {"staged"}
    BY DEF JobOK, DeletionOK
  <2>2. /\ job'[v] = job[v] /\ UNCHANGED <<items, located, reading>>
        /\ \A u \in Workers : job'[u].media \in {job[u].media, None}
        /\ \A n \in Media \ {m} : disk'[n] = disk[n] /\ writing'[n] = writing[n]
        /\ disk'[m] \subseteq disk[m]
    BY <1>5, <2>1
  <2>3. CASE job[v].media = m
    <3>1. job[v].step \notin Uploading \union Deleting /\ ~Reading(v)
      BY <1>5, <2>1, <2>3 DEF JobOK, UploadOK, DeletionOK, ReaderOK
    <3> QED  BY <2>1, <2>2, <2>3, <3>1 DEF JobOK, ClientOK
  <2>4. CASE job[v].media # m
    BY <2>1, <2>2, <2>4 DEF JobOK, UploadOK, DeletionOK, ReaderOK, ClientOK
  <2> QED  BY <2>3, <2>4
<1>6. FilesMatchRows'
  <2>1. PICK m \in Media : m = job[w].media /\ m \notin located /\ disk[m] = {"staged"}
    BY DEF JobOK, DeletionOK
  <2>2. \A n \in Media \ {m}, v \in Workers :
          disk'[n] = disk[n] /\ (job'[v].media = n <=> job[v].media = n)
          /\ (job[v].media = n => job'[v] = job[v])
    BY <2>1
  <2>3. m \in faulted' \/ disk'[m] = {}
    BY <2>1
  <2>4. located' = located /\ faulted \subseteq faulted'
    OBVIOUS
  <2> QED  BY <2>1, <2>2, <2>3, <2>4 DEF FilesMatchRows, Working
<1> QED  BY <1>1, <1>2, <1>3, <1>4, <1>5, <1>6

\* The file comes back with its rows.
LEMMA RollbackDeletionKeeps ==
  ASSUME IInv, NEW w \in Workers, RollbackDeletion(w)
  PROVE  IInv'
<1> USE DEF IInv, RollbackDeletion, Guard!ReleaseWrite
<1>1. TypeOK'
  OBVIOUS
<1>2. Guard!Exclusive'
  OBVIOUS
<1>3. RowsOK'
  BY DEF RowsOK, ReaderOK
<1>4. JobOK(w)'
  BY DEF JobOK
<1>5. ASSUME NEW v \in Workers, v # w  PROVE JobOK(v)'
  BY <1>5 DEF JobOK, UploadOK, DeletionOK, ReaderOK, ClientOK
<1>6. FilesMatchRows'
  BY DEF FilesMatchRows, Working, JobOK, DeletionOK
<1> QED  BY <1>1, <1>2, <1>3, <1>4, <1>5, <1>6

\* A reader is authorized for a row, hence meets no upload.
LEMMA AuthorizeReadingKeeps ==
  ASSUME IInv, NEW w \in Workers, NEW m \in Media, AuthorizeReading(w, m)
  PROVE  IInv'
<1> USE DEF IInv, AuthorizeReading
<1>1. TypeOK'
  OBVIOUS
<1>2. Guard!Exclusive'
  OBVIOUS
<1>3. RowsOK'
  BY DEF RowsOK
<1>4. JobOK(w)'
  BY DEF RowsOK, JobOK, ClientOK
<1>5. ASSUME NEW v \in Workers, v # w  PROVE JobOK(v)'
  BY <1>5 DEF JobOK, UploadOK, DeletionOK, ReaderOK, ClientOK
<1>6. FilesMatchRows'
  BY DEF FilesMatchRows, Working
<1> QED  BY <1>1, <1>2, <1>3, <1>4, <1>5, <1>6

\* A reader that has not opened its file holds nothing.
LEMMA FindForReadingKeeps ==
  ASSUME IInv, NEW w \in Workers, FindForReading(w)
  PROVE  IInv'
<1> USE DEF IInv, FindForReading
<1>1. TypeOK'
  OBVIOUS
<1>2. Guard!Exclusive'
  OBVIOUS
<1>3. RowsOK'
  BY DEF RowsOK
<1>4. JobOK(w)'
  BY DEF JobOK, ClientOK
<1>5. ASSUME NEW v \in Workers, v # w  PROVE JobOK(v)'
  <2>1. UNCHANGED <<store, locks>> /\ \A u \in Workers \ {w} : job'[u] = job[u]
    BY JobMoves
  <2>2. job'[w].media \in {job[w].media, None}
    OBVIOUS
  <2>3. job'[v] = job[v] /\ \A u \in Workers : job'[u].media \in {job[u].media, None}
    BY <1>5, <2>1, <2>2
  <2> QED  BY <2>1, <2>3 DEF JobOK, UploadOK, DeletionOK, ReaderOK, ClientOK
<1>6. FilesMatchRows'
  <2>1. \A v \in Workers : job[v].step \in Unfinished => job'[v] = job[v]
    BY JobMoves
  <2> QED  BY <2>1, FilesStay
<1> QED  BY <1>1, <1>2, <1>3, <1>4, <1>5, <1>6

\* A file is opened when nobody deletes it.
LEMMA OpenKeeps ==
  ASSUME IInv, NEW w \in Workers, Open(w)
  PROVE  IInv'
<1> USE DEF IInv, Open, Guard!AcquireRead
<1>0. /\ writing' = writing /\ UNCHANGED <<items, located, disk, faulted>>
      /\ \/ reading' = reading
         \/ /\ writing[job[w].media] = {} /\ job[w].media \in Media
            /\ reading' = [reading EXCEPT ![job[w].media] = @ \union {w}]
  OBVIOUS
<1>1. TypeOK'
  <2>1. /\ job' \in [Workers -> Job]
        /\ \A v \in Workers : job'[v].step # "idle" => job'[v].media # None
    BY JobMoves
  <2>2. reading' \in [Media -> SUBSET Workers]
    BY <1>0
  <2> HIDE DEF Open, IInv
  <2> QED  BY <1>0, <2>1, <2>2 DEF IInv
<1>2. Guard!Exclusive'
  BY <1>0
<1>3. RowsOK'
  BY DEF RowsOK
<1>4. JobOK(w)'
  BY DEF RowsOK, JobOK, ReaderOK, ClientOK
<1>5. ASSUME NEW v \in Workers, v # w  PROVE JobOK(v)'
  BY <1>5 DEF RowsOK, JobOK, UploadOK, DeletionOK, ReaderOK, ClientOK
<1>6. FilesMatchRows'
  <2>1. \A v \in Workers : job[v].step \in Unfinished => job'[v] = job[v]
    OBVIOUS
  <2> QED  BY <2>1, FilesStay
<1> QED  BY <1>1, <1>2, <1>3, <1>4, <1>5, <1>6

\* A reader keeps its lock while it streams.
LEMMA RecordAccessKeeps ==
  ASSUME IInv, NEW w \in Workers, RecordAccess(w)
  PROVE  IInv'
<1> USE DEF IInv, RecordAccess
<1>1. TypeOK'
  OBVIOUS
<1>2. Guard!Exclusive'
  OBVIOUS
<1>3. RowsOK'
  BY DEF RowsOK
<1>4. JobOK(w)'
  BY DEF JobOK, ReaderOK, ClientOK
<1>5. ASSUME NEW v \in Workers, v # w  PROVE JobOK(v)'
  BY <1>5 DEF JobOK, UploadOK, DeletionOK, ReaderOK, ClientOK
<1>6. FilesMatchRows'
  BY DEF FilesMatchRows, Working
<1> QED  BY <1>1, <1>2, <1>3, <1>4, <1>5, <1>6

\* A reader that leaves disturbs no other one.
LEMMA CloseReaderKeeps ==
  ASSUME IInv, NEW w \in Workers, CloseReader(w)
  PROVE  IInv'
<1> USE DEF IInv, CloseReader, Guard!ReleaseRead
<1>1. TypeOK'
  OBVIOUS
<1>2. Guard!Exclusive'
  OBVIOUS
<1>3. RowsOK'
  BY DEF RowsOK
<1>4. JobOK(w)'
  BY DEF JobOK
<1>5. ASSUME NEW v \in Workers, v # w  PROVE JobOK(v)'
  BY <1>5 DEF JobOK, UploadOK, DeletionOK, ReaderOK, ClientOK
<1>6. FilesMatchRows'
  BY DEF FilesMatchRows, Working
<1> QED  BY <1>1, <1>2, <1>3, <1>4, <1>5, <1>6

\* A request that has changed nothing may stop.
LEMMA FailKeeps ==
  ASSUME IInv, NEW w \in Workers, Fail(w)
  PROVE  IInv'
<1> USE DEF IInv, Fail
<1>1. TypeOK'
  OBVIOUS
<1>2. Guard!Exclusive'
  OBVIOUS
<1>3. RowsOK'
  BY DEF RowsOK
<1>4. JobOK(w)'
  BY DEF JobOK
<1>5. ASSUME NEW v \in Workers, v # w  PROVE JobOK(v)'
  BY <1>5 DEF JobOK, UploadOK, DeletionOK, ReaderOK, ClientOK
<1>6. FilesMatchRows'
  BY DEF FilesMatchRows, Working
<1> QED  BY <1>1, <1>2, <1>3, <1>4, <1>5, <1>6

\* A crash ends the requests and frees the locks, and excuses what they have
\* left unfinished.
LEMMA CrashKeeps ==
  ASSUME IInv, Crash
  PROVE  IInv'
<1> USE DEF IInv, Crash, Guard!Free
<1>1. TypeOK' /\ Guard!Exclusive'
  OBVIOUS
<1>2. RowsOK' /\ \A w \in Workers : JobOK(w)'
  BY DEF RowsOK, JobOK
<1>3. ASSUME NEW m \in Media \ faulted', NEW w \in Workers, job[w].media = m
      PROVE  job[w].step \notin Unfinished
  BY <1>3
<1>4. FilesMatchRows'
  BY <1>3 DEF FilesMatchRows, Working
<1> QED  BY <1>1, <1>2, <1>4

\* A new archive is empty.
LEMMA IInvInit == Init => IInv
  BY DEF Init, Guard!Init, Guard!Free, IInv, RowsOK, FilesMatchRows, JobOK

\* Every step keeps the invariant.
LEMMA IInvStep ==
  ASSUME IInv, [Next]_vars
  PROVE  IInv'
<1>1. CASE UNCHANGED vars
  BY <1>1 DEF vars, IInv, RowsOK, FilesMatchRows, Working, JobOK, UploadOK, DeletionOK, ReaderOK, ClientOK
<1>2. ASSUME NEW w \in Workers, Proceed(w)
      PROVE  IInv'
  BY <1>2, PublishKeeps, AbandonUploadKeeps, CreateManagedKeeps,
     RejectUploadKeeps, UpdateKeeps, FindForDeletionKeeps, DeleteMetadataKeeps,
     DeleteManagedKeeps, CommitDeletionKeeps, RollbackDeletionKeeps,
     FindForReadingKeeps, RecordAccessKeeps, CloseReaderKeeps, FailKeeps
  DEF Proceed
<1>3. ASSUME NEW w \in Workers, Wait(w)
      PROVE  IInv'
  BY <1>3, CompensateKeeps, StageDeleteKeeps, OpenKeeps DEF Wait
<1> QED
  BY <1>1, <1>2, <1>3, ReceiveKeeps, CreateItemKeeps, AuthorizeKeeps,
     AuthorizeReadingKeeps, CrashKeeps
  DEF Next

\* It holds of every reachable state.
LEMMA Invariance == Spec => []IInv
  BY IInvInit, IInvStep, PTL DEF Spec

-----------------------------------------------------------------------------
\* Rows, directory entries, locks and requests are well formed.
THEOREM TypeCorrect == Spec => []TypeOK
<1>1. IInv => TypeOK
  BY DEF IInv
<1> QED  BY <1>1, Invariance, PTL

\* No failure and no crash loses the content of a medium that is recorded.
THEOREM DataSafety == Spec => []NoDataLoss
<1>1. IInv => NoDataLoss
  BY DEF IInv, RowsOK, NoDataLoss
<1> QED  BY <1>1, Invariance, PTL

\* A stream never meets the deletion of what it reads.
THEOREM StreamSafety == Spec => []StreamsArePublished
<1>1. IInv => StreamsArePublished
  BY DEF IInv, JobOK, ReaderOK, StreamsArePublished
<1> QED  BY <1>1, Invariance, PTL

\* Files and rows agree but for requests at work and named faults.
THEOREM Reconciliation == Spec => []FilesMatchRows
<1>1. IInv => FilesMatchRows
  BY DEF IInv
<1> QED  BY <1>1, Invariance, PTL
-----------------------------------------------------------------------------
(* Who holds the locks: the part of LocksAreReleased that is about states.   *)

\* A request that neither takes nor releases a lock, nor leaves or enters a step
\* that has one, leaves the owners as they are.
LEMMA OwnersFrame ==
  ASSUME IInv, LocksHaveOwners, NEW w \in Workers,
         \A v \in Workers \ {w} : job'[v] = job[v],
         LET Held == Locking \union {"read.opened", "read.streaming"}
         IN  job[w].step \notin Held /\ job'[w].step \notin Held,
         UNCHANGED locks,
         \A m \in Media : disk[m] = {"staged"} => disk'[m] = disk[m],
         faulted \subseteq faulted'
  PROVE  LocksHaveOwners'
BY DEF IInv, LocksHaveOwners, Locking, Kept

\* A request that takes or releases a lock enters or leaves a step that has one.
LEMMA OwnersStep ==
  ASSUME IInv, LocksHaveOwners, [Next]_vars
  PROVE  LocksHaveOwners'
<1> USE DEF IInv
<1>1. CASE UNCHANGED vars
  BY <1>1 DEF vars, LocksHaveOwners, Kept
<1>2. ASSUME NEW w \in Workers, NEW m \in Media, Receive(w, m)
      PROVE  LocksHaveOwners'
  BY <1>2 DEF Receive, Fresh, Guard!AcquireWrite, LocksHaveOwners, Locking, Kept
<1>3. ASSUME NEW w \in Workers, NEW m \in Media,
             \/ CreateItem(w, m)
             \/ \E step \in {"update.authorized", "delete.authorized"} :
                  Authorize(w, m, step)
             \/ AuthorizeReading(w, m)
      PROVE  LocksHaveOwners'
  <2>1. /\ UNCHANGED <<disk, locks, faulted>>
        /\ job[w].step \notin Locking \union {"read.opened", "read.streaming"}
        /\ job'[w].step \notin Locking \union {"read.opened", "read.streaming"}
    <3>1. CASE CreateItem(w, m)
      BY <3>1 DEF CreateItem, Locking
    <3>2. ASSUME NEW step \in {"update.authorized", "delete.authorized"},
                 Authorize(w, m, step)
          PROVE  /\ UNCHANGED <<disk, locks, faulted>>
                 /\ job[w].step \notin Locking \union {"read.opened", "read.streaming"}
                 /\ job'[w].step \notin Locking \union {"read.opened", "read.streaming"}
      BY <3>2 DEF Authorize, Locking
    <3>3. CASE AuthorizeReading(w, m)
      BY <3>3 DEF AuthorizeReading, Locking
    <3> QED  BY <1>3, <3>1, <3>2, <3>3
  <2>2. \A v \in Workers \ {w} : job'[v] = job[v]
    BY <1>3 DEF CreateItem, Authorize, AuthorizeReading
  <2> QED  BY <2>1, <2>2, OwnersFrame
<1>4. ASSUME NEW w \in Workers, Publish(w) \/ AbandonUpload(w)
      PROVE  LocksHaveOwners'
  <2>1. PICK m \in Media : m = job[w].media /\ disk[m] = {"temporary"}
    BY <1>4 DEF Publish, AbandonUpload, JobOK, UploadOK
  <2>2. \A n \in Media \ {m} : disk'[n] = disk[n] /\ writing'[n] = writing[n]
    BY <1>4, <2>1 DEF Publish, AbandonUpload, Guard!ReleaseWrite
  <2>3. writing'[m] = {} /\ UNCHANGED reading /\ faulted \subseteq faulted'
    BY <1>4, <2>1 DEF Publish, AbandonUpload, Guard!ReleaseWrite
  <2>4. \A v \in Workers \ {w} : job'[v] = job[v]
    BY <1>4 DEF Publish, AbandonUpload
  <2>5. job[w].step = "upload.receiving" /\ job'[w].step \in {"upload.stored", "idle"}
    BY <1>4 DEF Publish, AbandonUpload
  <2>6. \A v \in Workers : job[v].step \in Locking /\ job[v].media = m => v = w
    BY <2>1, <2>5 DEF LocksHaveOwners, Locking
  <2> QED
    BY <2>1, <2>2, <2>3, <2>4, <2>5, <2>6 DEF LocksHaveOwners, Locking, Kept
<1>5. ASSUME NEW w \in Workers,
             \/ CreateManaged(w) \/ RejectUpload(w) \/ Compensate(w)
             \/ \E size \in Sizes : Update(w, size)
             \/ FindForDeletion(w) \/ DeleteMetadata(w)
             \/ FindForReading(w) \/ Fail(w)
      PROVE  LocksHaveOwners'
  <2>1. /\ UNCHANGED locks /\ faulted \subseteq faulted'
        /\ job[w].step \notin Locking \union {"read.opened", "read.streaming"}
        /\ job'[w].step \notin Locking \union {"read.opened", "read.streaming"}
    BY <1>5
    DEF CreateManaged, RejectUpload, Compensate, Update, FindForDeletion,
        DeleteMetadata, FindForReading, Fail, Locking
  <2>2. \A v \in Workers \ {w} : job'[v] = job[v]
    BY <1>5
    DEF CreateManaged, RejectUpload, Compensate, Update, FindForDeletion,
        DeleteMetadata, FindForReading, Fail
  <2>3. \A m \in Media : disk[m] = {"staged"} => disk'[m] = disk[m]
    BY <1>5
    DEF CreateManaged, RejectUpload, Compensate, Update, FindForDeletion,
        DeleteMetadata, FindForReading, Fail
  <2> QED  BY <2>1, <2>2, <2>3, OwnersFrame
<1>6. ASSUME NEW w \in Workers, DeleteManaged(w)
      PROVE  LocksHaveOwners'
  <2>1. /\ \A v \in Workers : job'[v].media = job[v].media
        /\ \A v \in Workers : v # w => job'[v].step = job[v].step
        /\ job[w].step = "delete.staged"
        /\ job'[w].step \in {"delete.committed", "delete.failed"}
    BY <1>6 DEF DeleteManaged
  <2>2. UNCHANGED <<disk, locks, faulted>>
    BY <1>6 DEF DeleteManaged
  <2> QED  BY <2>1, <2>2 DEF LocksHaveOwners, Locking, Kept
<1>7. ASSUME NEW w \in Workers, CommitDeletion(w) \/ RollbackDeletion(w)
      PROVE  LocksHaveOwners'
  <2>1. PICK m \in Media : m = job[w].media /\ disk[m] = {"staged"} /\ w \in writing[m]
    BY <1>7 DEF CommitDeletion, RollbackDeletion, JobOK, DeletionOK
  <2>2. \A n \in Media \ {m} : disk'[n] = disk[n] /\ writing'[n] = writing[n]
    BY <1>7, <2>1 DEF CommitDeletion, RollbackDeletion, Guard!ReleaseWrite
  <2>3. /\ UNCHANGED reading /\ faulted \subseteq faulted'
        /\ \/ writing'[m] = {}
           \/ writing'[m] = writing[m] /\ m \in faulted' /\ disk'[m] = disk[m]
    BY <1>7, <2>1 DEF CommitDeletion, RollbackDeletion, Guard!ReleaseWrite
  <2>4. (\A v \in Workers \ {w} : job'[v] = job[v]) /\ job'[w] = Idle
    BY <1>7 DEF CommitDeletion, RollbackDeletion
  <2>5. job[w].step \in {"delete.committed", "delete.failed"}
    BY <1>7 DEF CommitDeletion, RollbackDeletion
  <2>6. \A v \in Workers : v \in writing[m] => v = w
    BY <2>1
  <2> QED
    BY <2>1, <2>2, <2>3, <2>4, <2>5, <2>6 DEF LocksHaveOwners, Locking, Kept
<1>8. ASSUME NEW w \in Workers, StageDelete(w)
      PROVE  LocksHaveOwners'
  BY <1>8 DEF StageDelete, Guard!AcquireWrite, LocksHaveOwners, Locking, Kept
<1>9. ASSUME NEW w \in Workers, Open(w) \/ RecordAccess(w) \/ CloseReader(w)
      PROVE  LocksHaveOwners'
  <2>1. UNCHANGED <<disk, writing, faulted>> /\ job[w].step \notin Locking
        /\ job'[w].step \notin Locking
    BY <1>9 DEF Open, RecordAccess, CloseReader, Guard!AcquireRead,
                Guard!ReleaseRead, Locking
  <2>2. \A v \in Workers \ {w} : job'[v] = job[v]
    BY <1>9 DEF Open, RecordAccess, CloseReader
  <2>3. \A v \in Workers, m \in Media :
          v \in reading'[m] <=> Reading(v)' /\ job'[v].media = m
    BY <1>9 DEF Open, RecordAccess, CloseReader, Guard!AcquireRead,
                Guard!ReleaseRead, LocksHaveOwners
  <2> QED  BY <2>1, <2>2, <2>3 DEF LocksHaveOwners, Kept
<1>10. CASE Crash
  BY <1>10 DEF Crash, Guard!Free, LocksHaveOwners, Locking
<1> QED
  BY <1>1, <1>2, <1>3, <1>4, <1>5, <1>6, <1>7, <1>8, <1>9, <1>10
  DEF Next, Proceed, Wait

LEMMA OwnersInvariance == Spec => [](IInv /\ LocksHaveOwners)
<1>1. Init => IInv /\ LocksHaveOwners
  BY IInvInit DEF Init, Guard!Init, Guard!Free, LocksHaveOwners, Locking
<1>2. IInv /\ LocksHaveOwners /\ [Next]_vars => (IInv /\ LocksHaveOwners)'
  BY IInvStep, OwnersStep
<1> QED  BY <1>1, <1>2, PTL DEF Spec

\* Nothing but an unfinished deletion leaves a lock behind, whatever fails and
\* whenever: every other lock belongs to a request at a step that releases it.
THEOREM LockOwnership == Spec => []LocksHaveOwners
  BY OwnersInvariance, PTL

\* Requests cannot wait for each other in a circle: the holder of a lock that
\* another request waits for waits for none.
THEOREM DeadlockFreedom == Spec => []NobodyWaitsForAWaiter
<1>1. IInv /\ LocksHaveOwners => NobodyWaitsForAWaiter
  BY DEF IInv, LocksHaveOwners, NobodyWaitsForAWaiter, Waiting
<1> QED  BY <1>1, OwnersInvariance, PTL

-----------------------------------------------------------------------------
\* No request works on a file that a deletion has left staged, and none begins.
LEMMA OrphanStep ==
  ASSUME IInv, Next, NEW m \in Media, Orphaned(m)
  PROVE  Orphaned(m)' /\ (m \in located' <=> m \in located)
<1> USE DEF IInv
<1>1. disk[m] = {"staged"}
      /\ \A v \in Workers : job[v].media = m => job[v].step \notin Deleting
  BY DEF Orphaned, Working
<1>2. \A v \in Workers : job[v].media = m => job[v].step \notin Uploading
  <2>1. ASSUME NEW v \in Workers, job[v].media = m, job[v].step \in Uploading
        PROVE  FALSE
    <3>1. UploadOK(v, m)
      BY <2>1 DEF JobOK
    <3> QED  BY <1>1, <3>1 DEF UploadOK
  <2> QED  BY <2>1
<1>3. ASSUME disk'[m] = disk[m], m \in located' <=> m \in located,
             \A v \in Workers : job'[v].media = m => job'[v].step \notin Deleting
      PROVE  Orphaned(m)' /\ (m \in located' <=> m \in located)
  BY <1>1, <1>3 DEF Orphaned, Working
<1>4. ASSUME NEW w \in Workers, NEW n \in Media, Receive(w, n)
      PROVE  Orphaned(m)' /\ (m \in located' <=> m \in located)
  <2>1. n # m /\ disk'[m] = disk[m] /\ located' = located
    BY <1>1, <1>4 DEF Receive, Fresh
  <2>2. /\ \A v \in Workers \ {w} : job'[v] = job[v]
        /\ job'[w].step = "upload.receiving"
    BY <1>4 DEF Receive
  <2>3. \A v \in Workers : job'[v].media = m => job'[v].step \notin Deleting
    BY <1>1, <2>2
  <2> QED  BY <1>3, <2>1, <2>3
<1>5. ASSUME NEW w \in Workers, NEW n \in Media,
             \/ CreateItem(w, n)
             \/ \E step \in {"update.authorized", "delete.authorized"} :
                  Authorize(w, n, step)
             \/ AuthorizeReading(w, n)
      PROVE  Orphaned(m)' /\ (m \in located' <=> m \in located)
  <2>1. UNCHANGED <<disk, located>> /\ \A v \in Workers \ {w} : job'[v] = job[v]
    BY <1>5 DEF CreateItem, Authorize, AuthorizeReading
  <2>2. job'[w].step \notin Deleting
    <3>1. CASE CreateItem(w, n)
      BY <3>1 DEF CreateItem
    <3>2. ASSUME NEW step \in {"update.authorized", "delete.authorized"},
                 Authorize(w, n, step)
          PROVE  job'[w].step \notin Deleting
      BY <3>2 DEF Authorize
    <3>3. CASE AuthorizeReading(w, n)
      BY <3>3 DEF AuthorizeReading
    <3> QED  BY <1>5, <3>1, <3>2, <3>3
  <2> QED  BY <1>1, <1>3, <2>1, <2>2
<1>6. ASSUME NEW w \in Workers, Proceed(w) \/ Wait(w)
      PROVE  Orphaned(m)' /\ (m \in located' <=> m \in located)
  <2> DEFINE n == job[w].media
  <2> USE DEF Proceed, Wait, Publish, AbandonUpload, CreateManaged, RejectUpload,
          Update, FindForDeletion, DeleteMetadata, DeleteManaged, CommitDeletion,
          RollbackDeletion, FindForReading, RecordAccess, CloseReader, Fail,
          Compensate, StageDelete, Open
  <2>1. \A v \in Workers \ {w} : job'[v] = job[v]
    BY <1>6
  <2>2. job'[w].media \in {n, None} /\ (job'[w].media = None => job'[w] = Idle)
    BY <1>6
  <2>3. job'[w].step \in Deleting => job[w].step \in Deleting \/ Has(n, "published")
    BY <1>6
  <2>4. n # m => disk'[m] = disk[m] /\ (m \in located' <=> m \in located)
    BY <1>6
  <2>5. n = m => disk'[m] = disk[m] /\ (m \in located' <=> m \in located)
    <3>1. n = m => job[w].step \notin Uploading \union Deleting
      BY <1>1, <1>2
    <3> QED  BY <1>1, <1>6, <3>1
  <2>6. ASSUME NEW v \in Workers, job'[v].media = m
        PROVE  job'[v].step \notin Deleting
    BY <1>1, <2>1, <2>2, <2>3, <2>6
  <2> QED  BY <1>3, <2>4, <2>5, <2>6
<1>7. CASE Crash
  BY <1>1, <1>3, <1>7 DEF Crash
<1> QED  BY <1>4, <1>5, <1>6, <1>7 DEF Next

\* A staged file that nobody deletes is out of reach of every later request: it
\* can be neither read nor deleted again, nor replaced by an upload.
THEOREM OrphansRemain == Spec => OrphansStay
<1>1. IInv /\ [Next]_vars =>
        [\A m \in Media : Orphaned(m) =>
           Orphaned(m)' /\ (m \in located' <=> m \in located)]_vars
  BY OrphanStep
<1> QED  BY <1>1, Invariance, PTL DEF Spec, OrphansStay
=============================================================================
