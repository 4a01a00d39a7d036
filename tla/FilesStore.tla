----------------------------- MODULE FilesStore ------------------------------
(***************************************************************************)
(* FilesService over PostgresFiles and S3ContentStorage.  Metadata rows    *)
(* are in PostgreSQL, under row locks and transactions; contents are blobs *)
(* in an object store that takes part in no transaction.  Every query that *)
(* waits for a lock and every call to the object store is a step of its    *)
(* own; what a transaction writes becomes visible when it commits.         *)
(*                                                                         *)
(* A content is the sequence of its pages, <<>> when it is no readable     *)
(* PDF, and stands for its own SHA-256.  A page tells who uploaded it.     *)
(***************************************************************************)
EXTENDS Naturals, Sequences, FiniteSets, SequencesExt

CONSTANTS
    Workers,    \* requests the API may be serving at the same time
    Owners,     \* authenticated users
    Marks,      \* tells the pages of one owner apart
    MaxPages,   \* max_pages of the merger
    MaxSources, \* sources a merge may name (10 in the code)
    MaxFiles,   \* bound: ids the sequence of the files table hands out
    Keys,       \* bound: the object keys that uuid4 ever generates
    Creators,   \* bound: the owners who create files; the others can only
                \* name files that are not theirs
    None,
    Ops,        \* which requests clients make
    Faults      \* "abort": a request may fail at any await or its worker may
                \* stop; "storage": the last delete of a blob may fail

FileIds == 1..MaxFiles
Page == Owners \X Marks
Content == UNION {[1..n -> Page] : n \in 0..MaxPages}
Row == [owner: Owners, key: Keys \cup {None}, sum: Content \cup {None}]

ASSUME ConstantsAssumption ==
    /\ MaxPages \in Nat \ {0} /\ MaxSources \in Nat /\ MaxFiles \in Nat
    /\ Creators \subseteq Owners
    /\ None \notin Workers \cup Owners \cup Keys
    /\ None \notin Content /\ None \notin Row
    /\ Ops \subseteq {"create", "upload", "delete", "merge", "get"}
    /\ Faults \subseteq {"abort", "storage"}

VARIABLES
    files,    \* the files table, as committed
    rowLock,  \* who holds SELECT ... FOR UPDATE on each row
    blobs,    \* the bucket
    nextId,   \* the next value of the id sequence
    spent,    \* keys already generated
    req,      \* the request each worker is serving
    reply     \* how each worker answered its last request

vars == <<files, rowLock, blobs, nextId, spent, req, reply>>

Steps == {"idle", "lock", "fetch", "merge", "put", "commit", "unlink"}

NoRows == [i \in FileIds |-> None]

NoRequest ==
    [op |-> "none", pc |-> "idle", owner |-> None, ids |-> <<>>, rows |-> NoRows,
     got |-> <<>>, content |-> None, key |-> None, id |-> 0]

Sources == {s \in UNION {[1..n -> FileIds] : n \in 2..MaxSources} : IsInjective(s)}

(* Mutant: rows are found by id alone. *)
OwnedByAnyone(o, i) == files[i] # None

Owned(o, i) == files[i] # None /\ files[i].owner = o

Goto(w, pc) == req' = [req EXCEPT ![w].pc = pc]

(* Mutant: the row locks outlive the transaction that took them. *)
ReleaseNothing(w) == UNCHANGED rowLock

Release(w) ==
    rowLock' = [i \in FileIds |-> IF rowLock[i] = w THEN None ELSE rowLock[i]]

(* The transaction ends, committed or rolled back, and the client hears.    *)
Answer(w, status) ==
    /\ req' = [req EXCEPT ![w] = NoRequest]
    /\ reply' = [reply EXCEPT ![w] = status]
    /\ Release(w)

Refuse(w) ==
    /\ Answer(w, "error")
    /\ UNCHANGED <<files, blobs, nextId, spent>>

-----------------------------------------------------------------------------
(* Requests begin.  The key and the id that put and INSERT will generate    *)
(* are drawn here, so that no bound stops a request half way.               *)

Begin(w, r) ==
    /\ r.op \in Ops
    /\ req[w].pc = "idle"
    /\ req' = [req EXCEPT ![w] = r]
    /\ reply' = [reply EXCEPT ![w] = "none"]
    /\ UNCHANGED <<files, rowLock, blobs>>

StartUpload(w, o, i, c, k) ==
    /\ k \notin spent
    /\ Begin(w, [NoRequest EXCEPT !.op = "upload", !.pc = "lock", !.owner = o,
                                  !.ids = <<i>>, !.content = c, !.key = k])
    /\ spent' = spent \cup {k}
    /\ UNCHANGED nextId

StartDelete(w, o, i) ==
    /\ Begin(w, [NoRequest EXCEPT !.op = "delete", !.pc = "lock", !.owner = o,
                                  !.ids = <<i>>])
    /\ UNCHANGED <<nextId, spent>>

(* Fewer than two, more than ten or repeated ids are refused at once. *)
StartMerge(w, o, ids, k) ==
    /\ k \notin spent
    /\ nextId \in FileIds
    /\ Begin(w, [NoRequest EXCEPT !.op = "merge", !.pc = "lock", !.owner = o,
                                  !.ids = ids, !.key = k, !.id = nextId])
    /\ spent' = spent \cup {k}
    /\ nextId' = nextId + 1

(* get reads the row without a lock.  A row that is absent, another owner's *)
(* or without content is answered without a second step.                    *)
StartGet(w, o, i) ==
    /\ Owned(o, i)
    /\ files[i].key # None
    /\ Begin(w, [NoRequest EXCEPT !.op = "get", !.pc = "fetch", !.owner = o,
                                  !.ids = <<i>>,
                                  !.rows = [NoRows EXCEPT ![i] = files[i]]])
    /\ UNCHANGED <<nextId, spent>>

(* create inserts its row and the audit row and commits. *)
Create(o) ==
    /\ "create" \in Ops /\ o \in Creators
    /\ nextId \in FileIds
    /\ files' = [files EXCEPT ![nextId] = [owner |-> o, key |-> None, sum |-> None]]
    /\ nextId' = nextId + 1
    /\ UNCHANGED <<rowLock, blobs, spent, req, reply>>

-----------------------------------------------------------------------------
(* get_owned(lock=True), one row at a time in ascending order.  The query   *)
(* finds nothing when the row is absent or another owner's, and looks again *)
(* after waiting for the lock.                                              *)

Wanted(w) == {i \in Range(req[w].ids) : req[w].rows[i] = None}

(* Mutant: the rows are locked in the order the caller named them. *)
NextNamed(w, i) ==
    LET ids == req[w].ids IN
    \E n \in DOMAIN ids :
        /\ ids[n] = i /\ i \in Wanted(w)
        /\ \A m \in DOMAIN ids : ids[m] \in Wanted(w) => n <= m

NextWanted(w, i) == i \in Wanted(w) /\ \A j \in Wanted(w) : i <= j

AfterLock(op) == CASE op = "upload" -> "put"
                   [] op = "delete" -> "commit"
                   [] op = "merge" -> "fetch"

(* Mutant: get_owned without select_for_update. *)
LockRowNot(w, i) ==
    /\ req[w].pc = "lock"
    /\ NextWanted(w, i)
    /\ Owned(req[w].owner, i)
    /\ req' = [req EXCEPT ![w].rows[i] = files[i],
                          ![w].pc = IF Wanted(w) # {i} THEN "lock"
                                    ELSE AfterLock(req[w].op)]
    /\ UNCHANGED <<files, rowLock, blobs, nextId, spent, reply>>

(* Mutant: a deletion removes the blob first, inside the transaction. *)
LockRowBlobFirst(w, i) ==
    /\ req[w].pc = "lock"
    /\ NextWanted(w, i)
    /\ Owned(req[w].owner, i)
    /\ rowLock[i] = None
    /\ rowLock' = [rowLock EXCEPT ![i] = w]
    /\ req' = [req EXCEPT ![w].rows[i] = files[i],
                          ![w].pc = IF Wanted(w) # {i} THEN "lock"
                                    ELSE AfterLock(req[w].op)]
    /\ blobs' = [k \in Keys |-> IF req[w].op = "delete" /\ k = files[i].key
                                THEN None ELSE blobs[k]]
    /\ UNCHANGED <<files, nextId, spent, reply>>

LockRow(w, i) ==
    /\ req[w].pc = "lock"
    /\ NextWanted(w, i)
    /\ Owned(req[w].owner, i)
    /\ rowLock[i] = None
    /\ rowLock' = [rowLock EXCEPT ![i] = w]
    /\ req' = [req EXCEPT ![w].rows[i] = files[i],
                          ![w].pc = IF Wanted(w) # {i} THEN "lock"
                                    ELSE AfterLock(req[w].op)]
    /\ UNCHANGED <<files, blobs, nextId, spent, reply>>

NotFound(w, i) ==
    /\ req[w].pc = "lock"
    /\ NextWanted(w, i)
    /\ ~Owned(req[w].owner, i)
    /\ Refuse(w)

(* Mutant: a checksum of nothing matches no content. *)
FetchUnchecked(w) ==
    LET r == req[w]
        n == Len(r.got) + 1
        source == r.rows[r.ids[n]]
        data == IF source.key = None THEN None ELSE blobs[source.key]
    IN
    /\ r.pc = "fetch"
    /\ data = source.sum
    /\ req' = [req EXCEPT ![w].got = Append(@, data),
                          ![w].pc = IF n < Len(r.ids) THEN "fetch"
                                    ELSE IF r.op = "merge" THEN "merge"
                                    ELSE "commit"]
    /\ UNCHANGED <<files, rowLock, blobs, nextId, spent, reply>>

(* content.get and the comparison of checksums, for get and for the sources *)
(* of a merge in the order the caller named them.                           *)
Fetch(w) ==
    LET r == req[w]
        n == Len(r.got) + 1
        source == r.rows[r.ids[n]]
        data == IF source.key = None THEN None ELSE blobs[source.key]
        readable == data # None /\ data = source.sum
    IN
    /\ r.pc = "fetch"
    /\ \/ readable
          /\ req' = [req EXCEPT ![w].got = Append(@, data),
                                ![w].pc = IF n < Len(r.ids) THEN "fetch"
                                          ELSE IF r.op = "merge" THEN "merge"
                                          ELSE "commit"]
          /\ UNCHANGED <<files, rowLock, blobs, nextId, spent, reply>>
       \/ ~readable
          /\ Refuse(w)

(* Mutant: the contents are merged in the order the rows were locked. *)
MergeInLockOrder(w) ==
    LET r == req[w]
        order == SortSeq(r.ids, <)
        merged == FlattenSeq([n \in DOMAIN order |-> r.rows[order[n]].sum])
    IN
    /\ r.pc = "merge"
    /\ <<>> \notin Range(r.got) /\ merged \in Content
    /\ req' = [req EXCEPT ![w].content = merged, ![w].pc = "put"]
    /\ UNCHANGED <<files, rowLock, blobs, nextId, spent, reply>>

(* merge_pdf_content: every source a readable PDF, the pages within limits. *)
Merge(w) ==
    LET r == req[w]
        merged == FlattenSeq(r.got)
    IN
    /\ r.pc = "merge"
    /\ \/ /\ <<>> \notin Range(r.got) /\ merged \in Content
          /\ req' = [req EXCEPT ![w].content = merged, ![w].pc = "put"]
          /\ UNCHANGED <<files, rowLock, blobs, nextId, spent, reply>>
       \/ /\ ~(<<>> \notin Range(r.got) /\ merged \in Content)
          /\ Refuse(w)

(* Mutant: the transaction ends before the content is stored. *)
PutUnlocked(w) ==
    /\ req[w].pc = "put"
    /\ blobs' = [blobs EXCEPT ![req[w].key] = req[w].content]
    /\ Goto(w, "commit")
    /\ Release(w)
    /\ UNCHANGED <<files, nextId, spent, reply>>

Put(w) ==
    /\ req[w].pc = "put"
    /\ blobs' = [blobs EXCEPT ![req[w].key] = req[w].content]
    /\ Goto(w, "commit")
    /\ UNCHANGED <<files, rowLock, nextId, spent, reply>>

-----------------------------------------------------------------------------
(* The audit row is inserted and the transaction commits. *)

(* set_content leaves the owner of the row as it is; a merge's row is new.  *)
Stored(r) ==
    [owner |-> IF r.op = "upload" THEN r.rows[r.ids[1]].owner ELSE r.owner,
     key |-> r.key, sum |-> r.content]

(* Mutant: the content an upload replaces is removed at once. *)
CommitAndTidy(w) ==
    LET r == req[w]
        old == IF r.op = "upload" THEN r.rows[r.ids[1]].key ELSE None
    IN
    /\ r.pc = "commit"
    /\ r.op \in {"upload", "merge"}
    /\ files' = [files EXCEPT ![IF r.op = "upload" THEN r.ids[1] ELSE r.id] = Stored(r)]
    /\ blobs' = [k \in Keys |-> IF k = old THEN None ELSE blobs[k]]
    /\ Answer(w, "ok")
    /\ UNCHANGED <<nextId, spent>>

CommitContent(w) ==
    LET r == req[w] IN
    /\ r.pc = "commit"
    /\ r.op \in {"upload", "merge"}
    /\ files' = [files EXCEPT ![IF r.op = "upload" THEN r.ids[1] ELSE r.id] = Stored(r)]
    /\ Answer(w, "ok")
    /\ UNCHANGED <<blobs, nextId, spent>>

(* Mutant: the object is never deleted. *)
CommitDeleteOnly(w) ==
    /\ req[w].pc = "commit"
    /\ req[w].op = "delete"
    /\ files' = [files EXCEPT ![req[w].ids[1]] = None]
    /\ Answer(w, "ok")
    /\ UNCHANGED <<blobs, nextId, spent>>

CommitDelete(w) ==
    LET r == req[w]
        i == r.ids[1]
    IN
    /\ r.pc = "commit"
    /\ r.op = "delete"
    /\ files' = [files EXCEPT ![i] = None]
    /\ \/ /\ r.rows[i].key = None
          /\ Answer(w, "ok")
       \/ /\ r.rows[i].key # None
          /\ Goto(w, "unlink")
          /\ Release(w)
          /\ UNCHANGED reply
    /\ UNCHANGED <<blobs, nextId, spent>>

CommitGet(w) ==
    /\ req[w].pc = "commit"
    /\ req[w].op = "get"
    /\ Answer(w, "ok")
    /\ UNCHANGED <<files, blobs, nextId, spent>>

(* After the transaction: content.delete. *)
Dead(w) == req[w].rows[req[w].ids[1]].key

Unlink(w) ==
    /\ req[w].pc = "unlink"
    /\ blobs' = [blobs EXCEPT ![Dead(w)] = None]
    /\ Answer(w, "ok")
    /\ UNCHANGED <<files, nextId, spent>>

(* The call fails; the store may have removed the object nevertheless.      *)
UnlinkFails(w) ==
    /\ "storage" \in Faults
    /\ req[w].pc = "unlink"
    /\ blobs' \in {blobs, [blobs EXCEPT ![Dead(w)] = None]}
    /\ Answer(w, "error")
    /\ UNCHANGED <<files, nextId, spent>>

(* An await fails inside the transaction, which rolls back, or the worker   *)
(* stops.                                                                   *)
Abort(w) ==
    /\ "abort" \in Faults
    /\ req[w].pc # "idle"
    /\ Refuse(w)

-----------------------------------------------------------------------------
Init ==
    /\ files = [i \in FileIds |-> None]
    /\ rowLock = [i \in FileIds |-> None]
    /\ blobs = [k \in Keys |-> None]
    /\ nextId = 1
    /\ spent = {}
    /\ req = [w \in Workers |-> NoRequest]
    /\ reply = [w \in Workers |-> "none"]

Continue(w) ==
    \/ \E i \in FileIds : LockRow(w, i) \/ NotFound(w, i)
    \/ Fetch(w) \/ Merge(w) \/ Put(w)
    \/ CommitContent(w) \/ CommitDelete(w) \/ CommitGet(w)
    \/ Unlink(w)

(* An owner uploads one page of their own, or something that is no PDF.     *)
Uploads(o) == {<<>>} \cup {<<p>> : p \in {o} \X Marks}

Next ==
    \/ \E o \in Owners : Create(o)
    \/ \E w \in Workers, o \in Owners, i \in FileIds :
          \/ StartDelete(w, o, i) \/ StartGet(w, o, i)
          \/ \E c \in Uploads(o), k \in Keys : StartUpload(w, o, i, c, k)
    \/ \E w \in Workers, o \in Owners, ids \in Sources, k \in Keys :
          StartMerge(w, o, ids, k)
    \/ \E w \in Workers : Continue(w) \/ UnlinkFails(w) \/ Abort(w)

Spec == Init /\ [][Next]_vars

(* A coroutine is resumed when its reply arrives, and PostgreSQL grants row *)
(* locks in the order they were asked for.                                  *)
Fairness ==
    \A w \in Workers :
        WF_vars(Continue(w)) /\ SF_vars(\E i \in FileIds : LockRow(w, i))

FairSpec == Spec /\ Fairness

-----------------------------------------------------------------------------
(* Properties. *)

Request ==
    [op: {"none", "upload", "delete", "merge", "get"}, pc: Steps,
     owner: Owners \cup {None}, ids: Seq(FileIds),
     rows: [FileIds -> Row \cup {None}], got: Seq(Content),
     content: Content \cup {None}, key: Keys \cup {None}, id: Nat]

(* Every variable holds values of its kind. *)
TypeOK ==
    /\ files \in [FileIds -> Row \cup {None}]
    /\ rowLock \in [FileIds -> Workers \cup {None}]
    /\ blobs \in [Keys -> Content \cup {None}]
    /\ nextId \in Nat
    /\ spent \subseteq Keys
    /\ req \in [Workers -> Request]
    /\ reply \in [Workers -> {"none", "ok", "error"}]

(* Committed metadata never points at nothing: the blob a row names exists  *)
(* and has the checksum the row records, at every moment of every upload,   *)
(* merge and delete and whatever fails.                                     *)
NoDanglingKey ==
    \A i \in FileIds :
        (files[i] # None /\ files[i].key # None) => blobs[files[i].key] = files[i].sum

(* What a request read under its row locks is still so when it commits.     *)
LockedRowsStay ==
    \A w \in Workers :
        (req[w].op \in {"upload", "delete", "merge"} /\ req[w].pc # "unlink") =>
            \A i \in FileIds : req[w].rows[i] # None => files[i] = req[w].rows[i]

(* The merged document is the sources as they are now, in the caller's      *)
(* order, although they were locked in ascending order and fetched one by   *)
(* one while other requests upload and delete.                              *)
MergedInCallerOrder ==
    \A w \in Workers :
        (req[w].op = "merge" /\ req[w].pc \in {"put", "commit"}) =>
            req[w].content =
                FlattenSeq([n \in DOMAIN req[w].ids |-> files[req[w].ids[n]].sum])

(* No page reaches a file of somebody who did not upload it.                *)
NoForeignPages ==
    \A i \in FileIds :
        (files[i] # None /\ files[i].key # None) =>
            \A p \in Range(blobs[files[i].key]) : p[1] = files[i].owner

(* A get that finds its content gone, having read the row before, can only  *)
(* have lost it to a delete: the file no longer exists either.              *)
GoneOnlyWhenDeleted ==
    \A w \in Workers :
        (req[w].op = "get" /\ req[w].pc = "fetch") =>
            LET i == req[w].ids[1]
                row == req[w].rows[i]
            IN  blobs[row.key] # row.sum => files[i] = None

(* Some request can always go on: requests never wait for each other in a   *)
(* circle, whichever rows their clients name in whichever order.            *)
Waiting(w) ==
    /\ req[w].pc = "lock"
    /\ \E i \in FileIds :
          NextWanted(w, i) /\ Owned(req[w].owner, i) /\ rowLock[i] # None
NoDeadlock ==
    (\E w \in Workers : req[w].pc # "idle") =>
        \E w \in Workers : req[w].pc # "idle" /\ ~Waiting(w)

(* An object is left unreferenced in the bucket only when an upload has     *)
(* replaced it, when a request was abandoned after its put, or when the     *)
(* last delete failed: put, commit and delete leave nothing else behind.    *)
Unreferenced(k) ==
    /\ blobs[k] # None
    /\ \A i \in FileIds : files[i] # None => files[i].key # k
    /\ \A w \in Workers :
          /\ req[w].pc = "commit" => req[w].key # k
          /\ req[w].pc = "unlink" => Dead(w) # k
Replaced(k) ==
    \E i \in FileIds : /\ files[i] # None /\ files[i].key = k
                       /\ files'[i] # None /\ files'[i].key # k
FailedWith(w, k) ==
    /\ \/ req[w].pc = "commit" /\ req[w].key = k
       \/ req[w].pc = "unlink" /\ Dead(w) = k
    /\ req'[w].pc = "idle" /\ reply'[w] = "error"
LeaksHaveACause ==
    [][\A k \in Keys : (~Unreferenced(k) /\ Unreferenced(k)') =>
          Replaced(k) \/ \E w \in Workers : FailedWith(w, k)]_vars

(* A deletion whose transaction has committed costs at worst an             *)
(* unreferenced object and nothing else: it is never answered as failed.    *)
CommittedDeleteIsAnswered ==
    [][\A w \in Workers :
          (req[w].pc = "unlink" /\ req'[w].pc = "idle") => reply'[w] = "ok"]_vars

(* The files as a client can read them: a row, and the blob its key names.  *)
catalog ==
    [i \in FileIds |->
        IF files[i] = None THEN None
        ELSE [owner |-> files[i].owner,
              content |-> IF files[i].key = None THEN None ELSE blobs[files[i].key]]]
Catalog == INSTANCE FileCatalog
ASSUME CatalogAssumption == None \notin Catalog!Entry

(* The service behaves like a catalog that changes one whole operation at a *)
(* time: no reader of rows and blobs ever sees half an upload, a merge of   *)
(* contents that were not together, or a deleted file come back.            *)
ImplementsCatalog == Catalog!Spec

(* Every request is answered. *)
EveryRequestAnswered ==
    \A w \in Workers : req[w].pc # "idle" ~> req[w].pc = "idle"
=============================================================================
