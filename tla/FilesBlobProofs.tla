--------------------------- MODULE FilesBlobProofs ---------------------------
(***************************************************************************)
(* What the rows of FilesStore say about the bucket: theorems for any      *)
(* number of workers, owners, files and keys, any limits, every            *)
(* combination of operations and faults.                                   *)
(***************************************************************************)
EXTENDS FilesStoreProofs

-----------------------------------------------------------------------------
(* A key has one use at a time: it waits to be stored, or a row names it,   *)
(* or it waits to be deleted.                                               *)

Storing(w) == req[w].op \in {"upload", "merge"}
Reading(w) == req[w].op = "get" /\ req[w].pc = "fetch"
Names(i, k) == files[i] # None /\ files[i].key = k

PendingKeys ==
    \A w \in Workers : Storing(w) =>
        /\ req[w].key \in spent
        /\ \A v \in Workers \ {w} : Storing(v) => req[v].key # req[w].key
        /\ \A i \in FileIds : ~Names(i, req[w].key)
        /\ req[w].pc = "commit" => blobs[req[w].key] = req[w].content

RowKeys ==
    \A i \in FileIds : (files[i] # None /\ files[i].key # None) =>
        /\ files[i].key \in spent
        /\ \A j \in FileIds \ {i} : ~Names(j, files[i].key)

DeadKeys ==
    \A w \in Workers : req[w].pc = "unlink" =>
        /\ Dead(w) \in spent
        /\ \A i \in FileIds : ~Names(i, Dead(w))
        /\ \A v \in Workers : Storing(v) => req[v].key # Dead(w)

(* A get follows its row into the bucket without a lock: the row may have   *)
(* been replaced or deleted since, but nothing else.                        *)
ReadKey(i, row) ==
    /\ i \in FileIds /\ i < nextId /\ row.key \in spent
    /\ \A j \in FileIds \ {i} : ~Names(j, row.key)
    /\ \A v \in Workers : Storing(v) => req[v].key # row.key
    /\ \A v \in Workers : req[v].op = "merge" => req[v].id # i
    /\ \/ files[i] = None
       \/ /\ blobs[row.key] = row.sum
          /\ \A v \in Workers : req[v].pc = "unlink" => Dead(v) # row.key

ReadKeys ==
    \A w \in Workers : Reading(w) =>
        ReadKey(req[w].ids[1], req[w].rows[req[w].ids[1]])

BlobInv == PendingKeys /\ RowKeys /\ DeadKeys /\ NoDanglingKey /\ ReadKeys

(* The keys that occur are keys. *)
LEMMA KeysTyped ==
  ASSUME TypeInv
  PROVE  /\ \A w \in Workers : Storing(w) =>
               req[w].key \in Keys /\ req[w].key # None
         /\ \A i \in FileIds : files[i] # None => files[i].key \in Keys \cup {None}
         /\ \A w \in Workers : req[w].pc = "unlink" => Dead(w) \in Keys /\ req[w].op = "delete"
<1>1. \A w \in Workers : Storing(w) => req[w].key \in Keys /\ req[w].key # None
  BY BusyShaped, ConstantsAssumption DEF Storing, Shaped
<1>2. \A i \in FileIds : files[i] # None => files[i].key \in Keys \cup {None}
  BY DEF TypeInv, TypeOK, Row
<1>3. ASSUME NEW w \in Workers, req[w].pc = "unlink"
      PROVE  Dead(w) \in Keys /\ req[w].op = "delete"
  <2>1. Shaped(req[w]) /\ req[w] \in Request
    BY <1>3, BusyShaped DEF TypeInv, TypeOK
  <2>2. /\ req[w].op = "delete" /\ req[w].ids[1] \in FileIds
        /\ req[w].rows[req[w].ids[1]] # None /\ req[w].rows[req[w].ids[1]].key # None
    BY <1>3, <2>1 DEF Shaped
  <2> QED
    BY <2>1, <2>2 DEF Dead, Request, Row
<1> QED
  BY <1>1, <1>2, <1>3

(* No step but a delete of i takes away what a get of i still needs.        *)
LEMMA ReadsKept ==
  ASSUME ReadKeys,
         \A w \in Workers : Reading(w)' => Reading(w) /\ req'[w] = req[w],
         \A i \in FileIds : \A row : ReadKey(i, row) => ReadKey(i, row)'
  PROVE  ReadKeys'
<1> SUFFICES ASSUME NEW w \in Workers, Reading(w)'
             PROVE  ReadKey(req[w].ids[1], req[w].rows[req[w].ids[1]])'
  BY DEF ReadKeys
<1>1. Reading(w) /\ req'[w] = req[w]
  OBVIOUS
<1>2. PICK i \in FileIds : i = req[w].ids[1]
  BY <1>1 DEF ReadKeys, ReadKey
<1>3. PICK row : row = req[w].rows[i]
  OBVIOUS
<1>4. ReadKey(i, row)'
  BY <1>1, <1>2, <1>3 DEF ReadKeys
<1> QED
  BY <1>1, <1>2, <1>3, <1>4

(* A request that is answered, having removed at most the blob it had to.   *)
LEMMA BlobAnswer ==
  ASSUME TypeInv, LockInv, BlobInv, NEW w \in Workers, NEW status, Answer(w, status),
         UNCHANGED <<files, nextId, spent>>,
         \/ blobs' = blobs
         \/ req[w].pc = "unlink" /\ blobs' = [blobs EXCEPT ![Dead(w)] = None]
  PROVE  BlobInv'
<1>1. \A v \in Workers : req'[v].op # "none" \/ req'[v].pc # "idle" =>
         v # w /\ req'[v] = req[v]
  BY Answered
<1>2. \A v \in Workers : /\ Storing(v)' => v # w /\ Storing(v) /\ req'[v] = req[v]
                         /\ Reading(v)' => v # w /\ Reading(v) /\ req'[v] = req[v]
                         /\ req'[v].pc = "unlink" =>
                              /\ v # w /\ req[v].pc = "unlink" /\ Dead(v)' = Dead(v)
                              /\ req'[v] = req[v]
  BY <1>1 DEF Storing, Reading, Dead
<1>3. \A i \in FileIds : \A k : Names(i, k)' <=> Names(i, k)
  BY DEF Names
<1>4. \A k \in Keys : \/ blobs'[k] = blobs[k]
                      \/ req[w].pc = "unlink" /\ k = Dead(w)
  BY DEF TypeInv, TypeOK
<1>5. PendingKeys'
  BY <1>2, <1>3, <1>4, KeysTyped DEF BlobInv, PendingKeys, DeadKeys
<1>6. RowKeys'
  BY <1>3 DEF BlobInv, RowKeys
<1>7. DeadKeys'
  BY <1>2, <1>3 DEF BlobInv, DeadKeys
<1>8. NoDanglingKey'
  BY <1>4, KeysTyped DEF BlobInv, NoDanglingKey, DeadKeys, Names
<1>9. ReadKeys'
  <2>1. ASSUME NEW i \in FileIds, NEW row, ReadKey(i, row) PROVE ReadKey(i, row)'
    <3>1. row.key \in Keys
      BY <2>1 DEF ReadKey, TypeInv, TypeOK
    <3>2. \/ files[i] = None
          \/ blobs'[row.key] = row.sum
      BY <1>4, <2>1, <3>1 DEF ReadKey
    <3> QED
      BY <1>1, <1>2, <1>3, <2>1, <3>2 DEF ReadKey
  <2> QED
    BY <1>2, <2>1, ReadsKept DEF BlobInv
<1> QED
  BY <1>5, <1>6, <1>7, <1>8, <1>9 DEF BlobInv

(* A step that neither stores nor commits. *)
LEMMA BlobQuiet ==
  ASSUME TypeInv, BlobInv, UNCHANGED <<files, blobs, nextId, spent>>,
         NEW w \in Workers, \A v \in Workers \ {w} : req'[v] = req[v],
         req'[w].op = req[w].op, req'[w].key = req[w].key, req'[w].id = req[w].id,
         req[w].pc # "unlink", req'[w].pc # "unlink",
         Storing(w) => req'[w].pc # "commit",
         Reading(w)' => req'[w].ids = req[w].ids /\ req'[w].rows = req[w].rows
                        /\ req[w].pc = "fetch"
  PROVE  BlobInv'
<1>1. \A v \in Workers :
         /\ Storing(v)' <=> Storing(v)
         /\ req'[v].key = req[v].key /\ req'[v].op = req[v].op /\ req'[v].id = req[v].id
         /\ Storing(v) /\ req'[v].pc = "commit" => v # w
         /\ req'[v].pc = "unlink" => /\ v # w /\ req[v].pc = "unlink"
                                    /\ Dead(v)' = Dead(v)
  BY DEF Storing, Dead
<1>2. \A i \in FileIds : \A k : Names(i, k)' <=> Names(i, k)
  BY DEF Names
<1>3. PendingKeys' /\ RowKeys' /\ DeadKeys' /\ NoDanglingKey'
  BY <1>1, <1>2 DEF BlobInv, PendingKeys, RowKeys, DeadKeys, NoDanglingKey
<1>4. \A i \in FileIds : \A row : ReadKey(i, row) => ReadKey(i, row)'
  BY <1>1, <1>2 DEF ReadKey
<1>5. \A v \in Workers : Reading(v)' =>
         Reading(v) /\ req'[v].ids = req[v].ids /\ req'[v].rows = req[v].rows
  BY DEF Reading
<1>6. ReadKeys'
  <2> SUFFICES ASSUME NEW v \in Workers, Reading(v)'
               PROVE  ReadKey(req[v].ids[1], req[v].rows[req[v].ids[1]])'
    BY DEF ReadKeys
  <2>1. PICK i \in FileIds : i = req[v].ids[1]
    BY <1>5 DEF BlobInv, ReadKeys, ReadKey
  <2>2. PICK row : row = req[v].rows[i]
    OBVIOUS
  <2>3. ReadKey(i, row)'
    BY <1>4, <1>5, <2>1, <2>2 DEF BlobInv, ReadKeys
  <2> QED
    BY <1>5, <2>1, <2>2, <2>3
<1> QED
  BY <1>3, <1>6 DEF BlobInv

LEMMA BlobPut ==
  ASSUME TypeInv, BlobInv, NEW w \in Workers, Put(w)
  PROVE  BlobInv'
<1> DEFINE key == req[w].key
<1>1. /\ Storing(w) /\ key \in Keys /\ req[w].pc = "put"
      /\ blobs'[key] = req[w].content
      /\ \A k \in Keys \ {key} : blobs'[k] = blobs[k]
      /\ UNCHANGED <<files, nextId, spent>>
  BY BusyShaped DEF Put, Storing, Shaped, TypeInv, TypeOK
<1>2. /\ \A v \in Workers \ {w} : req'[v] = req[v]
      /\ req'[w] = [req[w] EXCEPT !.pc = "commit"] /\ req[w] \in Request
  BY DEF Put, Goto, TypeInv, TypeOK
<1>3. /\ req'[w].op = req[w].op /\ req'[w].key = req[w].key /\ req'[w].id = req[w].id
      /\ req'[w].content = req[w].content /\ req'[w].pc = "commit"
  BY <1>2 DEF Request
<1>4. \A v \in Workers :
         /\ Storing(v)' <=> Storing(v)
         /\ req'[v].key = req[v].key /\ req'[v].op = req[v].op /\ req'[v].id = req[v].id
         /\ req'[v].content = req[v].content
         /\ v # w => req'[v] = req[v]
         /\ req'[v].pc = "unlink" => /\ v # w /\ req[v].pc = "unlink"
                                    /\ Dead(v)' = Dead(v)
  BY <1>1, <1>2, <1>3 DEF Storing, Dead
<1>5. \A i \in FileIds : \A k : Names(i, k)' <=> Names(i, k)
  BY <1>1 DEF Names
<1>6. PendingKeys'
  <2> SUFFICES ASSUME NEW v \in Workers, Storing(v)'
               PROVE  /\ req'[v].key \in spent'
                      /\ \A u \in Workers \ {v} : Storing(u)' => req'[u].key # req'[v].key
                      /\ \A i \in FileIds : ~Names(i, req[v].key)'
                      /\ req'[v].pc = "commit" => blobs'[req'[v].key] = req'[v].content
    BY DEF PendingKeys
  <2>1. /\ req[v].key \in spent /\ req[v].key \in Keys
        /\ \A u \in Workers \ {v} : Storing(u) => req[u].key # req[v].key
        /\ \A i \in FileIds : ~Names(i, req[v].key)
        /\ req[v].pc = "commit" => blobs[req[v].key] = req[v].content
    BY <1>4, KeysTyped DEF BlobInv, PendingKeys
  <2>2. req'[v].pc = "commit" => blobs'[req'[v].key] = req'[v].content
    BY <1>1, <1>4, <2>1
  <2>3. \A i \in FileIds : ~Names(i, req[v].key)'
    BY <1>1, <1>4, <2>1 DEF Names
  <2> QED
    BY <1>1, <1>4, <2>1, <2>2, <2>3
<1>7. RowKeys' /\ DeadKeys'
  BY <1>1, <1>4, <1>5 DEF BlobInv, RowKeys, DeadKeys
<1>8. NoDanglingKey'
  BY <1>1, KeysTyped DEF BlobInv, PendingKeys, NoDanglingKey, Names
<1>9. ReadKeys'
  <2>1. ASSUME NEW i \in FileIds, NEW row, ReadKey(i, row) PROVE ReadKey(i, row)'
    <3>1. row.key \in Keys /\ row.key # key
      BY <1>1, <2>1 DEF ReadKey, TypeInv, TypeOK
    <3> HIDE DEF key
    <3> QED
      BY <1>1, <1>4, <1>5, <2>1, <3>1 DEF ReadKey
  <2> QED
    BY <1>3, <1>4, <2>1, ReadsKept DEF BlobInv, Reading
<1> QED
  BY <1>6, <1>7, <1>8, <1>9 DEF BlobInv

LEMMA BlobBegun ==
  ASSUME TypeInv, LockInv, BlobInv, NEW w \in Workers, NEW o \in Owners,
         \/ \E i \in FileIds, c \in Uploads(o), k \in Keys : StartUpload(w, o, i, c, k)
         \/ \E i \in FileIds : StartDelete(w, o, i)
         \/ \E i \in FileIds : StartGet(w, o, i)
         \/ \E ids \in Sources, k \in Keys : StartMerge(w, o, ids, k)
  PROVE  BlobInv'
<1>1. /\ \A v \in Workers \ {w} : req'[v] = req[v]
      /\ UNCHANGED <<files, blobs>>
      /\ req'[w].op \in {"upload", "delete", "merge"} => req'[w].pc = "lock"
      /\ req'[w].op = "get" => req'[w].pc = "fetch"
      /\ req'[w].op # "none" /\ req[w].pc = "idle"
      /\ Storing(w)' => req'[w].key \in Keys \ spent
      /\ spent' = IF Storing(w)' THEN spent \cup {req'[w].key} ELSE spent
      /\ req'[w].op = "merge" => req'[w].id = nextId /\ nextId \in FileIds
      /\ nextId' = nextId \/ nextId' = nextId + 1
  BY Begun DEF Storing
<1>2. TypeInv' /\ req'[w].op \in {"upload", "delete", "merge", "get"}
  BY <1>1, StartsTyped DEF TypeInv, TypeOK, Request
<1>3. req[w].op = "none"
  BY <1>1, BusyShaped DEF Shaped
<1>4. \A v \in Workers :
         /\ req'[v].pc \in {"unlink", "commit"} => v # w /\ req'[v] = req[v]
         /\ req'[v].pc = "unlink" => Dead(v)' = Dead(v)
         /\ Storing(v)' /\ v # w => Storing(v)
  BY <1>1, <1>2 DEF Dead, Storing
<1>5. \A i \in FileIds : \A k : Names(i, k)' <=> Names(i, k)
  BY <1>1 DEF Names
<1>6. \A i \in FileIds : \A k : k # None /\ Names(i, k) => k \in spent
  BY DEF BlobInv, RowKeys, Names
<1>7. PendingKeys'
  <2>1. Storing(w)' => \A i \in FileIds : ~Names(i, req'[w].key)
    BY <1>1, <1>6, ConstantsAssumption
  <2>2. \A v \in Workers \ {w} : Storing(v)' =>
          /\ req'[v] = req[v] /\ req[v].key \in spent
          /\ \A i \in FileIds : ~Names(i, req[v].key)
          /\ req[v].pc = "commit" => blobs[req[v].key] = req[v].content
          /\ \A u \in Workers \ {v, w} : Storing(u)' => req'[u].key # req[v].key
    BY <1>1, <1>4 DEF BlobInv, PendingKeys
  <2> QED
    BY <1>1, <1>4, <1>5, <2>1, <2>2 DEF PendingKeys, Names
<1>8. RowKeys'
  BY <1>1, <1>5 DEF BlobInv, RowKeys
<1>9. DeadKeys'
  <2>1. ASSUME NEW v \in Workers, req'[v].pc = "unlink"
        PROVE  /\ Dead(v)' \in spent' /\ \A i \in FileIds : ~Names(i, Dead(v))'
               /\ \A u \in Workers : Storing(u)' => req'[u].key # Dead(v)'
    <3>1. /\ v # w /\ req'[v] = req[v] /\ Dead(v)' = Dead(v) /\ Dead(v) \in spent
          /\ \A i \in FileIds : ~Names(i, Dead(v))
          /\ \A u \in Workers : Storing(u) => req[u].key # Dead(v)
      BY <1>4, <2>1 DEF BlobInv, DeadKeys
    <3> QED
      BY <1>1, <1>4, <1>5, <3>1 DEF Names
  <2> QED
    BY <2>1 DEF DeadKeys
<1>10. NoDanglingKey'
  BY <1>1 DEF BlobInv, NoDanglingKey
<1>11. ReadKeys'
  <2>1. ASSUME NEW i \in FileIds, NEW row, ReadKey(i, row) PROVE ReadKey(i, row)'
    BY <1>1, <1>2, <1>4, <1>5, <2>1
       DEF ReadKey, TypeInv, TypeOK, FileIds, Storing
  <2>2. ASSUME Reading(w)'
        PROVE  ReadKey(req[w].ids[1], req[w].rows[req[w].ids[1]])'
    <3>1. PICK i \in FileIds : /\ files[i] # None /\ files[i].key # None
                               /\ req'[w].ids = <<i>>
                               /\ req'[w].rows = [NoRows EXCEPT ![i] = files[i]]
      BY <2>2, Begun DEF Reading
    <3>2. req'[w].ids[1] = i /\ req'[w].rows[i] = files[i]
      BY <3>1 DEF NoRows
    <3>3. PICK row : row = files[i]
      OBVIOUS
    <3>4. /\ row.key \in spent /\ Names(i, row.key) /\ i < nextId
          /\ \A j \in FileIds \ {i} : ~Names(j, row.key)
          /\ blobs[row.key] = row.sum
      BY <3>1, <3>3 DEF BlobInv, RowKeys, NoDanglingKey, Names, LockInv,
                        IdsAreNew, FileIds, TypeInv, TypeOK
    <3>5. \A v \in Workers : /\ Storing(v) => req[v].key # row.key
                             /\ req[v].op = "merge" => req[v].id # i
                             /\ req[v].pc = "unlink" => Dead(v) # row.key
      BY <3>1, <3>3, <3>4 DEF BlobInv, PendingKeys, DeadKeys, LockInv, IdsAreNew
    <3>6. ReadKey(i, row)
      BY <3>4, <3>5 DEF ReadKey
    <3>7. ReadKey(i, row)'
      BY <2>1, <3>6
    <3> QED
      BY <3>1, <3>2, <3>3, <3>7
  <2>3. ASSUME NEW v \in Workers, v # w, Reading(v)'
        PROVE  ReadKey(req[v].ids[1], req[v].rows[req[v].ids[1]])'
    <3>1. Reading(v) /\ req'[v] = req[v]
      BY <1>1, <2>3 DEF Reading
    <3>2. PICK i \in FileIds : i = req[v].ids[1]
      BY <3>1 DEF BlobInv, ReadKeys, ReadKey
    <3>3. PICK row : row = req[v].rows[i]
      OBVIOUS
    <3>4. ReadKey(i, row)'
      BY <2>1, <3>1, <3>2, <3>3 DEF BlobInv, ReadKeys
    <3> QED
      BY <3>1, <3>2, <3>3, <3>4
  <2> QED
    BY <2>2, <2>3 DEF ReadKeys
<1> QED
  BY <1>7, <1>8, <1>9, <1>10, <1>11 DEF BlobInv

(* An upload or a merge hands its key over to a row. *)
LEMMA BlobStored ==
  ASSUME TypeInv, LockInv, BlobInv, NEW w \in Workers, CommitContent(w)
  PROVE  BlobInv'
<1>0. PICK x, key : /\ x = IF req[w].op = "upload" THEN req[w].ids[1] ELSE req[w].id
                    /\ key = req[w].key
  OBVIOUS
<1>1. /\ x \in FileIds /\ Storing(w) /\ req[w].pc = "commit"
      /\ files'[x] = Stored(req[w]) /\ \A i \in FileIds \ {x} : files'[i] = files[i]
      /\ UNCHANGED <<blobs, nextId, spent>> /\ Answer(w, "ok")
      /\ Stored(req[w]) # None /\ key \in Keys /\ key # None
      /\ Stored(req[w]).key = key /\ Stored(req[w]).sum = req[w].content
  BY <1>0, StoredTyped, KeysTyped DEF CommitContent, TypeInv, TypeOK, Storing
<1>2. /\ key \in spent /\ \A i \in FileIds : ~Names(i, key)
      /\ \A v \in Workers \ {w} : Storing(v) => req[v].key # key
      /\ blobs[key] = req[w].content
      /\ \A v \in Workers : req[v].pc = "unlink" => Dead(v) # key
  BY <1>0, <1>1 DEF BlobInv, PendingKeys, DeadKeys
<1>3. \A v \in Workers : req'[v].op # "none" \/ req'[v].pc # "idle" =>
         v # w /\ req'[v] = req[v]
  BY <1>1, Answered
<1>4. \A v \in Workers :
         /\ Storing(v)' => v # w /\ Storing(v) /\ req'[v] = req[v]
         /\ Reading(v)' => Reading(v) /\ req'[v] = req[v]
         /\ req'[v].pc = "unlink" =>
               /\ v # w /\ req[v].pc = "unlink" /\ Dead(v)' = Dead(v)
               /\ req'[v] = req[v]
  BY <1>3 DEF Storing, Reading, Dead
<1>5. /\ files[x] = None \/ req[w].op = "upload"
      /\ req[w].op = "merge" => x = req[w].id
      /\ req[w].op \in {"upload", "merge"}
  BY <1>0, <1>1 DEF LockInv, IdsAreNew, Storing
<1>6. /\ \A i \in FileIds \ {x} : \A k : Names(i, k)' <=> Names(i, k)
      /\ \A k : Names(x, k)' <=> k = key
  BY <1>1 DEF Names
<1>7. PendingKeys'
  BY <1>1, <1>2, <1>4, <1>6 DEF BlobInv, PendingKeys, Names
<1>8. RowKeys'
  <2>1. ASSUME NEW i \in FileIds, files'[i] # None, files'[i].key # None
        PROVE  /\ files'[i].key \in spent
               /\ \A j \in FileIds \ {i} : ~(files'[j] # None /\ files'[j].key = files'[i].key)
    <3>1. CASE i = x
      BY <1>1, <1>2, <3>1 DEF Names
    <3>2. CASE i # x
      BY <1>1, <1>2, <2>1, <3>2 DEF BlobInv, RowKeys, Names
    <3> QED
      BY <3>1, <3>2
  <2> QED
    BY <1>1, <2>1 DEF RowKeys, Names
<1>9. DeadKeys'
  BY <1>1, <1>2, <1>4, <1>6 DEF BlobInv, DeadKeys, Names
<1>10. NoDanglingKey'
  BY <1>1, <1>2 DEF BlobInv, NoDanglingKey
<1>11. ReadKeys'
  <2>1. ASSUME NEW i \in FileIds, NEW row, ReadKey(i, row) PROVE ReadKey(i, row)'
    <3>1. /\ row.key # key
          /\ req[w].op = "merge" => x # i
      BY <1>0, <1>1, <1>5, <2>1 DEF ReadKey
    <3>2. \/ files'[i] = None
          \/ /\ blobs'[row.key] = row.sum
             /\ \A v \in Workers : req'[v].pc = "unlink" => Dead(v)' # row.key
      <4>1. CASE files[i] = None /\ i # x
        BY <1>1, <4>1
      <4>2. CASE files[i] = None /\ i = x
        <5>1. req[w].op = "upload"
          BY <1>5, <3>1, <4>2
        <5>2. files[x] # None
          BY <1>0, <1>1, <5>1, OwnRow
        <5> QED
          BY <4>2, <5>2
      <4>3. CASE files[i] # None
        BY <1>1, <1>4, <2>1, <4>3 DEF ReadKey
      <4> QED
        BY <4>1, <4>2, <4>3
    <3> QED
      BY <1>1, <1>3, <1>4, <1>6, <2>1, <3>1, <3>2 DEF ReadKey, Names
  <2> QED
    BY <1>4, <2>1, ReadsKept DEF BlobInv
<1> QED
  BY <1>7, <1>8, <1>9, <1>10, <1>11 DEF BlobInv

(* A delete takes its key away from the row. *)
LEMMA BlobUnlinked ==
  ASSUME TypeInv, LockInv, BlobInv, NEW w \in Workers, CommitDelete(w)
  PROVE  BlobInv'
<1>0. PICK x, key : x = req[w].ids[1] /\ key = req[w].rows[x].key
  OBVIOUS
<1>1. /\ x \in FileIds /\ req[w].op = "delete" /\ req[w].pc = "commit"
      /\ files[x] # None /\ files[x].key = key
      /\ files'[x] = None /\ \A i \in FileIds \ {x} : files'[i] = files[i]
      /\ UNCHANGED <<blobs, nextId, spent>>
  BY <1>0, OwnRow DEF CommitDelete, TypeInv, TypeOK
<1>2. \/ req'[w] = NoRequest
      \/ /\ key # None /\ req'[w].pc = "unlink" /\ req'[w].op = "delete"
         /\ Dead(w)' = key
  <2>1. CASE Answer(w, "ok")
    BY <2>1, Answered
  <2>2. CASE key # None /\ Goto(w, "unlink")
    BY <1>0, <1>1, <2>2 DEF Goto, Dead, TypeInv, TypeOK, Request
  <2> QED
    BY <1>0, <2>1, <2>2 DEF CommitDelete
<1>3. \A v \in Workers \ {w} : req'[v] = req[v]
  BY DEF CommitDelete, Answer, Goto, TypeInv, TypeOK
<1>4. \A v \in Workers :
         /\ Storing(v)' => v # w /\ Storing(v) /\ req'[v] = req[v]
         /\ Reading(v)' => Reading(v) /\ req'[v] = req[v]
         /\ req'[v].op = "merge" => v # w /\ req'[v] = req[v]
         /\ req'[v].pc = "unlink" =>
               \/ v = w /\ key # None /\ Dead(v)' = key
               \/ v # w /\ req'[v] = req[v] /\ Dead(v)' = Dead(v)
  BY <1>2, <1>3 DEF Storing, Reading, Dead, NoRequest
<1>5. /\ \A i \in FileIds \ {x} : \A k : Names(i, k)' <=> Names(i, k)
      /\ \A k : ~Names(x, k)'
  BY <1>1 DEF Names
<1>6. key # None => /\ key \in spent /\ \A i \in FileIds \ {x} : ~Names(i, key)
                    /\ \A v \in Workers : Storing(v) => req[v].key # key
  BY <1>1 DEF BlobInv, RowKeys, PendingKeys, Names
<1>7. PendingKeys'
  BY <1>1, <1>4, <1>5 DEF BlobInv, PendingKeys, Names
<1>8. RowKeys'
  BY <1>1, <1>5 DEF BlobInv, RowKeys, Names
<1>9. DeadKeys'
  BY <1>1, <1>4, <1>5, <1>6 DEF BlobInv, DeadKeys, Names
<1>10. NoDanglingKey'
  BY <1>1 DEF BlobInv, NoDanglingKey
<1>11. ReadKeys'
  <2>1. ASSUME NEW i \in FileIds, NEW row, ReadKey(i, row) PROVE ReadKey(i, row)'
    <3>1. \/ files'[i] = None
          \/ /\ blobs'[row.key] = row.sum
             /\ \A v \in Workers : req'[v].pc = "unlink" => Dead(v)' # row.key
      <4>1. CASE i = x \/ files[i] = None
        BY <1>1, <4>1
      <4>2. CASE i # x /\ files[i] # None
        <5>1. key # row.key
          BY <1>1, <2>1, <4>2 DEF ReadKey, Names
        <5> QED
          BY <1>1, <1>3, <1>4, <2>1, <4>2, <5>1 DEF ReadKey
      <4> QED
        BY <4>1, <4>2
    <3> QED
      BY <1>1, <1>4, <1>5, <2>1, <3>1 DEF ReadKey, Names
  <2> QED
    BY <1>4, <2>1, ReadsKept DEF BlobInv
<1> QED
  BY <1>7, <1>8, <1>9, <1>10, <1>11 DEF BlobInv

LEMMA BlobStep == TypeInv /\ LockInv /\ BlobInv /\ [Next]_vars => BlobInv'
<1> SUFFICES ASSUME TypeInv, LockInv, BlobInv, [Next]_vars PROVE BlobInv'
  OBVIOUS
<1>1. ASSUME NEW o \in Owners, Create(o) PROVE BlobInv'
  <2>1. /\ nextId \in FileIds /\ files[nextId] = None /\ nextId' = nextId + 1
        /\ \A i \in FileIds \ {nextId} : files'[i] = files[i]
        /\ files'[nextId] # None /\ files'[nextId].key = None
        /\ UNCHANGED <<blobs, spent, req>>
    BY <1>1, ConstantsAssumption
       DEF Create, LockInv, IdsAreNew, TypeInv, TypeOK, FileIds, Row
  <2>2. \A i \in FileIds : \A k : k # None => (Names(i, k)' <=> Names(i, k))
    BY <2>1 DEF Names
  <2>3. None \notin Keys
    BY ConstantsAssumption
  <2>4. PendingKeys' /\ DeadKeys'
    BY <2>1, <2>2, KeysTyped, ConstantsAssumption
       DEF BlobInv, PendingKeys, DeadKeys, Storing, Dead
  <2>5. RowKeys' /\ NoDanglingKey'
    BY <2>1, <2>2 DEF BlobInv, RowKeys, NoDanglingKey, Names
  <2>6. ReadKeys'
    <3>1. ASSUME NEW i \in FileIds, NEW row, ReadKey(i, row) PROVE ReadKey(i, row)'
      <4>1. row.key # None /\ i # nextId /\ i < nextId'
        BY <2>1, <2>3, <3>1 DEF ReadKey, TypeInv, TypeOK, FileIds
      <4> QED
        BY <2>1, <2>2, <3>1, <4>1 DEF ReadKey, Storing, Dead
    <3> QED
      BY <2>1, <3>1, ReadsKept DEF BlobInv, Reading
  <2> QED
    BY <2>4, <2>5, <2>6 DEF BlobInv
<1>2. ASSUME NEW w \in Workers, NEW i \in FileIds, LockRow(w, i) PROVE BlobInv'
  <2>1. Shaped(req[w]) /\ req \in [Workers -> Request] /\ req[w] \in Request
    BY <1>2, BusyShaped DEF LockRow, TypeInv, TypeOK
  <2> DEFINE p == IF Wanted(w) # {i} THEN "lock" ELSE AfterLock(req[w].op)
  <2>2. /\ req' = [req EXCEPT ![w].rows[i] = files[i], ![w].pc = p]
        /\ req[w].pc = "lock" /\ UNCHANGED <<files, blobs, nextId, spent>>
    BY <1>2 DEF LockRow
  <2>3. /\ p # "unlink" /\ req[w].op # "get"
        /\ req[w].op # "delete" => p # "commit"
    BY <2>1, <2>2 DEF Shaped, AfterLock
  <2> HIDE DEF p
  <2>4. /\ \A v \in Workers \ {w} : req'[v] = req[v]
        /\ req'[w].op = req[w].op /\ req'[w].key = req[w].key
        /\ req'[w].id = req[w].id /\ req'[w].pc = p
    BY <2>1, <2>2 DEF Request
  <2> QED
    BY <2>2, <2>3, <2>4, BlobQuiet DEF Storing, Reading
<1>3. ASSUME NEW w \in Workers, Refuse(w) PROVE BlobInv'
  BY <1>3, BlobAnswer DEF Refuse
<1>4. ASSUME NEW w \in Workers, Fetch(w) \/ Merge(w), ~Refuse(w) PROVE BlobInv'
  <2>1. Storing(w) => req'[w].pc # "commit"
    <3>1. req \in [Workers -> Request] /\ req[w] \in Request
      BY DEF TypeInv, TypeOK
    <3>2. CASE Merge(w)
      BY <1>4, <3>1, <3>2 DEF Merge, Request
    <3>3. CASE Fetch(w)
      <4>1. Shaped(req[w])
        BY <3>3, BusyShaped DEF Fetch
      <4> DEFINE n == Len(req[w].got) + 1
                 source == req[w].rows[req[w].ids[n]]
                 got == Append(req[w].got,
                               IF source.key = None THEN None ELSE blobs[source.key])
                 p == IF n < Len(req[w].ids) THEN "fetch"
                      ELSE IF req[w].op = "merge" THEN "merge" ELSE "commit"
      <4>2. /\ req' = [req EXCEPT ![w].got = got, ![w].pc = p]
            /\ req[w].pc = "fetch"
        BY <1>4, <3>3 DEF Fetch
      <4>3. Storing(w) => p # "commit"
        BY <4>1, <4>2 DEF Storing, Shaped
      <4> HIDE DEF got, p
      <4> QED
        BY <3>1, <4>2, <4>3 DEF Request
    <3> QED
      BY <1>4, <3>2, <3>3
  <2>2. /\ UNCHANGED <<files, blobs, nextId, spent>>
        /\ req[w].pc \in {"fetch", "merge"}
    BY <1>4, Carries DEF Fetch, Merge
  <2>3. Reading(w)' => req[w].pc = "fetch"
    BY <1>4, <2>2, BusyShaped, Carries DEF Reading, Shaped
  <2> QED
    BY <1>4, <2>1, <2>2, <2>3, BlobQuiet, Carries
<1>5. ASSUME NEW w \in Workers, CommitGet(w) \/ Unlink(w) \/ UnlinkFails(w)
      PROVE  BlobInv'
  BY <1>5, BlobAnswer DEF CommitGet, Unlink, UnlinkFails
<1>6. CASE UNCHANGED vars
  <2>1. \A i \in FileIds : \A row : ReadKey(i, row)' <=> ReadKey(i, row)
    BY <1>6 DEF vars, ReadKey, Names, Storing, Dead
  <2> QED
    BY <1>6, <2>1, ReadsKept DEF vars, BlobInv, PendingKeys, RowKeys, DeadKeys,
       NoDanglingKey, Names, Storing, Reading, Dead
<1> QED
  BY <1>1, <1>2, <1>3, <1>4, <1>5, <1>6, BlobPut, BlobBegun, BlobStored,
     BlobUnlinked DEF Next, Continue, NotFound, Abort

LEMMA Invariants == Spec => [](TypeInv /\ LockInv /\ BlobInv)
<1>1. Init => TypeInv /\ LockInv /\ BlobInv
  BY IdleTyped, ConstantsAssumption
     DEF Init, TypeInv, TypeOK, LockInv, Held, IdsAreNew, Locking, NoRequest, BlobInv,
         PendingKeys, RowKeys, DeadKeys, NoDanglingKey, ReadKeys, Storing, Reading
<1> QED
  BY <1>1, TypeStep, LockStep, BlobStep, PTL DEF Spec

(* Committed metadata never points at nothing: at every moment of every     *)
(* upload, merge and delete, and whatever fails or stops half way, the blob *)
(* a row names exists and has the checksum the row records.                 *)
THEOREM RowsNeverDangle == Spec => []NoDanglingKey
<1>1. BlobInv => NoDanglingKey
  BY DEF BlobInv
<1> QED
  BY <1>1, Invariants, PTL

(* A get whose blob is gone or is not what the row says has lost it to a    *)
(* delete of that file, and not to an upload that replaced the content.     *)
THEOREM ReadersLoseOnlyToDeletes == Spec => []GoneOnlyWhenDeleted
<1>1. BlobInv => GoneOnlyWhenDeleted
  BY DEF BlobInv, ReadKeys, ReadKey, Reading, GoneOnlyWhenDeleted
<1> QED
  BY <1>1, Invariants, PTL
=============================================================================
