--------------------------- MODULE FilesStoreProofs --------------------------
(***************************************************************************)
(* Theorems about FilesStore, for any number of workers, owners, files and *)
(* keys, any limits and every combination of operations and faults.        *)
(***************************************************************************)
EXTENDS FilesStore, SequenceTheorems, TLAPS

-----------------------------------------------------------------------------
(* Typing.  Besides the kinds of the values, a request has the fields that  *)
(* its operation and its step use.                                          *)

Shaped(r) ==
    /\ r.op # "none" /\ r.pc # "idle" /\ r.owner \in Owners
    /\ r.op \in {"upload", "delete", "get"} =>
          r.ids[1] \in FileIds /\ Range(r.ids) = {r.ids[1]} /\ Len(r.ids) = 1
    /\ r.op \in {"upload", "merge"} => r.key \in Keys
    /\ r.op = "merge" => r.id \in FileIds
    /\ r.op = "upload" => r.content \in Content
    /\ r.pc = "lock" =>
          r.op \in {"upload", "delete", "merge"} /\ r.got = <<>> /\ 0 < Len(r.ids)
    /\ r.pc = "fetch" =>
          /\ r.op \in {"get", "merge"}
          /\ Len(r.got) < Len(r.ids)
          /\ \A i \in Range(r.ids) : r.rows[i] # None
    /\ r.pc = "merge" => r.op = "merge"
    /\ r.pc = "put" => r.op \in {"upload", "merge"}
    /\ r.pc \in {"put", "commit"} /\ r.op = "merge" => r.content \in Content
    /\ r.pc \in {"put", "commit", "unlink"} /\ r.op \in {"upload", "delete"} =>
          r.rows[r.ids[1]] # None
    /\ r.pc = "unlink" => r.op = "delete" /\ r.rows[r.ids[1]].key # None

TypeInv ==
    /\ TypeOK
    /\ \A w \in Workers : req[w] = NoRequest \/ Shaped(req[w])

LEMMA IdleTyped == NoRequest \in Request
BY ConstantsAssumption, EmptySeq DEF NoRequest, NoRows, Request, Steps

LEMMA BusyShaped ==
  ASSUME TypeInv, NEW w \in Workers, req[w].pc # "idle" \/ req[w].op # "none"
  PROVE  Shaped(req[w])
BY DEF TypeInv, NoRequest

(* Only w's request changes, and what it becomes is well formed. *)
LEMMA MoveOnTyped ==
  ASSUME TypeInv, NEW w \in Workers, NEW r \in Request,
         req' = [req EXCEPT ![w] = r], r = NoRequest \/ Shaped(r)
  PROVE  /\ req' \in [Workers -> Request]
         /\ \A v \in Workers : req'[v] = NoRequest \/ Shaped(req'[v])
<1>1. req \in [Workers -> Request]
  BY DEF TypeInv, TypeOK
<1>2. req'[w] = r /\ \A v \in Workers : v # w => req'[v] = req[v]
  BY <1>1
<1>3. req' \in [Workers -> Request]
  BY <1>1
<1> QED
  BY <1>2, <1>3 DEF TypeInv

LEMMA AnswerTyped ==
  ASSUME TypeInv, NEW w \in Workers, NEW status \in {"ok", "error"},
         Answer(w, status)
  PROVE  /\ req' \in [Workers -> Request]
         /\ rowLock' \in [FileIds -> Workers \cup {None}]
         /\ reply' \in [Workers -> {"none", "ok", "error"}]
         /\ \A v \in Workers : req'[v] = NoRequest \/ Shaped(req'[v])
<1>1. req' = [req EXCEPT ![w] = NoRequest]
  BY DEF Answer
<1>2. /\ req' \in [Workers -> Request]
      /\ \A v \in Workers : req'[v] = NoRequest \/ Shaped(req'[v])
  BY <1>1, IdleTyped, MoveOnTyped
<1> QED
  BY <1>2 DEF TypeInv, TypeOK, Answer, Release

LEMMA RefuseTyped ==
  ASSUME TypeInv, NEW w \in Workers, Refuse(w)
  PROVE  TypeInv'
BY AnswerTyped DEF TypeInv, TypeOK, Refuse

(* The contents clients upload are contents. *)
LEMMA UploadsAreContents ==
  ASSUME NEW o \in Owners, NEW c \in Uploads(o)
  PROVE  c \in Content
<1>1. CASE c = <<>>
  <2>1. 0 \in 0..MaxPages /\ <<>> \in [1..0 -> Page]
    BY ConstantsAssumption
  <2> QED
    BY <1>1, <2>1 DEF Content
<1>2. ASSUME NEW p \in {o} \X Marks, c = <<p>> PROVE c \in Content
  <2>1. 1 \in 0..MaxPages /\ p \in Page
    BY ConstantsAssumption DEF Page
  <2>2. <<p>> \in [1..1 -> Page]
    BY <2>1
  <2> QED
    BY <1>2, <2>1, <2>2 DEF Content
<1> QED
  BY <1>1, <1>2 DEF Uploads

LEMMA SingleId ==
  ASSUME NEW i \in FileIds
  PROVE  /\ <<i>> \in Seq(FileIds) /\ <<i>>[1] = i /\ Len(<<i>>) = 1
         /\ Range(<<i>>) = {i}
BY DEF Range

LEMMA StartsTyped ==
  ASSUME TypeInv, NEW w \in Workers, NEW o \in Owners
  PROVE  /\ \A i \in FileIds, c \in Uploads(o), k \in Keys :
                StartUpload(w, o, i, c, k) => TypeInv'
         /\ \A i \in FileIds : StartDelete(w, o, i) => TypeInv'
         /\ \A i \in FileIds : StartGet(w, o, i) => TypeInv'
         /\ \A ids \in Sources, k \in Keys : StartMerge(w, o, ids, k) => TypeInv'
<1>1. ASSUME NEW i \in FileIds, NEW c \in Uploads(o), NEW k \in Keys,
             StartUpload(w, o, i, c, k)
      PROVE  TypeInv'
  <2> DEFINE r == [NoRequest EXCEPT !.op = "upload", !.pc = "lock", !.owner = o,
                                    !.ids = <<i>>, !.content = c, !.key = k]
  <2>1. /\ r.op = "upload" /\ r.pc = "lock" /\ r.owner = o /\ r.ids = <<i>>
        /\ r.content = c /\ r.key = k /\ r.got = <<>>
    BY DEF NoRequest
  <2>2. r \in Request
    BY UploadsAreContents, SingleId, IdleTyped DEF Request, Steps
  <2>3. req' = [req EXCEPT ![w] = r]
    BY <1>1 DEF StartUpload, Begin
  <2> HIDE DEF r
  <2>4. Shaped(r)
    BY <2>1, <2>3, SingleId, UploadsAreContents DEF Shaped
  <2>5. TypeOK'
    BY <1>1, <2>2, <2>3 DEF StartUpload, Begin, TypeInv, TypeOK
  <2> QED
    BY <2>2, <2>3, <2>4, <2>5, MoveOnTyped DEF TypeInv
<1>2. ASSUME NEW i \in FileIds, StartDelete(w, o, i) PROVE TypeInv'
  <2> DEFINE r == [NoRequest EXCEPT !.op = "delete", !.pc = "lock", !.owner = o,
                                    !.ids = <<i>>]
  <2>1. /\ r.op = "delete" /\ r.pc = "lock" /\ r.owner = o /\ r.ids = <<i>>
        /\ r.got = <<>>
    BY DEF NoRequest
  <2>2. r \in Request
    BY SingleId, IdleTyped DEF Request, Steps
  <2>3. req' = [req EXCEPT ![w] = r]
    BY <1>2 DEF StartDelete, Begin
  <2> HIDE DEF r
  <2>4. Shaped(r)
    BY <2>1, <2>3, SingleId DEF Shaped
  <2>5. TypeOK'
    BY <1>2, <2>2, <2>3 DEF StartDelete, Begin, TypeInv, TypeOK
  <2> QED
    BY <2>2, <2>3, <2>4, <2>5, MoveOnTyped DEF TypeInv
<1>3. ASSUME NEW i \in FileIds, StartGet(w, o, i) PROVE TypeInv'
  <2> DEFINE f == [NoRows EXCEPT ![i] = files[i]]
             r == [NoRequest EXCEPT !.op = "get", !.pc = "fetch", !.owner = o,
                                    !.ids = <<i>>, !.rows = f]
  <2>1. /\ r.op = "get" /\ r.pc = "fetch" /\ r.owner = o /\ r.ids = <<i>>
        /\ r.rows = f /\ r.got = <<>>
    BY DEF NoRequest
  <2>2. f \in [FileIds -> Row \cup {None}] /\ f[i] = files[i] /\ files[i] # None
    BY <1>3 DEF NoRows, TypeInv, TypeOK, StartGet, Owned
  <2> HIDE DEF f
  <2>3. r \in Request
    BY <2>2, SingleId, IdleTyped DEF Request, Steps
  <2>4. req' = [req EXCEPT ![w] = r]
    BY <1>3 DEF StartGet, Begin, f
  <2> HIDE DEF r
  <2>5. Shaped(r)
    BY <2>1, <2>2, <2>4, SingleId DEF Shaped
  <2>6. TypeOK'
    BY <1>3, <2>3, <2>4 DEF StartGet, Begin, TypeInv, TypeOK
  <2> QED
    BY <2>3, <2>4, <2>5, <2>6, MoveOnTyped DEF TypeInv
<1>4. ASSUME NEW ids \in Sources, NEW k \in Keys, StartMerge(w, o, ids, k)
      PROVE  TypeInv'
  <2> DEFINE r == [NoRequest EXCEPT !.op = "merge", !.pc = "lock", !.owner = o,
                                    !.ids = ids, !.key = k, !.id = nextId]
  <2>1. /\ r.op = "merge" /\ r.pc = "lock" /\ r.owner = o /\ r.ids = ids
        /\ r.key = k /\ r.id = nextId /\ r.got = <<>>
    BY DEF NoRequest
  <2>2. /\ ids \in Seq(FileIds) /\ 0 < Len(ids)
        /\ nextId \in FileIds /\ nextId \in Nat
    <3>1. PICK n \in 2..MaxSources : ids \in [1..n -> FileIds]
      BY DEF Sources
    <3>2. ids \in Seq(FileIds) /\ Len(ids) = n
      BY <3>1, ConstantsAssumption
    <3> QED
      BY <1>4, <3>2, ConstantsAssumption DEF StartMerge, TypeInv, TypeOK
  <2>3. r \in Request
    BY <2>2, IdleTyped DEF Request, Steps
  <2>4. req' = [req EXCEPT ![w] = r]
    BY <1>4 DEF StartMerge, Begin
  <2> HIDE DEF r
  <2>5. Shaped(r)
    BY <2>1, <2>2, <2>4 DEF Shaped
  <2>6. TypeOK'
    BY <1>4, <2>3, <2>4 DEF StartMerge, Begin, TypeInv, TypeOK
  <2> QED
    BY <2>3, <2>4, <2>5, <2>6, MoveOnTyped DEF TypeInv
<1> QED
  BY <1>1, <1>2, <1>3, <1>4

(* The position a request reads next, and what is there. *)
LEMMA NextSource ==
  ASSUME TypeInv, NEW w \in Workers, req[w].pc = "fetch"
  PROVE  LET r == req[w]
             n == Len(r.got) + 1
         IN  /\ n \in 1..Len(r.ids) /\ r.ids[n] \in FileIds
             /\ r.rows[r.ids[n]] \in Row
<1> DEFINE r == req[w]
           n == Len(r.got) + 1
<1>1. r \in Request /\ Shaped(r)
  BY BusyShaped DEF TypeInv, TypeOK
<1>2. r.ids \in Seq(FileIds) /\ r.got \in Seq(Content) /\ Len(r.got) < Len(r.ids)
  BY <1>1 DEF Shaped, Request
<1>3. n \in 1..Len(r.ids) /\ r.ids[n] \in FileIds /\ r.ids[n] \in Range(r.ids)
  BY <1>2 DEF Range
<1> QED
  BY <1>1, <1>3 DEF Shaped, Request

LEMMA LockRowTyped ==
  ASSUME TypeInv, NEW w \in Workers, NEW i \in FileIds, LockRow(w, i)
  PROVE  TypeInv'
<1> DEFINE q == req[w]
           f == [q.rows EXCEPT ![i] = files[i]]
           p == IF Wanted(w) # {i} THEN "lock" ELSE AfterLock(q.op)
           r == [q EXCEPT !.rows = f, !.pc = p]
<1>1. q \in Request /\ q.pc = "lock" /\ Shaped(q)
  BY BusyShaped DEF TypeInv, TypeOK, LockRow
<1>2. f \in [FileIds -> Row \cup {None}] /\ f[i] = files[i] /\ files[i] # None
      /\ \A j \in FileIds \ {i} : f[j] = q.rows[j]
  BY <1>1 DEF Request, TypeInv, TypeOK, LockRow, Owned
<1>3. q.op \in {"upload", "delete", "merge"}
  BY <1>1 DEF Shaped
<1>4. /\ p \in Steps /\ p # "idle"
      /\ p # "lock" => /\ Wanted(w) = {i}
                        /\ \/ q.op = "upload" /\ p = "put"
                           \/ q.op = "delete" /\ p = "commit"
                           \/ q.op = "merge" /\ p = "fetch"
  BY <1>3 DEF AfterLock, Steps
<1> HIDE DEF f, p
<1>5. /\ r \in Request
      /\ r.op = q.op /\ r.pc = p /\ r.owner = q.owner /\ r.ids = q.ids /\ r.rows = f
      /\ r.got = q.got /\ r.content = q.content /\ r.key = q.key /\ r.id = q.id
  BY <1>1, <1>2, <1>4 DEF Request
<1>6. req' = [req EXCEPT ![w] = r]
  BY DEF LockRow, f, p
<1> HIDE DEF r
<1>7. p # "lock" => \A j \in Range(q.ids) : j \in FileIds /\ f[j] # None
  <2>1. \A j \in Range(q.ids) : j \in FileIds
    BY <1>1 DEF Request, Range
  <2> QED
    BY <1>2, <1>4, <2>1 DEF Wanted
<1>8. Shaped(r)
  <2>1. CASE p = "lock"
    BY <1>1, <1>5, <2>1 DEF Shaped
  <2>2. CASE p # "lock" /\ q.op \in {"upload", "delete"}
    <3>1. q.ids[1] \in Range(q.ids)
      BY <1>1, <2>2 DEF Shaped
    <3> QED
      BY <1>1, <1>4, <1>5, <1>7, <2>2, <3>1 DEF Shaped
  <2>3. CASE p # "lock" /\ q.op = "merge"
    BY <1>1, <1>4, <1>5, <1>7, <2>3, EmptySeq DEF Shaped
  <2> QED
    BY <1>3, <2>1, <2>2, <2>3
<1> QED
  BY <1>5, <1>6, <1>8, MoveOnTyped DEF TypeInv, TypeOK, LockRow

LEMMA FetchTyped ==
  ASSUME TypeInv, NEW w \in Workers, Fetch(w)
  PROVE  TypeInv'
<1> DEFINE q == req[w]
           n == Len(q.got) + 1
           source == q.rows[q.ids[n]]
           data == IF source.key = None THEN None ELSE blobs[source.key]
           got == Append(q.got, data)
           p == IF n < Len(q.ids) THEN "fetch"
                ELSE IF q.op = "merge" THEN "merge" ELSE "commit"
           r == [q EXCEPT !.got = got, !.pc = p]
<1>1. q \in Request /\ q.pc = "fetch" /\ Shaped(q)
  BY BusyShaped DEF TypeInv, TypeOK, Fetch
<1>2. CASE Refuse(w)
  BY <1>2, RefuseTyped
<1>3. ASSUME data # None, req' = [req EXCEPT ![w] = r],
             UNCHANGED <<files, rowLock, blobs, nextId, spent, reply>>
      PROVE  TypeInv'
  <2>1. data \in Content
    BY <1>1, <1>3, NextSource DEF TypeInv, TypeOK, Row
  <2>2. got \in Seq(Content) /\ Len(got) = n
    <3>1. q.got \in Seq(Content)
      BY <1>1 DEF Request
    <3> HIDE DEF data
    <3> QED
      BY <2>1, <3>1, AppendProperties
  <2>3. p \in Steps /\ q.op \in {"get", "merge"}
    BY <1>1 DEF Shaped, Steps
  <2> HIDE DEF got, p, data
  <2>4. /\ r \in Request
        /\ r.op = q.op /\ r.pc = p /\ r.owner = q.owner /\ r.ids = q.ids
        /\ r.rows = q.rows /\ r.got = got /\ r.content = q.content
        /\ r.key = q.key /\ r.id = q.id
    BY <1>1, <2>2, <2>3 DEF Request
  <2>5. Shaped(r)
    <3> HIDE DEF r
    <3> QED
      BY <1>1, <2>2, <2>3, <2>4 DEF Shaped, p
  <2> QED
    BY <1>3, <2>4, <2>5, MoveOnTyped DEF TypeInv, TypeOK
<1> QED
  BY <1>2, <1>3 DEF Fetch

LEMMA MergeTyped ==
  ASSUME TypeInv, NEW w \in Workers, Merge(w)
  PROVE  TypeInv'
<1> DEFINE q == req[w]
           merged == FlattenSeq(q.got)
           r == [q EXCEPT !.content = merged, !.pc = "put"]
<1>1. q \in Request /\ q.pc = "merge" /\ Shaped(q)
  BY BusyShaped DEF TypeInv, TypeOK, Merge
<1>2. CASE Refuse(w)
  BY <1>2, RefuseTyped
<1>3. ASSUME merged \in Content, req' = [req EXCEPT ![w] = r],
             UNCHANGED <<files, rowLock, blobs, nextId, spent, reply>>
      PROVE  TypeInv'
  <2> HIDE DEF merged
  <2>1. /\ r \in Request
        /\ r.op = q.op /\ r.pc = "put" /\ r.owner = q.owner /\ r.ids = q.ids
        /\ r.rows = q.rows /\ r.got = q.got /\ r.content = merged
        /\ r.key = q.key /\ r.id = q.id
    BY <1>1, <1>3 DEF Request, Steps
  <2>2. Shaped(r)
    <3> HIDE DEF r
    <3> QED
      BY <1>1, <1>3, <2>1 DEF Shaped
  <2> QED
    BY <1>3, <2>1, <2>2, MoveOnTyped DEF TypeInv, TypeOK
<1> QED
  BY <1>2, <1>3 DEF Merge

(* The request goes on to a step that needs nothing it does not have. *)
LEMMA GotoTyped ==
  ASSUME TypeInv, NEW w \in Workers, NEW pc \in {"commit", "unlink"},
         \/ req[w].pc = "put" /\ pc = "commit"
         \/ /\ req[w].pc = "commit" /\ pc = "unlink" /\ req[w].op = "delete"
            /\ req[w].rows[req[w].ids[1]].key # None,
         Goto(w, pc)
  PROVE  /\ req' \in [Workers -> Request]
         /\ \A v \in Workers : req'[v] = NoRequest \/ Shaped(req'[v])
<1> DEFINE q == req[w]
           r == [q EXCEPT !.pc = pc]
<1>1. q \in Request /\ Shaped(q)
  BY BusyShaped DEF TypeInv, TypeOK
<1>2. /\ r \in Request
      /\ r.op = q.op /\ r.pc = pc /\ r.owner = q.owner /\ r.ids = q.ids
      /\ r.rows = q.rows /\ r.got = q.got /\ r.content = q.content
      /\ r.key = q.key /\ r.id = q.id
  BY <1>1 DEF Request, Steps
<1>3. req' = [req EXCEPT ![w] = r]
  BY DEF Goto
<1>4. Shaped(r)
  <2> HIDE DEF r
  <2> QED
    BY <1>1, <1>2 DEF Shaped
<1> QED
  BY <1>2, <1>3, <1>4, MoveOnTyped

(* What a committing upload or merge writes, and where. *)
LEMMA StoredTyped ==
  ASSUME TypeInv, NEW w \in Workers, req[w].pc = "commit",
         req[w].op \in {"upload", "merge"}
  PROVE  /\ Stored(req[w]) \in Row /\ Stored(req[w]) # None
         /\ (IF req[w].op = "upload" THEN req[w].ids[1] ELSE req[w].id) \in FileIds
         /\ req[w].key \in Keys /\ req[w].content \in Content
         /\ Stored(req[w]).key = req[w].key /\ Stored(req[w]).sum = req[w].content
<1>1. Shaped(req[w])
  BY BusyShaped
<1>2. req[w].op = "upload" => req[w].rows[req[w].ids[1]] \in Row
  BY <1>1 DEF Shaped, TypeInv, TypeOK, Request
<1> QED
  BY <1>1, <1>2, ConstantsAssumption DEF Shaped, Stored, Row

LEMMA TypeStep == TypeInv /\ [Next]_vars => TypeInv'
<1> SUFFICES ASSUME TypeInv, [Next]_vars PROVE TypeInv'
  OBVIOUS
<1>1. ASSUME NEW o \in Owners, Create(o) PROVE TypeInv'
  <2>1. [owner |-> o, key |-> None, sum |-> None] \in Row
    BY DEF Row
  <2> QED
    BY <1>1, <2>1 DEF Create, TypeInv, TypeOK
<1>2. ASSUME NEW w \in Workers, NEW i \in FileIds, NotFound(w, i) PROVE TypeInv'
  BY <1>2, RefuseTyped DEF NotFound
<1>3. ASSUME NEW w \in Workers, Put(w) PROVE TypeInv'
  <2>1. req[w].key \in Keys /\ req[w].content \in Content
    BY <1>3, BusyShaped DEF Put, Shaped
  <2> QED
    BY <1>3, <2>1, GotoTyped DEF Put, TypeInv, TypeOK
<1>4. ASSUME NEW w \in Workers, CommitContent(w) PROVE TypeInv'
  BY <1>4, StoredTyped, AnswerTyped DEF CommitContent, TypeInv, TypeOK
<1>5. ASSUME NEW w \in Workers, CommitDelete(w) PROVE TypeInv'
  <2>1. files' \in [FileIds -> Row \cup {None}]
    BY <1>5 DEF CommitDelete, TypeInv, TypeOK
  <2>2. CASE Answer(w, "ok")
    BY <1>5, <2>1, <2>2, AnswerTyped DEF CommitDelete, TypeInv, TypeOK
  <2>3. CASE /\ req[w].rows[req[w].ids[1]].key # None
             /\ Goto(w, "unlink") /\ Release(w) /\ UNCHANGED reply
    BY <1>5, <2>1, <2>3, GotoTyped DEF CommitDelete, Release, TypeInv, TypeOK
  <2> QED
    BY <1>5, <2>2, <2>3 DEF CommitDelete
<1>6. ASSUME NEW w \in Workers, CommitGet(w) PROVE TypeInv'
  BY <1>6, AnswerTyped DEF CommitGet, TypeInv, TypeOK
<1>7. ASSUME NEW w \in Workers, Unlink(w) PROVE TypeInv'
  BY <1>7, AnswerTyped DEF Unlink, TypeInv, TypeOK
<1>8. ASSUME NEW w \in Workers, UnlinkFails(w) PROVE TypeInv'
  BY <1>8, AnswerTyped DEF UnlinkFails, TypeInv, TypeOK
<1>9. ASSUME NEW w \in Workers, Abort(w) PROVE TypeInv'
  BY <1>9, RefuseTyped DEF Abort
<1>10. CASE UNCHANGED vars
  BY <1>10 DEF vars, TypeInv, TypeOK
<1> QED
  BY <1>1, <1>2, <1>3, <1>4, <1>5, <1>6, <1>7, <1>8, <1>9, <1>10,
     StartsTyped, LockRowTyped, FetchTyped, MergeTyped DEF Next, Continue

(* The type invariant of FilesStore, with what each request has filled in   *)
(* by the step it is at, holds in every state.                              *)
THEOREM TypeCorrect == Spec => [](TypeOK /\ TypeInv)
<1>1. Init => TypeInv
  BY IdleTyped, ConstantsAssumption DEF Init, TypeInv, TypeOK
<1>2. TypeInv => TypeOK
  BY DEF TypeInv
<1> QED
  BY <1>1, <1>2, TypeStep, PTL DEF Spec

-----------------------------------------------------------------------------
(* What a step leaves of the other requests, and of its own. *)

(* A request that only reads or stores keeps what it asked for and locked.  *)
LEMMA Carries ==
  ASSUME TypeInv, NEW w \in Workers, Fetch(w) \/ Merge(w) \/ Put(w), ~Refuse(w)
  PROVE  /\ \A v \in Workers \ {w} : req'[v] = req[v]
         /\ req[w].pc \notin {"idle", "unlink", "commit"}
         /\ req'[w].pc \notin {"idle", "unlink", "lock"}
         /\ req'[w].op = req[w].op /\ req'[w].owner = req[w].owner
         /\ req'[w].ids = req[w].ids /\ req'[w].rows = req[w].rows
         /\ req'[w].key = req[w].key /\ req'[w].id = req[w].id
         /\ UNCHANGED <<files, rowLock, nextId, spent>>
<1>1. req \in [Workers -> Request] /\ req[w] \in Request
  BY DEF TypeInv, TypeOK
<1>2. CASE Fetch(w)
  <2> DEFINE n == Len(req[w].got) + 1
             source == req[w].rows[req[w].ids[n]]
             got == Append(req[w].got,
                           IF source.key = None THEN None ELSE blobs[source.key])
             p == IF n < Len(req[w].ids) THEN "fetch"
                  ELSE IF req[w].op = "merge" THEN "merge" ELSE "commit"
  <2>1. /\ req' = [req EXCEPT ![w].got = got, ![w].pc = p]
        /\ req[w].pc = "fetch" /\ UNCHANGED <<files, rowLock, nextId, spent>>
    BY <1>2 DEF Fetch
  <2>2. p \in {"fetch", "merge", "commit"}
    OBVIOUS
  <2> HIDE DEF got, p
  <2> QED
    BY <1>1, <2>1, <2>2 DEF Request
<1>3. CASE Merge(w)
  <2> DEFINE merged == FlattenSeq(req[w].got)
  <2>1. /\ req' = [req EXCEPT ![w].content = merged, ![w].pc = "put"]
        /\ req[w].pc = "merge" /\ UNCHANGED <<files, rowLock, nextId, spent>>
    BY <1>3 DEF Merge
  <2> HIDE DEF merged
  <2> QED
    BY <1>1, <2>1 DEF Request
<1>4. CASE Put(w)
  BY <1>1, <1>4 DEF Put, Goto, Request
<1> QED
  BY <1>2, <1>3, <1>4

(* What the other requests are, and what w is, once w has been answered.    *)
LEMMA Answered ==
  ASSUME TypeInv, NEW w \in Workers, NEW status, Answer(w, status)
  PROVE  /\ req'[w] = NoRequest /\ NoRequest.op = "none" /\ NoRequest.pc = "idle"
         /\ \A v \in Workers \ {w} : req'[v] = req[v]
         /\ \A i \in FileIds : rowLock[i] # w => rowLock'[i] = rowLock[i]
BY DEF TypeInv, TypeOK, Answer, Release, NoRequest

(* A new request has locked nothing. *)
LEMMA Begun ==
  ASSUME TypeInv, NEW w \in Workers, NEW o \in Owners,
         \/ \E i \in FileIds, c \in Uploads(o), k \in Keys : StartUpload(w, o, i, c, k)
         \/ \E i \in FileIds : StartDelete(w, o, i)
         \/ \E i \in FileIds : StartGet(w, o, i)
         \/ \E ids \in Sources, k \in Keys : StartMerge(w, o, ids, k)
  PROVE  /\ \A v \in Workers \ {w} : req'[v] = req[v]
         /\ req'[w].op \in {"upload", "delete", "merge"} =>
               req'[w].pc = "lock" /\ req'[w].rows = NoRows
         /\ req'[w].op \in {"upload", "merge"} =>
               req'[w].key \in Keys \ spent /\ spent' = spent \cup {req'[w].key}
         /\ req'[w].op \notin {"upload", "merge"} => spent' = spent
         /\ req'[w].op = "merge" =>
               req'[w].id = nextId /\ nextId \in FileIds /\ nextId' = nextId + 1
         /\ req'[w].op # "merge" => nextId' = nextId
         /\ req'[w].op = "get" =>
               \E i \in FileIds : /\ files[i] # None /\ files[i].key # None
                                  /\ req'[w].ids = <<i>> /\ req'[w].pc = "fetch"
                                  /\ req'[w].rows = [NoRows EXCEPT ![i] = files[i]]
         /\ req[w].pc = "idle" /\ req'[w].op # "none"
         /\ UNCHANGED <<files, rowLock, blobs>>
<1>1. req \in [Workers -> Request]
  BY DEF TypeInv, TypeOK
<1>2. ASSUME NEW i \in FileIds, NEW c \in Uploads(o), NEW k \in Keys,
             StartUpload(w, o, i, c, k)
      PROVE  /\ req' = [req EXCEPT ![w] = req'[w]]
             /\ req'[w].op = "upload" /\ req'[w].pc = "lock"
             /\ req'[w].rows = NoRows /\ req'[w].key = k
  BY <1>1, <1>2 DEF StartUpload, Begin, NoRequest
<1>3. ASSUME NEW i \in FileIds, StartDelete(w, o, i)
      PROVE  /\ req' = [req EXCEPT ![w] = req'[w]]
             /\ req'[w].op = "delete" /\ req'[w].pc = "lock"
             /\ req'[w].rows = NoRows
  BY <1>1, <1>3 DEF StartDelete, Begin, NoRequest
<1>4. ASSUME NEW i \in FileIds, StartGet(w, o, i)
      PROVE  /\ req' = [req EXCEPT ![w] = req'[w]]
             /\ req'[w].op = "get" /\ req'[w].pc = "fetch" /\ req'[w].ids = <<i>>
             /\ req'[w].rows = [NoRows EXCEPT ![i] = files[i]]
  BY <1>1, <1>4 DEF StartGet, Begin, NoRequest
<1>5. ASSUME NEW ids \in Sources, NEW k \in Keys, StartMerge(w, o, ids, k)
      PROVE  /\ req' = [req EXCEPT ![w] = req'[w]]
             /\ req'[w].op = "merge" /\ req'[w].pc = "lock"
             /\ req'[w].rows = NoRows /\ req'[w].key = k /\ req'[w].id = nextId
  BY <1>1, <1>5 DEF StartMerge, Begin, NoRequest
<1>6. ASSUME NEW i \in FileIds, NEW c \in Uploads(o), NEW k \in Keys,
             StartUpload(w, o, i, c, k)
      PROVE  /\ req[w].pc = "idle" /\ UNCHANGED <<files, rowLock, blobs>>
             /\ k \notin spent /\ spent' = spent \cup {k} /\ nextId' = nextId
  BY <1>6 DEF StartUpload, Begin
<1>7. ASSUME NEW ids \in Sources, NEW k \in Keys, StartMerge(w, o, ids, k)
      PROVE  /\ req[w].pc = "idle" /\ UNCHANGED <<files, rowLock, blobs>>
             /\ k \notin spent /\ spent' = spent \cup {k}
             /\ nextId \in FileIds /\ nextId' = nextId + 1
  BY <1>7 DEF StartMerge, Begin
<1>8. CASE \E i \in FileIds, c \in Uploads(o), k \in Keys : StartUpload(w, o, i, c, k)
  BY <1>1, <1>2, <1>6, <1>8
<1>9. CASE \E i \in FileIds : StartDelete(w, o, i)
  <2>1. \E i \in FileIds : StartDelete(w, o, i)
                            /\ req[w].pc = "idle" /\ UNCHANGED <<files, rowLock, blobs>>
                            /\ spent' = spent /\ nextId' = nextId
    BY <1>9 DEF StartDelete, Begin
  <2> QED
    BY <1>1, <1>3, <2>1
<1>10. CASE \E i \in FileIds : StartGet(w, o, i)
  <2>1. \E i \in FileIds : /\ StartGet(w, o, i)
                            /\ req[w].pc = "idle" /\ UNCHANGED <<files, rowLock, blobs>>
                            /\ spent' = spent /\ nextId' = nextId
                            /\ files[i] # None /\ files[i].key # None
    BY <1>10 DEF StartGet, Begin, Owned
  <2> QED
    BY <1>1, <1>4, <2>1
<1>11. CASE \E ids \in Sources, k \in Keys : StartMerge(w, o, ids, k)
  BY <1>1, <1>5, <1>7, <1>11
<1> QED
  BY <1>8, <1>9, <1>10, <1>11

-----------------------------------------------------------------------------
(* Locking.  A row read under its lock is locked and unchanged for as long  *)
(* as the request has it; ids that were not handed out have no row, and the *)
(* id a merge drew belongs to it alone.                                     *)

Locking(w) == req[w].op \in {"upload", "delete", "merge"} /\ req[w].pc # "unlink"

Held ==
    \A w \in Workers : Locking(w) =>
        \A i \in FileIds : req[w].rows[i] # None =>
            rowLock[i] = w /\ files[i] = req[w].rows[i]

IdsAreNew ==
    /\ \A i \in FileIds : i >= nextId => files[i] = None
    /\ \A w \in Workers : req[w].op = "merge" =>
          /\ req[w].id < nextId /\ files[req[w].id] = None
          /\ \A v \in Workers \ {w} : req[v].op = "merge" => req[v].id # req[w].id

LockInv == Held /\ IdsAreNew

(* The row a committing upload or delete changes is locked by it. *)
LEMMA OwnRow ==
  ASSUME TypeInv, LockInv, NEW w \in Workers, req[w].pc = "commit",
         req[w].op \in {"upload", "delete"}
  PROVE  LET i == req[w].ids[1]
         IN  /\ i \in FileIds /\ req[w].rows[i] # None /\ files[i] = req[w].rows[i]
             /\ rowLock[i] = w
             /\ \A v \in Workers \ {w} : Locking(v) => req[v].rows[i] = None
<1>1. Shaped(req[w])
  BY BusyShaped
<1> QED
  BY <1>1 DEF Shaped, LockInv, Held, Locking

(* A request that is answered and has changed no row. *)
LEMMA LockAnswer ==
  ASSUME TypeInv, LockInv, NEW w \in Workers, NEW status, Answer(w, status),
         UNCHANGED <<files, nextId>>
  PROVE  LockInv'
<1>1. Held'
  <2> SUFFICES ASSUME NEW v \in Workers, Locking(v)', NEW i \in FileIds,
                      req'[v].rows[i] # None
               PROVE  rowLock'[i] = v /\ files'[i] = req'[v].rows[i]
    BY DEF Held
  <2>1. v # w /\ req'[v] = req[v]
    BY Answered DEF Locking
  <2>2. rowLock[i] = v /\ files[i] = req[v].rows[i]
    BY <2>1 DEF LockInv, Held, Locking
  <2> QED
    BY <2>1, <2>2, Answered
<1>2. IdsAreNew'
  <2>1. \A v \in Workers : req'[v].op = "merge" => v # w /\ req'[v] = req[v]
    BY Answered
  <2> QED
    BY <2>1 DEF LockInv, IdsAreNew
<1> QED
  BY <1>1, <1>2 DEF LockInv

LEMMA LockCarried ==
  ASSUME TypeInv, LockInv, NEW w \in Workers,
         Fetch(w) \/ Merge(w) \/ Put(w), ~Refuse(w)
  PROVE  LockInv'
<1>1. \A v \in Workers : /\ req'[v].op = req[v].op /\ req'[v].rows = req[v].rows
                         /\ req'[v].id = req[v].id
                         /\ Locking(v)' => Locking(v)
  BY Carries DEF Locking
<1>2. UNCHANGED <<files, rowLock, nextId>>
  BY Carries
<1> QED
  BY <1>1, <1>2 DEF LockInv, Held, IdsAreNew

LEMMA LockStep == TypeInv /\ LockInv /\ [Next]_vars => LockInv'
<1> SUFFICES ASSUME TypeInv, LockInv, [Next]_vars PROVE LockInv'
  OBVIOUS
<1>1. ASSUME NEW o \in Owners, Create(o) PROVE LockInv'
  <2>1. /\ \A i \in FileIds \ {nextId} : files'[i] = files[i]
        /\ files[nextId] = None /\ nextId \in FileIds /\ nextId' = nextId + 1
        /\ UNCHANGED <<rowLock, req>>
    BY <1>1 DEF Create, LockInv, IdsAreNew, TypeInv, TypeOK, FileIds
  <2>2. Held'
    BY <2>1 DEF LockInv, Held, Locking
  <2>3. \A w \in Workers : req[w].op = "merge" => req[w].id \in FileIds
    BY BusyShaped DEF Shaped
  <2>4. IdsAreNew'
    BY <2>1, <2>3 DEF LockInv, IdsAreNew, FileIds, TypeInv, TypeOK
  <2> QED
    BY <2>2, <2>4 DEF LockInv
<1>2. ASSUME NEW w \in Workers, NEW o \in Owners,
             \/ \E i \in FileIds, c \in Uploads(o), k \in Keys :
                    StartUpload(w, o, i, c, k)
             \/ \E i \in FileIds : StartDelete(w, o, i)
             \/ \E i \in FileIds : StartGet(w, o, i)
             \/ \E ids \in Sources, k \in Keys : StartMerge(w, o, ids, k)
      PROVE  LockInv'
  <2>1. \A v \in Workers \ {w} : req'[v] = req[v]
    BY <1>2, Begun
  <2>2. /\ UNCHANGED <<files, rowLock>>
        /\ Locking(w)' => req'[w].rows = NoRows
        /\ req'[w].op = "merge" =>
              req'[w].id = nextId /\ nextId \in FileIds /\ nextId' = nextId + 1
        /\ req'[w].op # "merge" => nextId' = nextId
    BY <1>2, Begun DEF Locking
  <2>3. Held'
    BY <2>1, <2>2 DEF LockInv, Held, Locking, NoRows
  <2>4. \A v \in Workers : req[v].op = "merge" => req[v].id \in FileIds
    BY BusyShaped DEF Shaped
  <2>5. IdsAreNew'
    BY <2>1, <2>2, <2>4 DEF LockInv, IdsAreNew, FileIds, TypeInv, TypeOK
  <2> QED
    BY <2>3, <2>5 DEF LockInv
<1>3. ASSUME NEW w \in Workers, NEW i \in FileIds, LockRow(w, i) PROVE LockInv'
  <2>1. /\ \A v \in Workers \ {w} : req'[v] = req[v]
        /\ req'[w].op = req[w].op /\ req'[w].id = req[w].id
        /\ req'[w].rows = [req[w].rows EXCEPT ![i] = files[i]]
        /\ req[w].pc = "lock"
    <3>1. req \in [Workers -> Request] /\ req[w] \in Request
      BY DEF TypeInv, TypeOK
    <3> DEFINE p == IF Wanted(w) # {i} THEN "lock" ELSE AfterLock(req[w].op)
    <3>2. req' = [req EXCEPT ![w].rows[i] = files[i], ![w].pc = p]
      BY <1>3 DEF LockRow
    <3> HIDE DEF p
    <3> QED
      BY <1>3, <3>1, <3>2 DEF LockRow, Request
  <2>2. /\ rowLock[i] = None /\ rowLock'[i] = w /\ UNCHANGED <<files, nextId>>
        /\ \A j \in FileIds \ {i} : rowLock'[j] = rowLock[j]
    BY <1>3 DEF LockRow, TypeInv, TypeOK
  <2>3. req[w].rows \in [FileIds -> Row \cup {None}] /\ Locking(w)
    BY <2>1, BusyShaped DEF TypeInv, TypeOK, Request, Locking, Shaped
  <2>4. Held'
    <3>1. ASSUME NEW v \in Workers \ {w}, Locking(v)', NEW j \in FileIds,
                 req'[v].rows[j] # None
          PROVE  rowLock'[j] = v /\ files'[j] = req'[v].rows[j]
      <4>1. rowLock[j] = v /\ files[j] = req[v].rows[j] /\ v # None
        BY <2>1, <3>1, ConstantsAssumption DEF LockInv, Held, Locking
      <4> QED
        BY <2>1, <2>2, <4>1
    <3>2. ASSUME NEW j \in FileIds, req'[w].rows[j] # None
          PROVE  rowLock'[j] = w /\ files'[j] = req'[w].rows[j]
      BY <2>1, <2>2, <2>3, <3>2 DEF LockInv, Held
    <3> QED
      BY <3>1, <3>2 DEF Held
  <2>5. IdsAreNew'
    BY <2>1, <2>2 DEF LockInv, IdsAreNew
  <2> QED
    BY <2>4, <2>5 DEF LockInv
<1>4. ASSUME NEW w \in Workers, Refuse(w) PROVE LockInv'
  BY <1>4, LockAnswer DEF Refuse
<1>5. ASSUME NEW w \in Workers, CommitContent(w) PROVE LockInv'
  <2> DEFINE i == IF req[w].op = "upload" THEN req[w].ids[1] ELSE req[w].id
  <2>1. /\ i \in FileIds /\ \A j \in FileIds \ {i} : files'[j] = files[j]
        /\ req[w].pc = "commit" /\ req[w].op \in {"upload", "merge"}
        /\ Answer(w, "ok") /\ nextId' = nextId
    BY <1>5, StoredTyped DEF CommitContent, TypeInv, TypeOK
  <2>2. \A v \in Workers \ {w} : Locking(v) => req[v].rows[i] = None
    <3>1. CASE req[w].op = "upload"
      BY <2>1, <3>1, OwnRow
    <3>2. CASE req[w].op = "merge"
      BY <2>1, <3>2 DEF LockInv, Held, IdsAreNew
    <3> QED
      BY <2>1, <3>1, <3>2
  <2>3. i < nextId /\ \A v \in Workers \ {w} : req[v].op = "merge" => req[v].id # i
    <3>1. CASE req[w].op = "upload"
      <4>1. files[i] # None
        BY <2>1, <3>1, OwnRow
      <4> QED
        BY <2>1, <4>1 DEF LockInv, IdsAreNew, TypeInv, TypeOK, FileIds
    <3>2. CASE req[w].op = "merge"
      BY <2>1, <3>2 DEF LockInv, IdsAreNew
    <3> QED
      BY <2>1, <3>1, <3>2
  <2> HIDE DEF i
  <2>4. \A v \in Workers : req'[v].op # "none" => v # w /\ req'[v] = req[v]
    BY <2>1, Answered
  <2>5. Held'
    <3> SUFFICES ASSUME NEW v \in Workers, Locking(v)', NEW j \in FileIds,
                        req'[v].rows[j] # None
                 PROVE  rowLock'[j] = v /\ files'[j] = req'[v].rows[j]
      BY DEF Held
    <3>1. v # w /\ req'[v] = req[v] /\ Locking(v)
      BY <2>4 DEF Locking
    <3>2. rowLock[j] = v /\ files[j] = req[v].rows[j]
      BY <3>1 DEF LockInv, Held
    <3> QED
      BY <2>1, <2>2, <3>1, <3>2, Answered
  <2>6. IdsAreNew'
    <3>1. \A v \in Workers : req[v].op = "merge" => req[v].id \in FileIds
      BY BusyShaped DEF Shaped
    <3> QED
      BY <2>1, <2>3, <2>4, <3>1 DEF LockInv, IdsAreNew, FileIds, TypeInv, TypeOK
  <2> QED
    BY <2>5, <2>6 DEF LockInv
<1>6. ASSUME NEW w \in Workers, CommitDelete(w) PROVE LockInv'
  <2> DEFINE i == req[w].ids[1]
  <2>1. req[w].pc = "commit" /\ req[w].op = "delete" /\ nextId' = nextId
    BY <1>6 DEF CommitDelete
  <2>2. /\ i \in FileIds /\ \A v \in Workers \ {w} : Locking(v) => req[v].rows[i] = None
    BY <2>1, OwnRow
  <2>3. files'[i] = None /\ \A j \in FileIds \ {i} : files'[j] = files[j]
    BY <1>6, <2>2 DEF CommitDelete, TypeInv, TypeOK
  <2>4. /\ \A v \in Workers \ {w} : req'[v] = req[v]
        /\ req'[w].op # "merge" /\ ~Locking(w)'
        /\ \A j \in FileIds : rowLock[j] # w => rowLock'[j] = rowLock[j]
    <3>1. CASE Answer(w, "ok")
      BY <3>1, Answered DEF Locking
    <3>2. CASE Goto(w, "unlink") /\ Release(w)
      BY <2>1, <3>2 DEF Goto, Release, Locking, TypeInv, TypeOK, Request
    <3> QED
      BY <1>6, <3>1, <3>2 DEF CommitDelete
  <2> HIDE DEF i
  <2>5. Held'
    <3> SUFFICES ASSUME NEW v \in Workers, Locking(v)', NEW j \in FileIds,
                        req'[v].rows[j] # None
                 PROVE  rowLock'[j] = v /\ files'[j] = req'[v].rows[j]
      BY DEF Held
    <3>1. v # w /\ req'[v] = req[v] /\ Locking(v)
      BY <2>4 DEF Locking
    <3>2. rowLock[j] = v /\ files[j] = req[v].rows[j]
      BY <3>1 DEF LockInv, Held
    <3> QED
      BY <2>2, <2>3, <2>4, <3>1, <3>2
  <2>6. IdsAreNew'
    BY <2>1, <2>3, <2>4, BusyShaped DEF Shaped, LockInv, IdsAreNew
  <2> QED
    BY <2>5, <2>6 DEF LockInv
<1>7. ASSUME NEW w \in Workers, CommitGet(w) \/ Unlink(w) \/ UnlinkFails(w) PROVE LockInv'
  BY <1>7, LockAnswer DEF CommitGet, Unlink, UnlinkFails
<1>8. CASE UNCHANGED vars
  BY <1>8 DEF vars, LockInv, Held, IdsAreNew, Locking
<1>9. ASSUME NEW w \in Workers, Fetch(w) \/ Merge(w) \/ Put(w) PROVE LockInv'
  BY <1>4, <1>9, LockCarried
<1> QED
  BY <1>1, <1>2, <1>3, <1>4, <1>5, <1>6, <1>7, <1>8, <1>9
     DEF Next, Continue, NotFound, Abort

(* The row locks do what the service takes them for: what a request has     *)
(* read under them is still so when it commits, whatever the others do,     *)
(* fail at or stop in the middle of.                                        *)
THEOREM RowsStayLocked == Spec => []LockedRowsStay
<1>1. Init => TypeInv /\ LockInv
  BY IdleTyped, ConstantsAssumption
     DEF Init, TypeInv, TypeOK, LockInv, Held, IdsAreNew, Locking, NoRequest
<1>2. TypeInv /\ LockInv => LockedRowsStay
  BY DEF LockInv, Held, Locking, LockedRowsStay
<1> QED
  BY <1>1, <1>2, TypeStep, LockStep, PTL DEF Spec
=============================================================================
