-------------------------- MODULE FilesCatalogProofs -------------------------
(***************************************************************************)
(* What FilesStore promises: requests never wait for each other in a       *)
(* circle, a merge joins its sources in the caller's order, and together   *)
(* the rows and the bucket behave like a catalog of files.                 *)
(***************************************************************************)
EXTENDS FilesBlobProofs, FiniteSetTheorems, WellFoundedInduction

-----------------------------------------------------------------------------
(* A row is locked only by a request in progress that has read it, and what *)
(* a request has locked lies below what it still wants.                     *)

Holders ==
    \A i \in FileIds : rowLock[i] # None =>
        /\ Locking(rowLock[i])
        /\ req[rowLock[i]].rows[i] # None

Ascending ==
    \A w \in Workers : req[w].pc = "lock" =>
        \A i \in FileIds : req[w].rows[i] # None => \A j \in Wanted(w) : i < j

WaitInv == Holders /\ Ascending

(* A set of ids that is not empty has a greatest. *)
LEMMA Greatest ==
  ASSUME NEW M \in SUBSET FileIds, M # {}
  PROVE  \E m \in M : \A i \in M : i <= m
<1> DEFINE Above(i) == {k \in FileIds : i < k}
           T == {Above(i) : i \in M}
<1>1. MaxFiles \in Nat /\ FileIds = 1..MaxFiles
  BY ConstantsAssumption DEF FileIds
<1>2. IsFiniteSet(FileIds)
  BY <1>1, FS_Interval
<1>3. IsWellFoundedOn(StrictSubsetOrdering(FileIds), SUBSET FileIds)
  BY <1>2, FS_StrictSubsetOrderingWellFounded, FS_FiniteSubsetsOfFinite, Zenon
<1>4. T \subseteq SUBSET FileIds /\ T # {}
  OBVIOUS
<1> HIDE DEF T
<1>5. \E x \in T : \A y \in T : <<y, x>> \notin StrictSubsetOrdering(FileIds)
  BY <1>3, <1>4, WFMin, Zenon
<1>6. PICK m \in M :
         \A y \in T : <<y, Above(m)>> \notin StrictSubsetOrdering(FileIds)
  BY <1>5 DEF T
<1>7. ASSUME NEW i \in M, m < i PROVE FALSE
  <2>1. Above(i) \subseteq Above(m) /\ i \in Above(m) /\ i \notin Above(i)
    BY <1>1, <1>7
  <2>2. Above(i) \in T /\ Above(i) \in SUBSET FileIds /\ Above(m) \in SUBSET FileIds
    BY DEF T
  <2> HIDE DEF Above
  <2>3. <<Above(i), Above(m)>> \in StrictSubsetOrdering(FileIds)
    BY <2>1, <2>2 DEF StrictSubsetOrdering
  <2> QED
    BY <1>6, <2>2, <2>3
<1> QED
  BY <1>1, <1>7

(* Whoever waits for the greatest row that is waited for waits for somebody *)
(* who waits for a greater one.                                             *)
LEMMA NobodyWaitsForAll == TypeInv /\ WaitInv => NoDeadlock
<1> SUFFICES ASSUME TypeInv, WaitInv, NEW u \in Workers, req[u].pc # "idle",
                    \A w \in Workers : req[w].pc # "idle" => Waiting(w)
             PROVE  FALSE
  BY DEF NoDeadlock
<1> DEFINE M == {i \in FileIds : rowLock[i] # None /\ \E w \in Workers :
                    req[w].pc = "lock" /\ NextWanted(w, i)}
<1>1. \A w \in Workers : Waiting(w) => req[w].pc = "lock" /\ \E i \in M : NextWanted(w, i)
  BY DEF Waiting
<1>2. M \in SUBSET FileIds /\ M # {}
  BY <1>1
<1>3. PICK m \in M : \A i \in M : i <= m
  <2> HIDE DEF M
  <2> QED
    BY <1>2, Greatest
<1> DEFINE v == rowLock[m]
<1>4. m \in FileIds /\ v \in Workers /\ Locking(v) /\ req[v].rows[m] # None
  BY <1>3 DEF TypeInv, TypeOK, WaitInv, Holders
<1>5. req[v].pc # "idle"
  BY <1>4, BusyShaped DEF Shaped, Locking
<1>6. Waiting(v)
  BY <1>4, <1>5
<1>7. req[v].pc = "lock" /\ \E i \in M : NextWanted(v, i)
  BY <1>1, <1>4, <1>6
<1>8. PICK j \in M : NextWanted(v, j)
  BY <1>7
<1>9. m < j /\ j <= m /\ m \in Nat /\ j \in Nat
  BY <1>3, <1>4, <1>7, <1>8 DEF NextWanted, WaitInv, Ascending, FileIds
<1> QED
  BY <1>9

-----------------------------------------------------------------------------
(* What w does leaves the others as they are. *)
LEMMA WaitOthers ==
  ASSUME TypeInv, WaitInv, NEW w \in Workers,
         \A v \in Workers \ {w} : req'[v] = req[v],
         \A i \in FileIds :
            (rowLock'[i] # w /\ rowLock[i] # w) => rowLock'[i] = rowLock[i],
         \A i \in FileIds :
            (rowLock'[i] = w \/ rowLock[i] = w) =>
               rowLock'[i] = None \/ (rowLock'[i] = w /\ Locking(w)' /\ req'[w].rows[i] # None),
         req'[w].pc = "lock" =>
            \A i \in FileIds : req'[w].rows[i] # None => \A j \in Wanted(w)' : i < j
  PROVE  WaitInv'
<1>1. Holders'
  <2> SUFFICES ASSUME NEW i \in FileIds, rowLock'[i] # None
               PROVE  Locking(rowLock[i])' /\ req'[rowLock'[i]].rows[i] # None
    BY DEF Holders
  <2>1. CASE rowLock'[i] = w \/ rowLock[i] = w
    BY <2>1 DEF Locking
  <2>2. CASE rowLock'[i] # w /\ rowLock[i] # w
    <3>1. rowLock'[i] = rowLock[i] /\ rowLock[i] \in Workers \ {w}
      BY <2>2 DEF TypeInv, TypeOK
    <3> QED
      BY <3>1 DEF WaitInv, Holders, Locking
  <2> QED
    BY <2>1, <2>2
<1>2. Ascending'
  <2>1. \A v \in Workers \ {w} : req'[v] = req[v] /\ Wanted(v)' = Wanted(v)
    BY DEF Wanted
  <2> QED
    BY <2>1 DEF WaitInv, Ascending
<1> QED
  BY <1>1, <1>2 DEF WaitInv

LEMMA WaitAnswer ==
  ASSUME TypeInv, WaitInv, NEW w \in Workers, NEW status, Answer(w, status)
  PROVE  WaitInv'
<1>1. /\ req'[w].pc = "idle" /\ \A v \in Workers \ {w} : req'[v] = req[v]
      /\ \A i \in FileIds : rowLock[i] # w => rowLock'[i] = rowLock[i]
  BY Answered
<1>2. \A i \in FileIds : (rowLock'[i] = w \/ rowLock[i] = w) => rowLock'[i] = None
  BY DEF Answer, Release
<1> QED
  BY <1>1, <1>2, WaitOthers

LEMMA WaitStep == TypeInv /\ WaitInv /\ [Next]_vars => WaitInv'
<1> SUFFICES ASSUME TypeInv, WaitInv, [Next]_vars PROVE WaitInv'
  OBVIOUS
<1>1. CASE UNCHANGED vars \/ \E o \in Owners : Create(o)
  <2>1. UNCHANGED <<req, rowLock>>
    BY <1>1 DEF vars, Create
  <2> QED
    BY <2>1 DEF WaitInv, Holders, Ascending, Locking, Wanted
<1>2. ASSUME NEW w \in Workers, NEW o \in Owners,
             \/ \E i \in FileIds, c \in Uploads(o), k \in Keys :
                    StartUpload(w, o, i, c, k)
             \/ \E i \in FileIds : StartDelete(w, o, i)
             \/ \E i \in FileIds : StartGet(w, o, i)
             \/ \E ids \in Sources, k \in Keys : StartMerge(w, o, ids, k)
      PROVE  WaitInv'
  <2>1. /\ \A v \in Workers \ {w} : req'[v] = req[v]
        /\ req[w].pc = "idle" /\ rowLock' = rowLock
        /\ req'[w].op \in {"upload", "delete", "merge"} => req'[w].rows = NoRows
        /\ req'[w].op = "get" => req'[w].pc # "lock"
        /\ req'[w].op # "none"
    BY <1>2, Begun
  <2>2. \A i \in FileIds : rowLock[i] # w
    BY <2>1, BusyShaped, ConstantsAssumption DEF WaitInv, Holders, Locking, Shaped
  <2>3. req'[w].op \in {"none", "upload", "delete", "merge", "get"}
    <3>1. TypeInv'
      BY TypeStep
    <3> QED
      BY <3>1 DEF TypeInv, TypeOK, Request
  <2>4. req'[w].pc = "lock" => \A i \in FileIds : req'[w].rows[i] = None
    BY <2>1, <2>3 DEF NoRows
  <2> QED
    BY <2>1, <2>2, <2>4, WaitOthers
<1>3. ASSUME NEW w \in Workers, NEW i \in FileIds, LockRow(w, i) PROVE WaitInv'
  <2> DEFINE p == IF Wanted(w) # {i} THEN "lock" ELSE AfterLock(req[w].op)
  <2>1. req \in [Workers -> Request] /\ req[w] \in Request
    BY DEF TypeInv, TypeOK
  <2>2. req' = [req EXCEPT ![w].rows[i] = files[i], ![w].pc = p]
    BY <1>3 DEF LockRow
  <2>3. req[w].op \in {"upload", "delete", "merge"}
    BY <1>3, BusyShaped DEF LockRow, Shaped
  <2>4. p # "unlink"
    BY <2>3 DEF AfterLock
  <2> HIDE DEF p
  <2>5. /\ \A v \in Workers \ {w} : req'[v] = req[v]
        /\ req'[w].op = req[w].op /\ req'[w].pc = p /\ req'[w].ids = req[w].ids
        /\ req'[w].rows = [req[w].rows EXCEPT ![i] = files[i]]
        /\ req[w].pc = "lock" /\ files[i] # None
        /\ req[w].rows \in [FileIds -> Row \cup {None}]
    BY <1>3, <2>1, <2>2 DEF LockRow, Owned, Request
  <2>6. /\ rowLock[i] = None /\ rowLock'[i] = w
        /\ \A j \in FileIds \ {i} : rowLock'[j] = rowLock[j]
        /\ NextWanted(w, i)
    BY <1>3 DEF LockRow, TypeInv, TypeOK
  <2>7. \A j \in FileIds : rowLock'[j] = w => Locking(w)' /\ req'[w].rows[j] # None
    BY <2>3, <2>4, <2>5, <2>6, ConstantsAssumption DEF Locking, WaitInv, Holders
  <2>8. Wanted(w)' = Wanted(w) \ {i} /\ Wanted(w) \subseteq FileIds
    BY <2>1, <2>5 DEF Wanted, Range, Request
  <2>9. ASSUME NEW h \in FileIds, req'[w].rows[h] # None, NEW j \in Wanted(w)'
        PROVE  h < j
    <3>1. j \in Wanted(w) /\ j # i /\ i <= j /\ i < j /\ j \in FileIds
      BY <2>6, <2>8 DEF NextWanted, FileIds
    <3>2. CASE h = i
      BY <3>1, <3>2
    <3>3. CASE h # i
      BY <2>5, <2>9, <3>1, <3>3 DEF WaitInv, Ascending
    <3> QED
      BY <3>2, <3>3
  <2> QED
    BY <2>5, <2>6, <2>7, <2>9, WaitOthers
<1>4. ASSUME NEW w \in Workers, Refuse(w) PROVE WaitInv'
  BY <1>4, WaitAnswer DEF Refuse
<1>5. ASSUME NEW w \in Workers, Fetch(w) \/ Merge(w) \/ Put(w), ~Refuse(w)
      PROVE  WaitInv'
  <2>1. /\ \A v \in Workers \ {w} : req'[v] = req[v]
        /\ req'[w].pc \notin {"lock", "unlink"} /\ req[w].pc # "unlink"
        /\ req'[w].op = req[w].op /\ req'[w].rows = req[w].rows /\ rowLock' = rowLock
    BY <1>5, Carries
  <2>2. \A i \in FileIds : rowLock[i] = w => Locking(w)' /\ req'[w].rows[i] # None
    BY <2>1, ConstantsAssumption DEF WaitInv, Holders, Locking
  <2> QED
    BY <2>1, <2>2, WaitOthers
<1>6. ASSUME NEW w \in Workers,
             CommitContent(w) \/ CommitGet(w) \/ Unlink(w) \/ UnlinkFails(w)
      PROVE  WaitInv'
  BY <1>6, WaitAnswer DEF CommitContent, CommitGet, Unlink, UnlinkFails
<1>7. ASSUME NEW w \in Workers, CommitDelete(w) PROVE WaitInv'
  <2>1. CASE Answer(w, "ok")
    BY <2>1, WaitAnswer
  <2>2. CASE Goto(w, "unlink") /\ Release(w)
    <3>1. req'[w].pc = "unlink" /\ \A v \in Workers \ {w} : req'[v] = req[v]
      BY <2>2 DEF Goto, TypeInv, TypeOK, Request
    <3>2. /\ \A i \in FileIds : rowLock[i] # w => rowLock'[i] = rowLock[i]
          /\ \A i \in FileIds : (rowLock'[i] = w \/ rowLock[i] = w) => rowLock'[i] = None
      BY <2>2 DEF Release
    <3> QED
      BY <3>1, <3>2, WaitOthers
  <2> QED
    BY <1>7, <2>1, <2>2 DEF CommitDelete
<1> QED
  BY <1>1, <1>2, <1>3, <1>4, <1>5, <1>6, <1>7 DEF Next, Continue, NotFound, Abort

(* However many requests merge, upload and delete at once, naming the same  *)
(* files in any order, one of them can always go on: the ascending order of *)
(* FilesService.merge leaves no circle of waits.                            *)
THEOREM NoCircleOfWaits == Spec => []NoDeadlock
<1>1. Init => TypeInv /\ WaitInv
  BY IdleTyped, ConstantsAssumption
     DEF Init, TypeInv, TypeOK, WaitInv, Holders, Ascending, NoRequest
<1> QED
  BY <1>1, NobodyWaitsForAll, TypeStep, WaitStep, PTL DEF Spec

-----------------------------------------------------------------------------
(* A merge reads its sources in the caller's order: what it has got so far  *)
(* are the first of them, with the checksums their locked rows record.      *)

Gathered(r) ==
    /\ \A n \in 1..Len(r.ids) : r.rows[r.ids[n]] # None
    /\ Len(r.got) <= Len(r.ids)
    /\ \A n \in 1..Len(r.got) :
          r.got[n] = r.rows[r.ids[n]].sum /\ r.rows[r.ids[n]].key # None
    /\ r.pc # "fetch" => Len(r.got) = Len(r.ids)
    /\ r.pc \in {"put", "commit"} =>
          r.content = FlattenSeq(r.got) /\ <<>> \notin Range(r.got)

MergeInv ==
    \A w \in Workers :
        (req[w].op = "merge" /\ req[w].pc # "lock") => Gathered(req[w])

LEMMA MergeFetch ==
  ASSUME TypeInv, MergeInv, NEW w \in Workers, Fetch(w), ~Refuse(w),
         req[w].op = "merge"
  PROVE  Gathered(req'[w])
<1> DEFINE q == req[w]
           n == Len(q.got) + 1
           source == q.rows[q.ids[n]]
           data == IF source.key = None THEN None ELSE blobs[source.key]
           got == Append(q.got, data)
           p == IF n < Len(q.ids) THEN "fetch" ELSE "merge"
           r == req'[w]
<1>1. q \in Request /\ Gathered(q) /\ q.pc = "fetch" /\ req \in [Workers -> Request]
  BY DEF TypeInv, TypeOK, MergeInv, Fetch
<1>2. /\ data # None /\ data = source.sum /\ source.key # None
      /\ req' = [req EXCEPT ![w].got = got, ![w].pc = p]
  BY DEF Fetch
<1>3. n \in 1..Len(q.ids) /\ source \in Row
  BY <1>1, NextSource
<1>4. data \in Content
  BY <1>2, <1>3 DEF Row
<1>5. q.got \in Seq(Content) /\ q.ids \in Seq(FileIds)
  BY <1>1 DEF Request
<1> HIDE DEF data
<1>6. /\ Len(got) = n /\ got[n] = source.sum
      /\ \A m \in 1..(n - 1) : /\ got[m] = q.rows[q.ids[m]].sum
                             /\ q.rows[q.ids[m]].key # None
  <2>1. /\ Len(got) = n /\ got[n] = data
        /\ \A m \in 1..Len(q.got) : got[m] = q.got[m]
    BY <1>4, <1>5, AppendProperties
  <2>2. \A m \in 1..Len(q.got) : /\ q.got[m] = q.rows[q.ids[m]].sum
                                  /\ q.rows[q.ids[m]].key # None
    BY <1>1 DEF Gathered
  <2>3. n - 1 = Len(q.got)
    BY <1>5
  <2> HIDE DEF got, source, n, q
  <2> QED
    BY <1>2, <2>1, <2>2, <2>3
<1>7. n < Len(q.ids) \/ n = Len(q.ids)
  BY <1>3, <1>5
<1> HIDE DEF got, p
<1>8. r.got = got /\ r.pc = p /\ r.ids = q.ids /\ r.rows = q.rows
  BY <1>1, <1>2 DEF Request
<1>9. \A m \in 1..n : got[m] = q.rows[q.ids[m]].sum /\ q.rows[q.ids[m]].key # None
  <2>1. \A m \in 1..n : m = n \/ m \in 1..(n - 1)
    BY <1>3, <1>5
  <2> QED
    BY <1>2, <1>6, <2>1
<1>10. r.pc \in {"fetch", "merge"} /\ r.pc = (IF n < Len(q.ids) THEN "fetch" ELSE "merge")
  BY <1>8 DEF p
<1>11. Len(got) = n /\ n <= Len(q.ids) /\ (r.pc # "fetch" => n = Len(q.ids))
  BY <1>6, <1>7, <1>10, <1>5
<1> QED
  BY <1>1, <1>8, <1>9, <1>10, <1>11 DEF Gathered

LEMMA MergeStep == TypeInv /\ MergeInv /\ [Next]_vars => MergeInv'
<1> SUFFICES ASSUME TypeInv, MergeInv, [Next]_vars PROVE MergeInv'
  OBVIOUS
<1>0. TypeInv' /\ req \in [Workers -> Request]
  BY TypeStep DEF TypeInv, TypeOK
<1>1. CASE UNCHANGED vars \/ \E o \in Owners : Create(o)
  <2>1. req' = req
    BY <1>1 DEF vars, Create
  <2> QED
    BY <2>1 DEF MergeInv
<1>2. ASSUME NEW w \in Workers, NEW o \in Owners,
             \/ \E i \in FileIds, c \in Uploads(o), k \in Keys :
                    StartUpload(w, o, i, c, k)
             \/ \E i \in FileIds : StartDelete(w, o, i)
             \/ \E i \in FileIds : StartGet(w, o, i)
             \/ \E ids \in Sources, k \in Keys : StartMerge(w, o, ids, k)
      PROVE  MergeInv'
  <2>1. /\ \A v \in Workers \ {w} : req'[v] = req[v]
        /\ req'[w].op = "merge" => req'[w].pc = "lock"
    BY <1>2, Begun
  <2> QED
    BY <2>1 DEF MergeInv
<1>3. ASSUME NEW w \in Workers, NEW i \in FileIds, LockRow(w, i) PROVE MergeInv'
  <2> DEFINE p == IF Wanted(w) # {i} THEN "lock" ELSE AfterLock(req[w].op)
  <2>1. req' = [req EXCEPT ![w].rows[i] = files[i], ![w].pc = p] /\ req[w].pc = "lock"
    BY <1>3 DEF LockRow
  <2>2. req[w].op = "merge" => p \in {"lock", "fetch"}
    BY DEF AfterLock
  <2> HIDE DEF p
  <2>3. /\ \A v \in Workers \ {w} : req'[v] = req[v]
        /\ req'[w].op = req[w].op /\ req'[w].pc = p
        /\ req'[w].ids = req[w].ids /\ req'[w].got = req[w].got
    BY <1>0, <2>1 DEF Request
  <2>4. ASSUME req'[w].op = "merge", req'[w].pc # "lock" PROVE Gathered(req'[w])
    <3>1. req'[w].pc = "fetch" /\ req'[w].got = <<>>
      BY <2>1, <2>2, <2>3, <2>4, BusyShaped DEF Shaped
    <3>2. Shaped(req'[w]) /\ req'[w].ids \in Seq(FileIds)
      BY <1>0, <2>4 DEF TypeInv, TypeOK, NoRequest, Request
    <3>3. \A n \in 1..Len(req'[w].ids) : req'[w].rows[req'[w].ids[n]] # None
      BY <3>1, <3>2 DEF Shaped, Range
    <3> QED
      BY <3>1, <3>2, <3>3, EmptySeq DEF Gathered
  <2> QED
    BY <2>3, <2>4 DEF MergeInv
<1>4. ASSUME NEW w \in Workers, NEW status, Answer(w, status) PROVE MergeInv'
  <2>1. req'[w].op # "merge" /\ \A v \in Workers \ {w} : req'[v] = req[v]
    BY <1>4, Answered
  <2> QED
    BY <2>1 DEF MergeInv
<1>5. ASSUME NEW w \in Workers, Fetch(w), ~Refuse(w) PROVE MergeInv'
  <2>1. /\ \A v \in Workers \ {w} : req'[v] = req[v]
        /\ req'[w].op = req[w].op
    BY <1>5, Carries
  <2> QED
    BY <1>5, <2>1, MergeFetch DEF MergeInv
<1>6. ASSUME NEW w \in Workers, Merge(w), ~Refuse(w) PROVE MergeInv'
  <2> DEFINE merged == FlattenSeq(req[w].got)
  <2>1. /\ req' = [req EXCEPT ![w].content = merged, ![w].pc = "put"]
        /\ req[w].pc = "merge"
        /\ <<>> \notin Range(req[w].got)
    BY <1>6 DEF Merge
  <2> HIDE DEF merged
  <2>2. /\ \A v \in Workers \ {w} : req'[v] = req[v]
        /\ req'[w].op = req[w].op /\ req'[w].pc = "put" /\ req'[w].ids = req[w].ids
        /\ req'[w].rows = req[w].rows /\ req'[w].got = req[w].got
        /\ req'[w].content = merged
    BY <1>0, <2>1 DEF Request
  <2>3. req[w].op = "merge" => Gathered(req[w])
    BY <2>1 DEF MergeInv
  <2>4. req[w].op = "merge" => Gathered(req'[w])
    BY <2>1, <2>2, <2>3 DEF Gathered, merged
  <2> QED
    BY <2>2, <2>4 DEF MergeInv
<1>7. ASSUME NEW w \in Workers, Put(w) PROVE MergeInv'
  <2>1. /\ req[w].pc = "put" /\ req' = [req EXCEPT ![w].pc = "commit"]
    BY <1>7 DEF Put, Goto
  <2>2. /\ \A v \in Workers \ {w} : req'[v] = req[v]
        /\ req'[w].op = req[w].op /\ req'[w].pc = "commit" /\ req'[w].ids = req[w].ids
        /\ req'[w].rows = req[w].rows /\ req'[w].got = req[w].got
        /\ req'[w].content = req[w].content
    BY <1>0, <2>1 DEF Request
  <2>3. req[w].op = "merge" => Gathered(req'[w])
    BY <2>1, <2>2 DEF MergeInv, Gathered
  <2> QED
    BY <2>2, <2>3 DEF MergeInv
<1>8. ASSUME NEW w \in Workers, CommitDelete(w) PROVE MergeInv'
  <2>1. CASE Goto(w, "unlink")
    <3>1. req'[w].op # "merge" /\ \A v \in Workers \ {w} : req'[v] = req[v]
      BY <1>0, <1>8, <2>1 DEF Goto, CommitDelete, Request
    <3> QED
      BY <3>1 DEF MergeInv
  <2> QED
    BY <1>4, <1>8, <2>1 DEF CommitDelete
<1>9. ASSUME NEW w \in Workers,
             \/ Refuse(w) \/ CommitContent(w) \/ CommitGet(w)
             \/ Unlink(w) \/ UnlinkFails(w)
      PROVE  MergeInv'
  BY <1>4, <1>9 DEF Refuse, CommitContent, CommitGet, Unlink, UnlinkFails
<1> QED
  BY <1>1, <1>2, <1>3, <1>5, <1>6, <1>7, <1>8, <1>9 DEF Next, Continue, NotFound, Abort

(* What is gathered is what the files hold now, the rows being locked.      *)
LEMMA GatheredIsCurrent == TypeInv /\ LockInv /\ MergeInv => MergedInCallerOrder
<1> SUFFICES ASSUME TypeInv, LockInv, MergeInv, NEW w \in Workers,
                    req[w].op = "merge", req[w].pc \in {"put", "commit"}
             PROVE  req[w].content =
                       FlattenSeq([n \in DOMAIN req[w].ids |-> files[req[w].ids[n]].sum])
  BY DEF MergedInCallerOrder
<1> DEFINE q == req[w]
           sums == [n \in DOMAIN q.ids |-> files[q.ids[n]].sum]
<1>1. Gathered(q) /\ q.got \in Seq(Content) /\ q.ids \in Seq(FileIds)
  BY DEF MergeInv, TypeInv, TypeOK, Request
<1>2. /\ q.content = FlattenSeq(q.got) /\ Len(q.got) = Len(q.ids)
      /\ \A n \in 1..Len(q.ids) : /\ q.rows[q.ids[n]] # None /\ q.ids[n] \in FileIds
                                  /\ q.got[n] = q.rows[q.ids[n]].sum
  BY <1>1 DEF Gathered
<1>3. \A n \in 1..Len(q.ids) : q.got[n] = files[q.ids[n]].sum
  BY <1>2 DEF LockInv, Held, Locking
<1>4. q.got = sums
  BY <1>1, <1>2, <1>3
<1> QED
  BY <1>2, <1>4

(* The document a merge is about to commit is its sources as they are now,  *)
(* in the order the caller named them: neither the ascending order of the   *)
(* locks nor what other requests do meanwhile gets into it.                 *)
THEOREM MergesFollowTheCaller == Spec => []MergedInCallerOrder
<1>1. Init => TypeInv /\ LockInv /\ MergeInv
  BY IdleTyped, ConstantsAssumption
     DEF Init, TypeInv, TypeOK, LockInv, Held, IdsAreNew, Locking, MergeInv, NoRequest
<1> QED
  BY <1>1, GatheredIsCurrent, TypeStep, LockStep, MergeStep, PTL DEF Spec

-----------------------------------------------------------------------------
(* What a request asked for, and that the rows it locked are its owner's.   *)

AskedInv ==
    \A w \in Workers :
        /\ Locking(w) => \A i \in FileIds :
              req[w].rows[i] # None => req[w].rows[i].owner = req[w].owner
        /\ req[w].op = "merge" => req[w].ids \in Sources
        /\ ~Storing(w) => req[w].key = None

LEMMA AskedBegun ==
  ASSUME TypeInv, AskedInv, NEW w \in Workers, NEW r \in Request,
         req' = [req EXCEPT ![w] = r], r.rows = NoRows \/ r.op \in {"none", "get"},
         r.op = "merge" => r.ids \in Sources,
         r.op \notin {"upload", "merge"} => r.key = None
  PROVE  AskedInv'
<1>1. req'[w] = r /\ \A v \in Workers \ {w} : req'[v] = req[v]
  BY DEF TypeInv, TypeOK
<1>2. \A v \in Workers \ {w} :
         /\ Locking(v)' <=> Locking(v)
         /\ Storing(v)' <=> Storing(v)
  BY <1>1 DEF Locking, Storing
<1>3. /\ Locking(w)' => \A i \in FileIds : r.rows[i] = None
      /\ ~Storing(w)' => r.key = None
  BY <1>1 DEF Locking, Storing, NoRows
<1> QED
  BY <1>1, <1>2, <1>3 DEF AskedInv

LEMMA AskedStep == TypeInv /\ AskedInv /\ [Next]_vars => AskedInv'
<1> SUFFICES ASSUME TypeInv, AskedInv, [Next]_vars PROVE AskedInv'
  OBVIOUS
<1>0. req \in [Workers -> Request] /\ TypeInv' /\ req' \in [Workers -> Request]
  BY TypeStep DEF TypeInv, TypeOK
<1>1. CASE UNCHANGED vars \/ \E o \in Owners : Create(o)
  <2>1. req' = req
    BY <1>1 DEF vars, Create
  <2> QED
    BY <2>1 DEF AskedInv, Locking, Storing
<1>2. ASSUME NEW w \in Workers, NEW o \in Owners,
             \/ \E i \in FileIds, c \in Uploads(o), k \in Keys :
                    StartUpload(w, o, i, c, k)
             \/ \E i \in FileIds : StartDelete(w, o, i)
             \/ \E i \in FileIds : StartGet(w, o, i)
             \/ \E ids \in Sources, k \in Keys : StartMerge(w, o, ids, k)
      PROVE  AskedInv'
  <2>1. CASE \E i \in FileIds, c \in Uploads(o), k \in Keys : StartUpload(w, o, i, c, k)
    <3>1. /\ req' = [req EXCEPT ![w] = req'[w]]
          /\ req'[w].op = "upload" /\ req'[w].rows = NoRows
      BY <1>0, <2>1 DEF StartUpload, Begin, NoRequest
    <3> QED
      BY <1>0, <3>1, AskedBegun
  <2>2. CASE \E i \in FileIds : StartDelete(w, o, i)
    <3>1. /\ req' = [req EXCEPT ![w] = req'[w]]
          /\ req'[w].op = "delete" /\ req'[w].rows = NoRows /\ req'[w].key = None
      BY <1>0, <2>2 DEF StartDelete, Begin, NoRequest
    <3> QED
      BY <1>0, <3>1, AskedBegun
  <2>3. CASE \E i \in FileIds : StartGet(w, o, i)
    <3>1. /\ req' = [req EXCEPT ![w] = req'[w]]
          /\ req'[w].op = "get" /\ req'[w].key = None
      BY <1>0, <2>3 DEF StartGet, Begin, NoRequest
    <3> QED
      BY <1>0, <3>1, AskedBegun
  <2>4. CASE \E ids \in Sources, k \in Keys : StartMerge(w, o, ids, k)
    <3>1. /\ req' = [req EXCEPT ![w] = req'[w]]
          /\ req'[w].op = "merge" /\ req'[w].rows = NoRows /\ req'[w].ids \in Sources
      BY <1>0, <2>4 DEF StartMerge, Begin, NoRequest
    <3> QED
      BY <1>0, <3>1, AskedBegun
  <2> QED
    BY <1>2, <2>1, <2>2, <2>3, <2>4
<1>3. ASSUME NEW w \in Workers, NEW i \in FileIds, LockRow(w, i) PROVE AskedInv'
  <2> DEFINE p == IF Wanted(w) # {i} THEN "lock" ELSE AfterLock(req[w].op)
  <2>1. /\ req' = [req EXCEPT ![w].rows[i] = files[i], ![w].pc = p]
        /\ req[w].pc = "lock" /\ files[i].owner = req[w].owner
    BY <1>3 DEF LockRow, Owned
  <2> HIDE DEF p
  <2>2. /\ \A v \in Workers \ {w} : req'[v] = req[v]
        /\ req'[w].op = req[w].op /\ req'[w].owner = req[w].owner
        /\ req'[w].ids = req[w].ids /\ req'[w].key = req[w].key
        /\ req'[w].rows = [req[w].rows EXCEPT ![i] = files[i]]
        /\ req[w].rows \in [FileIds -> Row \cup {None}]
    BY <1>0, <2>1 DEF Request
  <2>3. Locking(w)' => Locking(w)
    BY <2>1, <2>2 DEF Locking
  <2>4. Locking(w)' => \A j \in FileIds :
           req'[w].rows[j] # None => req'[w].rows[j].owner = req'[w].owner
    BY <2>1, <2>2, <2>3 DEF AskedInv
  <2> QED
    BY <2>2, <2>4 DEF AskedInv, Locking, Storing
<1>4. ASSUME NEW w \in Workers, NEW status, Answer(w, status) PROVE AskedInv'
  <2>1. NoRequest \in Request /\ NoRequest.op = "none" /\ NoRequest.key = None
    BY IdleTyped DEF NoRequest
  <2>2. req' = [req EXCEPT ![w] = NoRequest]
    BY <1>4 DEF Answer
  <2> QED
    BY <2>1, <2>2, AskedBegun
<1>5. ASSUME NEW w \in Workers, Fetch(w) \/ Merge(w) \/ Put(w), ~Refuse(w)
      PROVE  AskedInv'
  <2>1. /\ \A v \in Workers \ {w} : req'[v] = req[v]
        /\ req[w].pc # "unlink"
        /\ req'[w].op = req[w].op /\ req'[w].owner = req[w].owner
        /\ req'[w].ids = req[w].ids /\ req'[w].rows = req[w].rows
        /\ req'[w].key = req[w].key
    BY <1>5, Carries
  <2> QED
    BY <2>1 DEF AskedInv, Locking, Storing
<1>6. ASSUME NEW w \in Workers, CommitDelete(w) PROVE AskedInv'
  <2>1. CASE Goto(w, "unlink")
    <3>1. /\ \A v \in Workers \ {w} : req'[v] = req[v]
          /\ req'[w].pc = "unlink" /\ req'[w].op = req[w].op /\ req'[w].key = req[w].key
          /\ req[w].op = "delete"
      BY <1>0, <1>6, <2>1 DEF Goto, CommitDelete, Request
    <3> QED
      BY <3>1 DEF AskedInv, Locking, Storing
  <2> QED
    BY <1>4, <1>6, <2>1 DEF CommitDelete
<1>7. ASSUME NEW w \in Workers,
             \/ Refuse(w) \/ CommitContent(w) \/ CommitGet(w)
             \/ Unlink(w) \/ UnlinkFails(w)
      PROVE  AskedInv'
  BY <1>4, <1>7 DEF Refuse, CommitContent, CommitGet, Unlink, UnlinkFails
<1> QED
  BY <1>1, <1>2, <1>3, <1>5, <1>6, <1>7 DEF Next, Continue, NotFound, Abort

-----------------------------------------------------------------------------
(* The refinement.  The catalog changes when a transaction commits, and     *)
(* then by one operation of FileCatalog.                                    *)

CatalogInv == TypeInv /\ LockInv /\ BlobInv /\ MergeInv /\ AskedInv

(* What a row contributes to the catalog, the blob it names being there.    *)
Entered(row) ==
    IF row = None THEN None
    ELSE [owner |-> row.owner, content |-> IF row.key = None THEN None ELSE row.sum]

LEMMA CatalogOfRows ==
  NoDanglingKey => catalog = [i \in FileIds |-> Entered(files[i])]
BY DEF NoDanglingKey, catalog, Entered

(* A step that commits nothing. *)
LEMMA CatalogKept ==
  ASSUME BlobInv, BlobInv', files' = files
  PROVE  catalog' = catalog
<1>1. catalog = [i \in FileIds |-> Entered(files[i])]
  BY CatalogOfRows DEF BlobInv
<1>2. catalog' = [i \in FileIds |-> Entered(files'[i])]
  BY DEF BlobInv, NoDanglingKey, catalog, Entered
<1> QED
  BY <1>1, <1>2

(* A step that commits one row. *)
LEMMA CatalogChanged ==
  ASSUME TypeInv, BlobInv, BlobInv', NEW i \in FileIds, NEW row,
         files' = [files EXCEPT ![i] = row]
  PROVE  /\ catalog' = [catalog EXCEPT ![i] = Entered(row)]
         /\ \A j \in FileIds : catalog[j] = Entered(files[j])
<1>1. catalog = [j \in FileIds |-> Entered(files[j])]
  BY CatalogOfRows DEF BlobInv
<1>2. catalog' = [j \in FileIds |-> Entered(files'[j])]
  BY DEF BlobInv, NoDanglingKey, catalog, Entered
<1>3. files \in [FileIds -> Row \cup {None}]
  BY DEF TypeInv, TypeOK
<1> QED
  BY <1>1, <1>2, <1>3

(* An entry for a row of an owner's. *)
LEMMA EnteredRow ==
  ASSUME NEW row \in Row
  PROVE  /\ Entered(row) # None /\ row.owner \in Owners
         /\ Entered(row) = [owner |-> row.owner,
                            content |-> IF row.key = None THEN None ELSE row.sum]
         /\ Entered(row).owner = row.owner
         /\ Entered(row).content = IF row.key = None THEN None ELSE row.sum
<1>1. row # None /\ row.owner \in Owners /\ row.sum \in Content \cup {None}
  BY ConstantsAssumption DEF Row
<1>2. Entered(row) = [owner |-> row.owner,
                      content |-> IF row.key = None THEN None ELSE row.sum]
  BY <1>1 DEF Entered
<1>3. Entered(row) \in Catalog!Entry
  BY <1>1, <1>2 DEF Catalog!Entry
<1>4. Entered(row) # None
  BY <1>3, CatalogAssumption
<1> QED
  BY <1>1, <1>2, <1>4

LEMMA CreateEntered ==
  ASSUME CatalogInv, CatalogInv', NEW o \in Owners, Create(o)
  PROVE  Catalog!Operation
<1> DEFINE row == [owner |-> o, key |-> None, sum |-> None]
<1>1. /\ nextId \in FileIds /\ files[nextId] = None
      /\ files' = [files EXCEPT ![nextId] = row] /\ row \in Row
  BY DEF Create, CatalogInv, LockInv, IdsAreNew, TypeInv, TypeOK, FileIds, Row
<1>2. Entered(row) = [owner |-> o, content |-> None]
  BY <1>1, EnteredRow
<1>3. Entered(None) = None
  BY DEF Entered
<1> HIDE DEF row
<1>4. catalog' = [catalog EXCEPT ![nextId] = [owner |-> o, content |-> None]]
      /\ catalog[nextId] = None
  <2>1. /\ catalog' = [catalog EXCEPT ![nextId] = Entered(row)]
        /\ \A j \in FileIds : catalog[j] = Entered(files[j])
    BY <1>1, CatalogChanged DEF CatalogInv
  <2> QED
    BY <1>1, <1>2, <1>3, <2>1
<1> QED
  BY <1>1, <1>4 DEF Catalog!Create, Catalog!Operation

(* What set_content leaves is the caller's own, and so is a merge's new row. *)
LEMMA StoredOwner ==
  ASSUME CatalogInv, NEW w \in Workers, req[w].pc = "commit",
         req[w].op \in {"upload", "merge"}
  PROVE  Stored(req[w]).owner = req[w].owner
<1>1. CASE req[w].op = "merge"
  BY <1>1 DEF Stored
<1>2. CASE req[w].op = "upload"
  <2>1. req[w].ids[1] \in FileIds /\ req[w].rows[req[w].ids[1]] # None
    BY <1>2, OwnRow DEF CatalogInv
  <2>2. Locking(w)
    BY <1>2 DEF Locking
  <2> QED
    BY <1>2, <2>1, <2>2 DEF Stored, CatalogInv, AskedInv
<1> QED
  BY <1>1, <1>2

LEMMA UploadEntered ==
  ASSUME CatalogInv, CatalogInv', NEW w \in Workers, CommitContent(w),
         req[w].op = "upload"
  PROVE  Catalog!Operation
<1> DEFINE q == req[w]
           i == q.ids[1]
<1>1. /\ i \in FileIds /\ files' = [files EXCEPT ![i] = Stored(q)]
      /\ Stored(q) \in Row /\ q.key # None /\ q.content \in Content /\ q.pc = "commit"
  BY StoredTyped, KeysTyped DEF CommitContent, CatalogInv, Storing
<1>2. q.rows[i] # None /\ files[i] = q.rows[i]
  BY <1>1, OwnRow DEF CatalogInv
<1>3. files[i] \in Row /\ files[i].owner = q.owner /\ q.owner \in Owners
  <2>1. Locking(w) /\ Shaped(q)
    BY <1>1, BusyShaped DEF Locking, CatalogInv
  <2>2. files[i] \in Row
    BY <1>1, <1>2 DEF CatalogInv, TypeInv, TypeOK
  <2> QED
    BY <1>1, <1>2, <2>1, <2>2 DEF CatalogInv, AskedInv, Shaped
<1>4. Stored(q).owner = q.owner /\ Stored(q).key = q.key /\ Stored(q).sum = q.content
  BY <1>1, StoredOwner DEF Stored
<1>5. Entered(Stored(q)) = [owner |-> q.owner, content |-> q.content]
  BY <1>1, <1>4, EnteredRow
<1>6. /\ catalog' = [catalog EXCEPT ![i] = Entered(Stored(q))]
      /\ catalog[i] = Entered(files[i])
  BY <1>1, CatalogChanged DEF CatalogInv
<1>7. /\ catalog[i] = [owner |-> q.owner,
                       content |-> IF files[i].key = None THEN None ELSE files[i].sum]
      /\ catalog[i] # None
  BY <1>3, <1>6, EnteredRow
<1>8. catalog' = [catalog EXCEPT ![i].content = q.content]
  <2>1. [catalog[i] EXCEPT !.content = q.content] = [owner |-> q.owner, content |-> q.content]
    BY <1>7
  <2>2. catalog' = [catalog EXCEPT ![i] = [catalog[i] EXCEPT !.content = q.content]]
    BY <1>5, <1>6, <2>1
  <2> QED
    BY <2>2
<1>9. Catalog!Upload(q.owner, i, q.content)
  BY <1>7, <1>8 DEF Catalog!Upload, Catalog!Owns
<1> QED
  BY <1>1, <1>3, <1>9 DEF Catalog!Operation

LEMMA DeleteEntered ==
  ASSUME CatalogInv, CatalogInv', NEW w \in Workers, CommitDelete(w)
  PROVE  Catalog!Operation
<1> DEFINE q == req[w]
           i == q.ids[1]
<1>1. /\ files' = [files EXCEPT ![i] = None] /\ q.pc = "commit" /\ q.op = "delete"
  BY DEF CommitDelete
<1>2. i \in FileIds /\ q.rows[i] # None /\ files[i] = q.rows[i]
  BY <1>1, OwnRow DEF CatalogInv
<1>3. files[i] \in Row /\ files[i].owner = q.owner
  <2>1. Locking(w)
    BY <1>1 DEF Locking
  <2> QED
    BY <1>2, <2>1 DEF CatalogInv, AskedInv, TypeInv, TypeOK
<1>4. Entered(None) = None
  BY DEF Entered
<1>5. /\ catalog' = [catalog EXCEPT ![i] = None] /\ catalog[i] = Entered(files[i])
  <2>1. /\ catalog' = [catalog EXCEPT ![i] = Entered(None)]
        /\ \A j \in FileIds : catalog[j] = Entered(files[j])
    BY <1>1, <1>2, CatalogChanged DEF CatalogInv
  <2> QED
    BY <1>2, <1>4, <2>1
<1>6. Catalog!Delete(q.owner, i) /\ q.owner \in Owners
  BY <1>3, <1>5, EnteredRow DEF Catalog!Delete, Catalog!Owns
<1> QED
  BY <1>2, <1>6 DEF Catalog!Operation

LEMMA MergeEntered ==
  ASSUME CatalogInv, CatalogInv', NEW w \in Workers, CommitContent(w),
         req[w].op = "merge"
  PROVE  Catalog!Operation
<1> DEFINE q == req[w]
           i == q.id
           ids == q.ids
<1>1. /\ i \in FileIds /\ files' = [files EXCEPT ![i] = Stored(q)] /\ files[i] = None
      /\ Stored(q) \in Row /\ q.key # None /\ q.content \in Content /\ q.pc = "commit"
  BY StoredTyped, KeysTyped
     DEF CommitContent, CatalogInv, Storing, LockInv, IdsAreNew
<1>2. /\ q.owner \in Owners /\ ids \in Sources /\ ids \in Seq(FileIds)
      /\ q.got \in Seq(Content) /\ Gathered(q) /\ Locking(w)
  <2>1. Shaped(q)
    BY <1>1, BusyShaped DEF CatalogInv
  <2>2. q \in Request
    BY DEF CatalogInv, TypeInv, TypeOK
  <2> QED
    BY <1>1, <2>1, <2>2 DEF CatalogInv, AskedInv, MergeInv, Shaped, Request, Locking
<1>3. /\ Len(q.got) = Len(ids) /\ q.content = FlattenSeq(q.got)
      /\ \A n \in 1..Len(ids) : /\ q.got[n] = q.rows[ids[n]].sum
                                /\ q.rows[ids[n]].key # None /\ q.rows[ids[n]] # None
                                /\ q.got[n] # <<>> /\ q.got[n] \in Content
  <2>1. \A n \in 1..Len(q.got) : q.got[n] \in Range(q.got)
    BY <1>2 DEF Range
  <2> QED
    BY <1>1, <1>2, <2>1 DEF Gathered
<1>4. /\ catalog' = [catalog EXCEPT ![i] = Entered(Stored(q))]
      /\ \A j \in FileIds : catalog[j] = Entered(files[j])
  BY <1>1, CatalogChanged DEF CatalogInv
<1>5. catalog[i] = None
  BY <1>1, <1>4 DEF Entered
<1>6. ASSUME NEW n \in 1..Len(ids)
      PROVE  /\ ids[n] \in FileIds /\ catalog[ids[n]] # None
             /\ catalog[ids[n]].owner = q.owner
             /\ catalog[ids[n]].content = q.got[n]
             /\ q.got[n] \notin {None, <<>>}
  <2>1. ids[n] \in FileIds
    BY <1>2
  <2>2. PICK row \in Row : row = files[ids[n]] /\ row = q.rows[ids[n]]
    BY <1>2, <1>3, <2>1 DEF CatalogInv, LockInv, Held, TypeInv, TypeOK
  <2>3. row.owner = q.owner
    BY <1>2, <1>3, <2>1, <2>2 DEF CatalogInv, AskedInv
  <2>4. row.key # None /\ row.sum = q.got[n] /\ catalog[ids[n]] = Entered(row)
    BY <1>3, <1>4, <2>1, <2>2
  <2>5. q.got[n] \notin {None, <<>>}
    BY <1>3, ConstantsAssumption
  <2> QED
    BY <2>1, <2>2, <2>3, <2>4, <2>5, EnteredRow
<1>7. q.got = [n \in DOMAIN ids |-> catalog[ids[n]].content]
  BY <1>2, <1>3, <1>6
<1>8. Entered(Stored(q)) = [owner |-> q.owner, content |-> q.content]
  <2>1. Stored(q).owner = q.owner /\ Stored(q).key = q.key /\ Stored(q).sum = q.content
    BY <1>1, StoredOwner DEF Stored
  <2> QED
    BY <1>1, <2>1, EnteredRow
<1>9. \A s : Catalog!FlattenSeq(s) = FlattenSeq(s)
  BY DEF FlattenSeq, Catalog!FlattenSeq
<1>10. catalog' = [catalog EXCEPT ![i] =
          [owner |-> q.owner,
           content |-> Catalog!FlattenSeq([n \in DOMAIN ids |-> catalog[ids[n]].content])]]
  BY <1>3, <1>4, <1>7, <1>8, <1>9
<1>11. \A j \in Catalog!Range(ids) :
          Catalog!Owns(q.owner, j) /\ catalog[j].content \notin {None, <<>>}
  BY <1>2, <1>6 DEF Catalog!Range, Catalog!Owns
<1>12. Catalog!Merge(q.owner, ids, i)
  BY <1>5, <1>10, <1>11 DEF Catalog!Merge
<1> QED
  BY <1>1, <1>2, <1>12 DEF Catalog!Operation

LEMMA CatalogStep ==
  ASSUME CatalogInv, CatalogInv', [Next]_vars
  PROVE  [Catalog!Next]_catalog
<1>1. ASSUME files' = files PROVE UNCHANGED catalog
  BY <1>1, CatalogKept DEF CatalogInv
<1>2. ASSUME NEW o \in Owners, Create(o) PROVE Catalog!Operation
  BY <1>2, CreateEntered
<1>3. ASSUME NEW w \in Workers, CommitContent(w) PROVE Catalog!Operation
  BY <1>3, UploadEntered, MergeEntered DEF CommitContent
<1>4. ASSUME NEW w \in Workers, CommitDelete(w) PROVE Catalog!Operation
  BY <1>4, DeleteEntered
<1>5. ASSUME NEW w \in Workers, NEW o \in Owners,
             \/ \E i \in FileIds, c \in Uploads(o), k \in Keys :
                    StartUpload(w, o, i, c, k)
             \/ \E i \in FileIds : StartDelete(w, o, i)
             \/ \E i \in FileIds : StartGet(w, o, i)
             \/ \E ids \in Sources, k \in Keys : StartMerge(w, o, ids, k)
      PROVE  files' = files
  BY <1>5, Begun DEF CatalogInv
<1>6. ASSUME NEW w \in Workers, Refuse(w) PROVE files' = files
  BY <1>6 DEF Refuse
<1>7. ASSUME NEW w \in Workers, Fetch(w) \/ Merge(w) \/ Put(w) PROVE files' = files
  BY <1>6, <1>7, Carries DEF CatalogInv
<1>8. ASSUME NEW w \in Workers,
             \/ \E i \in FileIds : LockRow(w, i)
             \/ CommitGet(w) \/ Unlink(w) \/ UnlinkFails(w)
      PROVE  files' = files
  BY <1>8 DEF LockRow, CommitGet, Unlink, UnlinkFails
<1>9. CASE UNCHANGED vars
  BY <1>1, <1>9 DEF vars
<1>10. ASSUME Next PROVE Catalog!Operation \/ files' = files
  BY <1>2, <1>3, <1>4, <1>5, <1>6, <1>7, <1>8, <1>10
     DEF Next, Continue, NotFound, Abort
<1> QED
  BY <1>1, <1>9, <1>10 DEF Catalog!Next

LEMMA CatalogAlways == Spec => []CatalogInv
<1>1. Init => MergeInv /\ AskedInv
  BY DEF Init, MergeInv, AskedInv, NoRequest, NoRows, Locking, Storing
<1> QED
  BY <1>1, Invariants, MergeStep, AskedStep, PTL DEF Spec, CatalogInv

(* Rows under locks and blobs outside the transaction behave like the       *)
(* catalog of FileCatalog, which changes by one whole operation of an owner *)
(* at a time: no reader sees half an upload, a merge of contents that were  *)
(* never together or a deleted file come back.                              *)
THEOREM CatalogImplemented == Spec => ImplementsCatalog
<1>1. Init => Catalog!Init
  BY DEF Init, Catalog!Init, catalog
<1>2. CatalogInv /\ CatalogInv' /\ [Next]_vars => [Catalog!Next]_catalog
  BY CatalogStep
<1> QED
  BY <1>1, <1>2, CatalogAlways, PTL DEF Spec, ImplementsCatalog, Catalog!Spec

-----------------------------------------------------------------------------
(* What the bucket is left with.  An object is in use while a row names it  *)
(* or a request is about to commit it or to delete it.                      *)

InHand(w, k) ==
    \/ req[w].pc = "commit" /\ req[w].key = k
    \/ req[w].pc = "unlink" /\ Dead(w) = k

LEMMA UnreferencedMeans ==
  ASSUME NEW k \in Keys
  PROVE  Unreferenced(k) <=> /\ blobs[k] # None
                             /\ \A i \in FileIds : ~Names(i, k)
                             /\ \A w \in Workers : ~InHand(w, k)
BY DEF Unreferenced, Names, InHand

(* A step after which nothing has gone out of use. *)
LEMMA NothingLeft ==
  ASSUME NEW k \in Keys, NEW w \in Workers,
         \A v \in Workers \ {w} : req'[v] = req[v],
         InHand(w, k) => InHand(w, k)',
         \A i \in FileIds : Names(i, k) => Names(i, k)',
         blobs'[k] \in {blobs[k], None},
         Unreferenced(k)'
  PROVE  Unreferenced(k)
<1>1. /\ blobs'[k] # None /\ \A i \in FileIds : ~Names(i, k)'
      /\ \A v \in Workers : ~InHand(v, k)'
  BY DEF Unreferenced, Names, InHand
<1>2. \A v \in Workers \ {w} : InHand(v, k)' <=> InHand(v, k)
  BY DEF InHand, Dead
<1> QED
  BY <1>1, <1>2, UnreferencedMeans

LEMMA LeakStored ==
  ASSUME CatalogInv, NEW k \in Keys, NEW w \in Workers, CommitContent(w),
         ~Unreferenced(k), Unreferenced(k)'
  PROVE  Replaced(k)
<1> DEFINE x == IF req[w].op = "upload" THEN req[w].ids[1] ELSE req[w].id
<1>1. /\ x \in FileIds /\ req[w].pc = "commit" /\ req[w].op \in {"upload", "merge"}
      /\ files'[x] = Stored(req[w]) /\ Stored(req[w]) # None
      /\ Stored(req[w]).key = req[w].key
      /\ \A i \in FileIds \ {x} : files'[i] = files[i]
      /\ blobs' = blobs /\ Answer(w, "ok")
  BY StoredTyped DEF CommitContent, CatalogInv, TypeInv, TypeOK
<1>2. req[w].op = "merge" => files[x] = None
  BY <1>1 DEF CatalogInv, LockInv, IdsAreNew
<1>3. \A v \in Workers \ {w} : req'[v] = req[v]
  BY <1>1, Answered DEF CatalogInv
<1> HIDE DEF x
<1>4. \A i \in FileIds : ~Names(i, k)'
  BY DEF Unreferenced, Names
<1>5. req[w].key # k
  BY <1>1, <1>4 DEF Names
<1>6. ~InHand(w, k)
  BY <1>1, <1>5 DEF InHand
<1>7. PICK i \in FileIds : Names(i, k) /\ ~Names(i, k)'
  BY <1>1, <1>3, <1>6, NothingLeft
<1>8. i = x /\ files[x] # None /\ files[x].key = k /\ files'[x] # None /\ files'[x].key # k
  BY <1>1, <1>5, <1>7 DEF Names
<1> QED
  BY <1>8 DEF Replaced

LEMMA LeakDeleted ==
  ASSUME CatalogInv, NEW k \in Keys, NEW w \in Workers, CommitDelete(w), Unreferenced(k)'
  PROVE  Unreferenced(k)
<1> DEFINE x == req[w].ids[1]
<1>1. /\ req[w].pc = "commit" /\ req[w].op = "delete" /\ blobs' = blobs
      /\ files' = [files EXCEPT ![x] = None]
  BY DEF CommitDelete
<1>2. x \in FileIds /\ files[x] = req[w].rows[x] /\ req[w].key = None
  BY <1>1, OwnRow DEF CatalogInv, AskedInv, Storing
<1>3. k # None
  BY ConstantsAssumption
<1>4. ~InHand(w, k)
  BY <1>1, <1>2, <1>3 DEF InHand
<1>5. \A v \in Workers \ {w} : req'[v] = req[v]
  BY DEF CommitDelete, Answer, Goto, CatalogInv, TypeInv, TypeOK
<1>6. ~Names(x, k)
  <2> SUFFICES ASSUME Names(x, k) PROVE FALSE
    OBVIOUS
  <2>1. req[w].rows[x].key = k
    BY <1>2 DEF Names
  <2>2. Goto(w, "unlink")
    BY <1>3, <2>1 DEF CommitDelete
  <2>3. req'[w].pc = "unlink" /\ Dead(w)' = k
    BY <2>1, <2>2 DEF Goto, Dead, CatalogInv, TypeInv, TypeOK, Request
  <2> QED
    BY <2>3 DEF Unreferenced
<1>7. \A i \in FileIds \ {x} : Names(i, k) => Names(i, k)'
  BY <1>1, <1>2 DEF Names, CatalogInv, TypeInv, TypeOK
<1> HIDE DEF x
<1> QED
  BY <1>1, <1>4, <1>5, <1>6, <1>7, NothingLeft

LEMMA LeakStep ==
  ASSUME CatalogInv, [Next]_vars, NEW k \in Keys, ~Unreferenced(k), Unreferenced(k)'
  PROVE  Replaced(k) \/ \E w \in Workers : FailedWith(w, k)
<1>1. ~ UNCHANGED vars
  BY DEF vars, Unreferenced, Dead
<1>2. ASSUME NEW o \in Owners, Create(o) PROVE FALSE
  <2>1. /\ UNCHANGED <<blobs, req>> /\ files[nextId] = None
        /\ \A i \in FileIds \ {nextId} : files'[i] = files[i]
    BY <1>2 DEF Create, CatalogInv, LockInv, IdsAreNew, TypeInv, TypeOK, FileIds
  <2> QED
    BY <2>1 DEF Unreferenced, Dead
<1>3. ASSUME NEW w \in Workers, \A v \in Workers \ {w} : req'[v] = req[v],
             ~InHand(w, k), UNCHANGED files, blobs'[k] \in {blobs[k], None}
      PROVE  FALSE
  BY <1>3, NothingLeft DEF Names
<1>4. ASSUME NEW w \in Workers, NEW o \in Owners,
             \/ \E i \in FileIds, c \in Uploads(o), j \in Keys :
                    StartUpload(w, o, i, c, j)
             \/ \E i \in FileIds : StartDelete(w, o, i)
             \/ \E i \in FileIds : StartGet(w, o, i)
             \/ \E ids \in Sources, j \in Keys : StartMerge(w, o, ids, j)
      PROVE  FALSE
  <2>1. /\ \A v \in Workers \ {w} : req'[v] = req[v]
        /\ req[w].pc = "idle" /\ UNCHANGED <<files, blobs>>
    BY <1>4, Begun DEF CatalogInv
  <2> QED
    BY <1>3, <2>1 DEF InHand
<1>5. ASSUME NEW w \in Workers, NEW i \in FileIds, LockRow(w, i) PROVE FALSE
  <2>1. /\ \A v \in Workers \ {w} : req'[v] = req[v]
        /\ req[w].pc = "lock" /\ UNCHANGED <<files, blobs>>
    BY <1>5 DEF LockRow, CatalogInv, TypeInv, TypeOK
  <2> QED
    BY <1>3, <2>1 DEF InHand
<1>6. ASSUME NEW w \in Workers, Fetch(w) \/ Merge(w) \/ Put(w), ~Refuse(w)
      PROVE  FALSE
  <2>1. /\ \A v \in Workers \ {w} : req'[v] = req[v]
        /\ req[w].pc \notin {"unlink", "commit"} /\ UNCHANGED files
    BY <1>6, Carries DEF CatalogInv
  <2>2. blobs'[k] = blobs[k]
    <3>1. CASE Put(w)
      <4>1. req'[w].pc = "commit" /\ req'[w].key = req[w].key
        BY <3>1 DEF Put, Goto, CatalogInv, TypeInv, TypeOK, Request
      <4>2. req[w].key # k
        BY <4>1 DEF Unreferenced
      <4> QED
        BY <3>1, <4>2 DEF Put, CatalogInv, TypeInv, TypeOK
    <3>2. CASE Fetch(w) \/ Merge(w)
      BY <1>6, <3>2 DEF Fetch, Merge
    <3> QED
      BY <1>6, <3>1, <3>2
  <2> QED
    BY <1>3, <2>1, <2>2 DEF InHand
<1>7. ASSUME NEW w \in Workers, Answer(w, "error"), UNCHANGED files,
             blobs'[k] \in {blobs[k], None}
      PROVE  FailedWith(w, k)
  <2>1. req'[w].pc = "idle" /\ \A v \in Workers \ {w} : req'[v] = req[v]
    BY <1>7, Answered DEF CatalogInv
  <2>2. reply'[w] = "error"
    BY <1>7 DEF Answer, CatalogInv, TypeInv, TypeOK
  <2>3. InHand(w, k)
    BY <1>3, <1>7, <2>1
  <2> QED
    BY <2>1, <2>2, <2>3 DEF FailedWith, InHand
<1>8. ASSUME NEW w \in Workers, Refuse(w) PROVE FailedWith(w, k)
  BY <1>7, <1>8 DEF Refuse
<1>9. ASSUME NEW w \in Workers, UnlinkFails(w) PROVE FailedWith(w, k)
  <2>1. blobs'[k] \in {blobs[k], None}
    BY <1>9 DEF UnlinkFails, CatalogInv, TypeInv, TypeOK
  <2> QED
    BY <1>7, <1>9, <2>1 DEF UnlinkFails
<1>10. ASSUME NEW w \in Workers, Unlink(w) PROVE FALSE
  <2>1. /\ \A v \in Workers \ {w} : req'[v] = req[v]
        /\ req[w].pc = "unlink" /\ UNCHANGED files
    BY <1>10, Answered DEF Unlink, CatalogInv
  <2>2. Dead(w) # k
    BY <1>10 DEF Unlink, Unreferenced, CatalogInv, TypeInv, TypeOK
  <2>3. blobs'[k] = blobs[k]
    BY <1>10, <2>2 DEF Unlink, CatalogInv, TypeInv, TypeOK
  <2> QED
    BY <1>3, <2>1, <2>2, <2>3 DEF InHand
<1>11. ASSUME NEW w \in Workers, CommitGet(w) PROVE FALSE
  <2>1. /\ \A v \in Workers \ {w} : req'[v] = req[v]
        /\ req[w].pc = "commit" /\ UNCHANGED <<files, blobs>>
    BY <1>11, Answered DEF CommitGet, CatalogInv
  <2>2. req[w].key # k
    BY <1>11, ConstantsAssumption DEF CommitGet, CatalogInv, AskedInv, Storing
  <2> QED
    BY <1>3, <2>1, <2>2 DEF InHand
<1>12. ASSUME NEW w \in Workers, CommitContent(w) PROVE Replaced(k)
  BY <1>12, LeakStored
<1>13. ASSUME NEW w \in Workers, CommitDelete(w) PROVE FALSE
  BY <1>13, LeakDeleted
<1> HIDE DEF CatalogInv
<1> QED
  BY <1>1, <1>2, <1>4, <1>5, <1>6, <1>8, <1>9, <1>10, <1>11, <1>12, <1>13
     DEF Next, Continue, NotFound, Abort

(* put, commit and delete leave no object behind but the content an upload  *)
(* has replaced and what a request that failed after its put or at its last *)
(* delete had in hand.                                                      *)
THEOREM LeaksExplained == Spec => LeaksHaveACause
<1>1. CatalogInv /\ [Next]_vars =>
        [\A k \in Keys : (~Unreferenced(k) /\ Unreferenced(k)') =>
            Replaced(k) \/ \E w \in Workers : FailedWith(w, k)]_vars
  BY LeakStep
<1> QED
  BY <1>1, CatalogAlways, PTL DEF Spec, LeaksHaveACause
-----------------------------------------------------------------------------
(* Joined sequences.  FlattenSeq is a recursion over the length of its      *)
(* argument; the facts below follow by the least counterexample.            *)

(* A set of numbers that is not empty has a least. *)
LEMMA Least ==
  ASSUME NEW T \in SUBSET Nat, T # {}
  PROVE  \E m \in T : \A n \in T : m <= n
<1> DEFINE R == {r \in Nat \X Nat : r[1] < r[2]}
<1>1. IsWellFoundedOn(R, Nat)
  BY NatLessThanWellFounded DEF OpToRel
<1> HIDE DEF R
<1>2. PICK m \in T : \A n \in T : <<n, m>> \notin R
  BY <1>1, WFMin, Zenon
<1>3. \A n \in T : ~(n < m)
  BY <1>2 DEF R
<1> QED
  BY <1>3

(* f joins the first n members of s, as FlattenSeq does. *)
Joins(f, s, n) ==
    f = [i \in 1..n |-> IF i = 1 THEN s[i] ELSE f[i - 1] \o s[i]]

(* The recursion that FlattenSeq is defined by has a solution of every      *)
(* length.                                                                  *)
LEMMA JoinsExist ==
  ASSUME NEW s, NEW n \in Nat
  PROVE  \E f : Joins(f, s, n)
<1> DEFINE T == {m \in Nat : ~\E f : Joins(f, s, m)}
<1>1. SUFFICES ASSUME T # {} PROVE FALSE
  OBVIOUS
<1>2. PICK m \in T : \A k \in T : m <= k
  <2> HIDE DEF T
  <2> QED
    BY <1>1, Least DEF T
<1>3. CASE m <= 1
  <2> DEFINE f == [i \in 1..m |-> s[i]]
  <2>1. f = [i \in 1..m |-> IF i = 1 THEN s[i] ELSE f[i - 1] \o s[i]]
    BY <1>3
  <2> QED
    BY <2>1 DEF Joins
<1>4. CASE m > 1
  <2>1. m - 1 \in Nat /\ m - 1 \notin T
    BY <1>2, <1>4
  <2>2. PICK f : f = [i \in 1..(m - 1) |-> IF i = 1 THEN s[i] ELSE f[i - 1] \o s[i]]
    BY <2>1 DEF Joins
  <2> DEFINE g == [i \in 1..m |-> IF i < m THEN f[i] ELSE f[m - 1] \o s[m]]
  <2>3. ASSUME NEW i \in 1..m
        PROVE  g[i] = IF i = 1 THEN s[i] ELSE g[i - 1] \o s[i]
    <3>1. CASE i < m
      <4>1. i \in 1..(m - 1) /\ m \in Nat
        BY <3>1
      <4>2. f[i] = IF i = 1 THEN s[i] ELSE f[i - 1] \o s[i]
        BY <2>2, <4>1
      <4>3. g[i] = f[i] /\ (i # 1 => g[i - 1] = f[i - 1])
        BY <3>1, <4>1
      <4> HIDE DEF g
      <4> QED
        BY <4>2, <4>3
    <3>2. CASE i = m
      BY <1>4, <3>2
    <3> QED
      BY <3>1, <3>2
  <2>4. g = [i \in 1..m |-> IF i = 1 THEN s[i] ELSE g[i - 1] \o s[i]]
    BY <2>3
  <2> HIDE DEF g
  <2> QED
    BY <2>4 DEF Joins
<1> QED
  BY <1>2, <1>3, <1>4

(* Sequences over S are joined to a sequence over S. *)
LEMMA FlattenSeqOver ==
  ASSUME NEW S, NEW s \in Seq(Seq(S))
  PROVE  FlattenSeq(s) \in Seq(S)
<1> DEFINE L == Len(s)
           F == CHOOSE f : Joins(f, s, L)
           T == {n \in Nat : n \in 1..L /\ F[n] \notin Seq(S)}
<1>1. L \in Nat /\ \A i \in 1..L : s[i] \in Seq(S)
  OBVIOUS
<1>2. CASE L = 0
  <2>1. s = <<>>
    BY <1>2, EmptySeq
  <2> QED
    BY <1>2, <2>1 DEF FlattenSeq
<1>3. CASE L # 0
  <2>1. Joins(F, s, L)
    <3>1. \E f : Joins(f, s, L)
      BY <1>1, JoinsExist
    <3> QED
      BY <3>1, Zenon
  <2>2. FlattenSeq(s) = F[L]
    BY <1>3 DEF FlattenSeq, Joins
  <2> HIDE DEF F
  <2>3. \A i \in 1..L : F[i] = IF i = 1 THEN s[i] ELSE F[i - 1] \o s[i]
    BY <2>1 DEF Joins
  <2>4. ASSUME T # {} PROVE FALSE
    <3>1. PICK m \in T : \A k \in T : m <= k
      <4> HIDE DEF T
      <4> QED
        BY <2>4, Least DEF T
    <3>2. CASE m = 1
      BY <1>1, <2>3, <3>1, <3>2
    <3>3. CASE m # 1
      <4>1. m - 1 \in 1..L /\ m - 1 \notin T
        BY <1>1, <3>1, <3>3
      <4>2. F[m - 1] \in Seq(S) /\ s[m] \in Seq(S)
        BY <1>1, <3>1, <4>1
      <4>3. F[m] = F[m - 1] \o s[m]
        BY <2>3, <3>1, <3>3
      <4>4. F[m] \in Seq(S)
        BY <4>2, <4>3, ConcatProperties
      <4> QED
        BY <3>1, <4>4
    <3> QED
      BY <3>2, <3>3
  <2> QED
    BY <1>1, <1>3, <2>2, <2>4
<1> QED
  BY <1>2, <1>3

-----------------------------------------------------------------------------
(* Where pages come from.  A file, and what a request is about to make of   *)
(* it, consist of pages of its owner's: clients upload only their own, and  *)
(* a merge joins only what the rows it has locked say is there.             *)

PagesOf(o) == Seq({o} \X Marks)

PagesInv ==
    /\ \A i \in FileIds : (files[i] # None /\ files[i].key # None) =>
          files[i].sum \in PagesOf(files[i].owner)
    /\ \A w \in Workers :
          /\ req[w].op = "upload" => req[w].content \in PagesOf(req[w].owner)
          /\ (req[w].op = "merge" /\ req[w].pc \in {"put", "commit"}) =>
                req[w].content \in PagesOf(req[w].owner)

LEMMA OwnUploads ==
  ASSUME NEW o \in Owners, NEW c \in Uploads(o)
  PROVE  c \in PagesOf(o)
<1> DEFINE S == {o} \X Marks
<1>1. CASE c = <<>>
  BY <1>1, EmptySeq DEF PagesOf
<1>2. ASSUME NEW p \in S, c = <<p>> PROVE c \in PagesOf(o)
  <2> HIDE DEF S
  <2>1. <<p>> \in Seq(S)
    OBVIOUS
  <2> QED
    BY <1>2, <2>1 DEF PagesOf, S
<1> QED
  BY <1>1, <1>2 DEF Uploads

(* What a merge joins has been read from files of the one who asked. *)
LEMMA JoinedPages ==
  ASSUME CatalogInv, PagesInv, NEW w \in Workers, req[w].op = "merge", req[w].pc = "merge"
  PROVE  FlattenSeq(req[w].got) \in PagesOf(req[w].owner)
<1> DEFINE q == req[w]
           S == {q.owner} \X Marks
<1>1. /\ q.ids \in Seq(FileIds) /\ q.got \in Seq(Content) /\ Gathered(q) /\ Locking(w)
  BY DEF CatalogInv, MergeInv, TypeInv, TypeOK, Request, Locking
<1>2. ASSUME NEW n \in 1..Len(q.got) PROVE q.got[n] \in Seq(S)
  <2>1. /\ q.ids[n] \in FileIds /\ q.rows[q.ids[n]] # None
        /\ q.got[n] = q.rows[q.ids[n]].sum /\ q.rows[q.ids[n]].key # None
    BY <1>1 DEF Gathered
  <2>2. files[q.ids[n]] = q.rows[q.ids[n]] /\ files[q.ids[n]].owner = q.owner
    BY <1>1, <2>1 DEF CatalogInv, LockInv, Held, AskedInv
  <2> QED
    BY <2>1, <2>2 DEF PagesInv, PagesOf
<1>3. q.got \in Seq(Seq(S))
  <2>1. Len(q.got) \in Nat /\ q.got = [n \in 1..Len(q.got) |-> q.got[n]]
    BY <1>1
  <2> HIDE DEF S
  <2>2. q.got \in [1..Len(q.got) -> Seq(S)]
    BY <1>2, <2>1
  <2> QED
    BY <2>1, <2>2
<1> QED
  BY <1>3, FlattenSeqOver DEF PagesOf

(* A step that stores no row and gives w no content of somebody else's. *)
LEMMA PagesKept ==
  ASSUME CatalogInv, PagesInv, NEW w \in Workers, files' = files,
         \A v \in Workers \ {w} : req'[v] = req[v],
         req'[w].op = "upload" => req'[w].content \in PagesOf(req'[w].owner),
         (req'[w].op = "merge" /\ req'[w].pc \in {"put", "commit"}) =>
            req'[w].content \in PagesOf(req'[w].owner)
  PROVE  PagesInv'
BY DEF PagesInv

LEMMA PagesStep ==
  ASSUME CatalogInv, PagesInv, [Next]_vars
  PROVE  PagesInv'
<1>0. TypeInv /\ req \in [Workers -> Request] /\ TypeInv' /\ req' \in [Workers -> Request]
  BY TypeStep DEF CatalogInv, TypeInv, TypeOK
<1>1. CASE UNCHANGED vars
  BY <1>1 DEF vars, PagesInv
<1>2. ASSUME NEW o \in Owners, Create(o) PROVE PagesInv'
  BY <1>0, <1>2 DEF Create, PagesInv, TypeInv, TypeOK
<1>3. ASSUME NEW w \in Workers, NEW o \in Owners,
             \/ \E i \in FileIds, c \in Uploads(o), k \in Keys :
                    StartUpload(w, o, i, c, k)
             \/ \E i \in FileIds : StartDelete(w, o, i)
             \/ \E i \in FileIds : StartGet(w, o, i)
             \/ \E ids \in Sources, k \in Keys : StartMerge(w, o, ids, k)
      PROVE  PagesInv'
  <2>1. files' = files /\ \A v \in Workers \ {w} : req'[v] = req[v]
    BY <1>0, <1>3, Begun
  <2>2. ASSUME NEW i \in FileIds, NEW c \in Uploads(o), NEW k \in Keys,
               StartUpload(w, o, i, c, k)
        PROVE  req'[w].op = "upload" /\ req'[w].content = c /\ req'[w].owner = o
    BY <1>0, <2>2 DEF StartUpload, Begin, NoRequest
  <2>3. CASE \E i \in FileIds, c \in Uploads(o), k \in Keys : StartUpload(w, o, i, c, k)
    BY <2>1, <2>2, <2>3, OwnUploads, PagesKept
  <2>4. CASE \/ \E i \in FileIds : StartDelete(w, o, i)
             \/ \E i \in FileIds : StartGet(w, o, i)
             \/ \E ids \in Sources, k \in Keys : StartMerge(w, o, ids, k)
    <3>1. ASSUME NEW i \in FileIds, StartDelete(w, o, i)
          PROVE  req'[w].op # "upload" /\ req'[w].pc \notin {"put", "commit"}
      BY <1>0, <3>1 DEF StartDelete, Begin, NoRequest
    <3>2. ASSUME NEW i \in FileIds, StartGet(w, o, i)
          PROVE  req'[w].op # "upload" /\ req'[w].pc \notin {"put", "commit"}
      BY <1>0, <3>2 DEF StartGet, Begin, NoRequest
    <3>3. ASSUME NEW ids \in Sources, NEW k \in Keys, StartMerge(w, o, ids, k)
          PROVE  req'[w].op # "upload" /\ req'[w].pc \notin {"put", "commit"}
      BY <1>0, <3>3 DEF StartMerge, Begin, NoRequest
    <3> QED
      BY <2>1, <2>4, <3>1, <3>2, <3>3, PagesKept
  <2> QED
    BY <1>3, <2>3, <2>4
<1>4. ASSUME NEW w \in Workers, NEW status, Answer(w, status), files' = files
      PROVE  PagesInv'
  BY <1>0, <1>4, Answered, PagesKept
<1>5. ASSUME NEW w \in Workers, NEW i \in FileIds, LockRow(w, i) PROVE PagesInv'
  <2> DEFINE p == IF Wanted(w) # {i} THEN "lock" ELSE AfterLock(req[w].op)
  <2>1. req' = [req EXCEPT ![w].rows[i] = files[i], ![w].pc = p] /\ files' = files
    BY <1>5 DEF LockRow
  <2>2. req[w].op = "merge" => p \notin {"put", "commit"}
    BY DEF AfterLock
  <2> HIDE DEF p
  <2>3. /\ \A v \in Workers \ {w} : req'[v] = req[v]
        /\ req'[w].op = req[w].op /\ req'[w].owner = req[w].owner
        /\ req'[w].content = req[w].content /\ req'[w].pc = p
    BY <1>0, <2>1 DEF Request
  <2>4. req'[w].op = "upload" => req'[w].content \in PagesOf(req'[w].owner)
    BY <2>3 DEF PagesInv
  <2> QED
    BY <2>1, <2>2, <2>3, <2>4, PagesKept
<1>6. ASSUME NEW w \in Workers, Fetch(w) \/ Put(w), ~Refuse(w) PROVE PagesInv'
  <2>1. /\ \A v \in Workers \ {w} : req'[v] = req[v]
        /\ req'[w].op = req[w].op /\ req'[w].owner = req[w].owner /\ files' = files
    BY <1>0, <1>6, Carries
  <2>2. /\ req'[w].content = req[w].content
        /\ (req'[w].op = "merge" /\ req'[w].pc \in {"put", "commit"}) => req[w].pc = "put"
    <3>1. CASE Put(w)
      BY <1>0, <3>1 DEF Put, Goto, Request
    <3>2. CASE Fetch(w)
      <4> DEFINE n == Len(req[w].got) + 1
                 source == req[w].rows[req[w].ids[n]]
                 got == Append(req[w].got,
                               IF source.key = None THEN None ELSE blobs[source.key])
                 p == IF n < Len(req[w].ids) THEN "fetch"
                      ELSE IF req[w].op = "merge" THEN "merge" ELSE "commit"
      <4>1. req' = [req EXCEPT ![w].got = got, ![w].pc = p]
        BY <1>6, <3>2 DEF Fetch
      <4>2. req[w].op = "merge" => p \notin {"put", "commit"}
        OBVIOUS
      <4> HIDE DEF got, p
      <4> QED
        BY <1>0, <4>1, <4>2 DEF Request
    <3> QED
      BY <1>6, <3>1, <3>2
  <2> QED
    BY <2>1, <2>2, PagesKept DEF PagesInv
<1>7. ASSUME NEW w \in Workers, Merge(w), ~Refuse(w) PROVE PagesInv'
  <2> DEFINE merged == FlattenSeq(req[w].got)
  <2>1. /\ req' = [req EXCEPT ![w].content = merged, ![w].pc = "put"]
        /\ req[w].pc = "merge" /\ files' = files
    BY <1>7 DEF Merge
  <2>2. req[w].op = "merge"
    BY <1>0, <2>1, BusyShaped DEF Shaped
  <2>3. merged \in PagesOf(req[w].owner)
    BY <2>1, <2>2, JoinedPages
  <2> HIDE DEF merged
  <2>4. /\ \A v \in Workers \ {w} : req'[v] = req[v]
        /\ req'[w].op = "merge" /\ req'[w].owner = req[w].owner
        /\ req'[w].content = merged
    BY <1>0, <2>1, <2>2 DEF Request
  <2> QED
    BY <2>1, <2>3, <2>4, PagesKept
<1>8. ASSUME NEW w \in Workers, CommitContent(w) PROVE PagesInv'
  <2> DEFINE x == IF req[w].op = "upload" THEN req[w].ids[1] ELSE req[w].id
  <2>1. /\ files' = [files EXCEPT ![x] = Stored(req[w])] /\ Answer(w, "ok")
        /\ req[w].pc = "commit" /\ req[w].op \in {"upload", "merge"}
    BY <1>8 DEF CommitContent
  <2> HIDE DEF x
  <2>2. Stored(req[w]).sum \in PagesOf(Stored(req[w]).owner)
    <3>1. Stored(req[w]).owner = req[w].owner /\ Stored(req[w]).sum = req[w].content
      BY <2>1, StoredOwner DEF Stored
    <3> QED
      BY <2>1, <3>1 DEF PagesInv
  <2>3. \A i \in FileIds : files'[i] = files[i] \/ files'[i] = Stored(req[w])
    BY <1>0, <2>1 DEF TypeInv, TypeOK
  <2>4. /\ req'[w].op = "none"
        /\ \A v \in Workers \ {w} : req'[v] = req[v]
    BY <1>0, <2>1, Answered
  <2> QED
    BY <2>2, <2>3, <2>4 DEF PagesInv
<1>9. ASSUME NEW w \in Workers, CommitDelete(w) PROVE PagesInv'
  <2>1. \A i \in FileIds : files'[i] = files[i] \/ files'[i] = None
    BY <1>0, <1>9 DEF CommitDelete, TypeInv, TypeOK
  <2>2. \A v \in Workers : v # w => req'[v] = req[v]
    BY <1>0, <1>9, Answered DEF CommitDelete, Goto
  <2>3. req'[w].op \notin {"upload", "merge"}
    BY <1>0, <1>9, Answered DEF CommitDelete, Goto, Request
  <2> QED
    BY <2>1, <2>2, <2>3 DEF PagesInv
<1>10. ASSUME NEW w \in Workers,
             Refuse(w) \/ CommitGet(w) \/ Unlink(w) \/ UnlinkFails(w)
       PROVE PagesInv'
  BY <1>4, <1>10 DEF Refuse, CommitGet, Unlink, UnlinkFails
<1> HIDE DEF CatalogInv
<1> QED
  BY <1>1, <1>2, <1>3, <1>5, <1>6, <1>7, <1>8, <1>9, <1>10
     DEF Next, Continue, NotFound, Abort

(* Whatever uploads, merges, failures and deletions go on together, a file  *)
(* somebody can read holds only pages that its owner uploaded: a merge      *)
(* never joins a source its caller does not own.                            *)
THEOREM PagesStayHome == Spec => []NoForeignPages
<1>1. Init => PagesInv
  BY DEF Init, PagesInv, NoRequest
<1>2. CatalogInv /\ PagesInv => NoForeignPages
  <2> SUFFICES ASSUME CatalogInv, PagesInv, NEW i \in FileIds,
                      files[i] # None, files[i].key # None,
                      NEW p \in Range(blobs[files[i].key])
               PROVE  p[1] = files[i].owner
    BY DEF NoForeignPages
  <2> DEFINE S == {files[i].owner} \X Marks
  <2>1. blobs[files[i].key] = files[i].sum
    BY DEF CatalogInv, BlobInv, NoDanglingKey
  <2>2. files[i].sum \in Seq(S)
    BY DEF PagesInv, PagesOf
  <2> QED
    BY <2>1, <2>2 DEF Range
<1>3. CatalogInv /\ PagesInv /\ [Next]_vars => PagesInv'
  BY PagesStep
<1> QED
  BY <1>1, <1>2, <1>3, CatalogAlways, PTL DEF Spec
=============================================================================
