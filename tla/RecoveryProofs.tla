--------------------------- MODULE RecoveryProofs ----------------------------
(***************************************************************************)
(* Theorems about the deployment and the recovery script, for any number   *)
(* of workers, keys, faults and rounds of polling.                         *)
(***************************************************************************)
EXTENDS Recovery, TLAPS

USE StorageAssumption, FaultsAssumption, RoundsAssumption

(* Which part of the state each group of actions leaves alone.              *)
BlobStep ==
    \/ \E w \in Workers, k \in Keys : Put(w, k) \/ Delete(w, k)
    \/ \E k \in Keys : Proceed(k) \/ PutFails(k) \/ DeleteFails(k)
    \/ \E Down \in SUBSET Workers : Orphaned(Down) /\ UNCHANGED <<seen, disk>>
    \/ LosePower

(* Every step that touches a file is one of ContentStorage.                 *)
LEMMA BlobMoves ==
    ASSUME [Next]_vars
    PROVE  UNCHANGED blobs \/ BlobStep
PROOF
<1> USE DEF blobs, storage, hooks
<1>1. CASE ContainerSteps /\ UNCHANGED progress
  <2>1. CASE \E k \in Keys : Progress(k) \/ StoreMissed(k)
    BY <2>1 DEF Progress, StoreMissed, BlobStep
  <2>2. CASE \E w \in Workers : FilesSteps(w)
    BY <2>2 DEF FilesSteps, StartFiles, BootFiles, Start, Boot, RunHooks, HeadBucket,
       CreateBucket
  <2>3. CASE PostgresSteps \/ MigrateSteps \/ StartRedis \/ StoreStarts \/ AuthSteps
    BY <2>3 DEF PostgresSteps, StartPostgres, InitRole, OpenPort, MigrateSteps,
       StartMigrate, InitSchema, AuditControls, MigrateEnds, StartRedis, StoreStarts,
       StartStore, AuthSteps,
       StartAuth, BootAuth
  <2> QED BY <1>1, <2>1, <2>2, <2>3 DEF ContainerSteps
<1>2. CASE ScriptStep
  <2>1. CASE Restart
    BY <2>1 DEF Restart, StopWorkers, BlobStep
  <2>2. CASE ~Restart
    BY <1>2, <2>2 DEF ScriptStep, SetUp, UploadRefused, Uploaded, Poll, Ask, ReadBack, Dump,
       Restore, StopAuthentication, Denied, StartAuthentication
  <2> QED BY <2>1, <2>2
<1>3. CASE Begin \/ Repair \/ OtherCommit
  BY <1>3 DEF Begin, Repair, OtherCommit
<1>4. CASE \E w \in Workers, k \in Keys : SendUpload(w, k) \/ OtherRequest(w, k)
  BY <1>4 DEF SendUpload, OtherRequest, ClientPut, ClientDelete, BlobStep
<1>5. CASE RedisStops \/ HostStops
  BY <1>5 DEF RedisStops, StopRedis, HostStops, PowerFailure, BlobStep
<1>6. CASE OtherFault \/ CommandFails
  <2>1. CASE StorageFault
    BY <2>1 DEF StorageFault, StopStore, CreateRefused, Crash, StopWorkers, BlobStep
  <2>2. CASE StopPostgres \/ StopAuth \/ CommandFails
    BY <2>2 DEF StopPostgres, StopAuth, CommandFails
  <2> QED BY <1>6, <2>1, <2>2 DEF OtherFault
<1>7. CASE UNCHANGED vars
  BY <1>7 DEF vars
<1> QED BY <1>1, <1>2, <1>3, <1>4, <1>5, <1>6, <1>7 DEF Next

-----------------------------------------------------------------------------
(* What the calls of a put establish one after another. *)
BlobTypes ==
    /\ seen \in [Keys -> Found]
    /\ disk \in [Keys -> SUBSET Found]
    /\ life \in [Keys -> Life]
    /\ at \in [Keys -> Workers \cup {None}]

Settled(k) ==
    /\ seen[k] \in disk[k]
    /\ life[k] \in PutSteps \cup {"delete"} <=> at[k] \in Workers
    /\ life[k] \in {"return", "kept", "delete"} => disk[k] = {"whole"}
    /\ life[k] = "sync_file" => seen[k] = "whole"
    /\ life[k] = "sync_directory" => seen[k] = "whole" /\ disk[k] \subseteq {"none", "whole"}
    /\ life[k] = "gone" => disk[k] \subseteq {"none", "whole"}

BlobInv == BlobTypes /\ \A k \in Keys : Settled(k)

LEMMA BlobsBegin ==
    ASSUME Init
    PROVE  BlobInv
PROOF
  BY DEF Init, DeploymentInit, StorageInit, BlobInv, BlobTypes, Settled, Found, Life, PutSteps

(* The calls of one put or delete, one by one.                              *)
LEMMA ProceedSettles ==
    ASSUME BlobInv, NEW k \in Keys, Proceed(k)
    PROVE  BlobInv'
PROOF
<1> USE DEF BlobInv, BlobTypes, Settled, Advance, Finish, Sees, Found, Life, PutSteps
<1>1. CASE Open(k)
  BY <1>1 DEF Open
<1>2. CASE Write(k)
  BY <1>2 DEF Write
<1>3. CASE SyncFile(k)
  BY <1>3 DEF SyncFile
<1>4. CASE SyncDirectory(k)
  BY <1>4 DEF SyncDirectory
<1>5. CASE Upload(k)
  BY <1>5 DEF Upload
<1>6. CASE Return(k)
  BY <1>6 DEF Return
<1>7. CASE Unlink(k)
  BY <1>7 DEF Unlink
<1> QED BY <1>1, <1>2, <1>3, <1>4, <1>5, <1>6, <1>7 DEF Proceed

(* A put starts on an unused key, whatever its file is like.                *)
LEMMA RequestsSettle ==
    ASSUME BlobInv, NEW w \in Workers, NEW k \in Keys, Put(w, k) \/ Delete(w, k)
    PROVE  BlobInv'
PROOF
<1> USE DEF BlobInv, BlobTypes, Settled, Found, Life, PutSteps
<1>1. CASE Put(w, k)
  BY <1>1 DEF Put
<1>2. CASE Delete(w, k)
  BY <1>2 DEF Delete
<1> QED BY <1>1, <1>2

(* A request that stops where it is leaves its file as it is.               *)
LEMMA StopsSettle ==
    ASSUME BlobInv, NEW Down \in SUBSET Workers, Orphaned(Down)
    PROVE  /\ life' \in [Keys -> Life]
           /\ at' \in [Keys -> Workers \cup {None}]
           /\ \A k \in Keys :
                 /\ life'[k] \in Life
                 /\ life'[k] \in PutSteps \cup {"delete"} <=> at'[k] \in Workers
                 /\ at'[k] \in Workers => at'[k] \notin Down
                 /\ life'[k] \in {"sync_file", "sync_directory", "return", "kept", "delete"}
                        => life'[k] = life[k]
                 /\ life'[k] = "gone" => life[k] \in {"gone", "delete"}
PROOF
  BY DEF BlobInv, BlobTypes, Settled, Orphaned, Life, PutSteps

LEMMA BlobStepSettles ==
    ASSUME BlobInv, BlobStep
    PROVE  BlobInv'
PROOF
<1>1. CASE \E w \in Workers, k \in Keys : Put(w, k) \/ Delete(w, k)
  BY <1>1, RequestsSettle
<1>2. CASE \E k \in Keys : Proceed(k)
  BY <1>2, ProceedSettles
<1>3. CASE \E k \in Keys : PutFails(k) \/ DeleteFails(k)
  BY <1>3 DEF PutFails, DeleteFails, Finish, BlobInv, BlobTypes, Settled, Life, PutSteps
<1>4. CASE \E Down \in SUBSET Workers : Orphaned(Down) /\ UNCHANGED <<seen, disk>>
  BY <1>4, StopsSettle DEF BlobInv, BlobTypes, Settled
<1>5. CASE LosePower
  <2>1. Orphaned(Workers)
    BY <1>5 DEF LosePower, StopWorkers
  <2>2. /\ seen' \in [Keys -> Found]
        /\ disk' = [k \in Keys |-> {seen'[k]}]
        /\ \A k \in Keys : seen'[k] \in disk[k]
    BY <1>5 DEF LosePower
  <2>3. disk' \in [Keys -> SUBSET Found]
    BY <2>2
  <2>4. \A k \in Keys : disk'[k] = {seen'[k]} /\ seen'[k] \in disk[k]
    BY <2>2
  <2>5. BlobTypes'
    BY <2>1, <2>2, <2>3, StopsSettle, Workers \in SUBSET Workers DEF BlobTypes
  <2>6. ASSUME NEW k \in Keys PROVE Settled(k)'
    <3>1. /\ life'[k] \in {"sync_file", "sync_directory", "return", "kept", "delete"}
                => life'[k] = life[k]
          /\ life'[k] = "gone" => life[k] \in {"gone", "delete"}
      BY <2>1, StopsSettle, Workers \in SUBSET Workers
    <3>2. Settled(k) /\ disk'[k] = {seen'[k]} /\ seen'[k] \in disk[k]
      BY <2>4 DEF BlobInv
    <3>3. life'[k] \notin PutSteps \cup {"delete"} /\ at'[k] \notin Workers
      BY <2>1, StopsSettle, Workers \in SUBSET Workers
    <3> QED BY <3>1, <3>2, <3>3 DEF Settled, PutSteps
  <2> QED BY <2>5, <2>6 DEF BlobInv
<1> QED BY <1>1, <1>2, <1>3, <1>4, <1>5 DEF BlobStep

LEMMA BlobInvariant == Spec => []BlobInv
PROOF
<1>1. Init => BlobInv
  BY BlobsBegin
<1>2. ASSUME BlobInv, [Next]_vars
      PROVE  BlobInv'
  <2>1. CASE UNCHANGED blobs
    BY <1>2, <2>1 DEF blobs, BlobInv, BlobTypes, Settled
  <2>2. CASE BlobStep
    BY <1>2, <2>2, BlobStepSettles
  <2> QED BY <1>2, <2>1, <2>2, BlobMoves
<1> QED BY <1>1, <1>2, PTL DEF Spec

(* Content whose key put has returned is there and whole until its delete   *)
(* begins, and never cut off after that, for any number of workers and keys *)
(* and however often they crash and the power fails.                        *)
THEOREM ContentIsSafe == Spec => []ContentSurvives
PROOF
<1>1. BlobInv => ContentSurvives
  BY DEF BlobInv, BlobTypes, Settled, ContentSurvives, Found
<1> QED BY <1>1, BlobInvariant, PTL

-----------------------------------------------------------------------------
(* The hooks of the workers, and what a worker that serves has passed.      *)
HookTypes ==
    /\ adapter \in {"s3", "local"} /\ store \in {"up", "down"} /\ bucket \in BOOLEAN
    /\ worker \in [Workers -> WorkerSteps]

HookStep ==
    \/ \E w \in Workers :
          \/ (worker[w] = "absent" => Dependencies) /\ Start(w)
          \/ Boot(w) \/ CreateRefused(w)
    \/ \E Down \in SUBSET Workers, step \in {"starting", "exited"} :
          StopWorkers(Down, step) /\ store' \in {"up", "down"} /\ UNCHANGED <<adapter, bucket>>
    \/ StopStore \/ StartStore

LEMMA HookMoves ==
    ASSUME [Next]_vars, store \in {"up", "down"}
    PROVE  UNCHANGED hooks \/ HookStep
PROOF
<1> USE DEF storage, hooks
<1>1. CASE ContainerSteps /\ UNCHANGED progress
  <2>1. CASE \E k \in Keys : Progress(k) \/ StoreMissed(k)
    BY <2>1 DEF Progress, StoreMissed, Proceed, PutFails, DeleteFails, Open, Write, SyncFile,
       SyncDirectory, Upload, Return, Unlink
  <2>2. CASE \E w \in Workers : FilesSteps(w)
    BY <2>2 DEF FilesSteps, StartFiles, BootFiles, HookStep
  <2>3. CASE PostgresSteps \/ MigrateSteps \/ StartRedis \/ StoreStarts \/ AuthSteps
    BY <2>3 DEF PostgresSteps, StartPostgres, InitRole, OpenPort, MigrateSteps,
       StartMigrate, InitSchema, AuditControls, MigrateEnds, StartRedis, StoreStarts, AuthSteps,
       StartAuth, BootAuth, HookStep
  <2> QED BY <1>1, <2>1, <2>2, <2>3 DEF ContainerSteps
<1>2. CASE ScriptStep
  <2>1. CASE Restart
    BY <2>1 DEF Restart, HookStep
  <2>2. CASE ~Restart
    BY <1>2, <2>2 DEF ScriptStep, SetUp, UploadRefused, Uploaded, Poll, Ask, ReadBack, Dump,
       Restore, StopAuthentication, Denied, StartAuthentication
  <2> QED BY <2>1, <2>2
<1>3. CASE Begin \/ Repair \/ OtherCommit
  BY <1>3 DEF Begin, Repair, OtherCommit
<1>4. CASE \E w \in Workers, k \in Keys : SendUpload(w, k) \/ OtherRequest(w, k)
  BY <1>4 DEF SendUpload, OtherRequest, ClientPut, ClientDelete, Put, Delete
<1>5. CASE RedisStops \/ HostStops
  BY <1>5 DEF RedisStops, StopRedis, HostStops, PowerFailure, LosePower, HookStep
<1>6. CASE OtherFault \/ CommandFails
  <2>1. CASE StorageFault
    BY <2>1 DEF StorageFault, PutFails, DeleteFails, Crash, HookStep
  <2>2. CASE StopPostgres \/ StopAuth \/ CommandFails
    BY <2>2 DEF StopPostgres, StopAuth, CommandFails
  <2> QED BY <1>6, <2>1, <2>2 DEF OtherFault
<1>7. CASE UNCHANGED vars
  BY <1>7 DEF vars
<1> QED BY <1>1, <1>2, <1>3, <1>4, <1>5, <1>6, <1>7 DEF Next

(* No worker serves over S3 before there is a bucket, none comes into being *)
(* before its dependencies, and nothing removes the bucket.                 *)
LEMMA HookStepKeeps ==
    ASSUME HookTypes, HookStep
    PROVE  /\ HookTypes'
           /\ adapter' = adapter
           /\ bucket => bucket'
           /\ \A w \in Workers :
                 /\ worker'[w] # "absent" => worker[w] # "absent" \/ Dependencies
                 /\ worker'[w] = "serving" =>
                       worker[w] = "serving" \/ adapter = "local" \/ bucket'
PROOF
<1> USE DEF HookTypes, WorkerSteps, Becomes
<1>1. CASE \E w \in Workers : (worker[w] = "absent" => Dependencies) /\ Start(w)
  BY <1>1 DEF Start
<1>2. CASE \E w \in Workers : RunHooks(w)
  BY <1>2 DEF RunHooks
<1>3. CASE \E w \in Workers : HeadBucket(w)
  BY <1>3 DEF HeadBucket
<1>4. CASE \E w \in Workers : CreateBucket(w)
  <2>1. PICK w \in Workers : CreateBucket(w)
    BY <1>4
  <2>2. /\ adapter' = adapter /\ store' = store
        /\ bucket' = TRUE \/ bucket' = bucket
        /\ worker' \in [Workers -> WorkerSteps]
    BY <2>1 DEF CreateBucket
  <2>3. \A v \in Workers :
          /\ worker'[v] # "absent" => worker[v] # "absent"
          /\ worker'[v] = "serving" => worker[v] = "serving" \/ bucket' = TRUE
    BY <2>1 DEF CreateBucket
  <2>4. bucket' \in BOOLEAN /\ (bucket => bucket')
    <3>1. bucket \in BOOLEAN
      BY Zenon
    <3>2. bucket' = TRUE \/ bucket' = bucket
      BY <2>2, Zenon
    <3> QED BY ONLY <3>1, <3>2, Zenon
  <2> QED BY <2>2, <2>3, <2>4, Zenon
<1>5. CASE \E w \in Workers : CreateRefused(w)
  BY <1>5 DEF CreateRefused
<1>6. CASE \E Down \in SUBSET Workers, step \in {"starting", "exited"} :
          StopWorkers(Down, step) /\ store' \in {"up", "down"} /\ UNCHANGED <<adapter, bucket>>
  <2>1. PICK Down \in SUBSET Workers, step \in {"starting", "exited"} :
          /\ worker' = [w \in Workers |->
               IF w \in Down /\ worker[w] # "absent" THEN step ELSE worker[w]]
          /\ store' \in {"up", "down"} /\ adapter' = adapter /\ bucket' = bucket
    BY <1>6 DEF StopWorkers
  <2>2. \A w \in Workers :
     \/ worker'[w] \in {"starting", "exited"} /\ worker[w] # "absent"
     \/ worker'[w] = worker[w]
    BY <2>1
  <2>3. worker' \in [Workers -> WorkerSteps]
    BY <2>1
  <2> QED BY <2>1, <2>2, <2>3
<1>7. CASE StopStore \/ StartStore
  BY <1>7 DEF StopStore, StartStore
<1> QED BY <1>1, <1>2, <1>3, <1>4, <1>5, <1>6, <1>7 DEF HookStep, Boot

-----------------------------------------------------------------------------
(* Everything but the files, the hooks and the script's own records.        *)
ServiceTypes ==
    /\ pg \in {"off", "init", "on"} /\ data \in {"blank", "cluster", "role"}
    /\ schema \in 0..2 /\ migrate \in {"absent", "running", "failed", "done"}
    /\ redis \in {"up", "down"}
    /\ auth \in {"absent", "starting", "serving", "stopped", "exited"}
    /\ faults \in Nat /\ mark \in Nat /\ round \in Nat
    /\ script \in Steps
    /\ item \in Keys \cup {None}
    /\ rows \in {"none", "same", "changed"}

(* The volume of PostgreSQL is prepared step by step, and an API that was   *)
(* ever started found it prepared.                                          *)
Prepared ==
    /\ schema = 2 => data = "role"
    /\ migrate = "done" => schema = 2
    /\ auth # "absent" \/ script # "idle" => schema = 2

(* What a step does to it, seen from the workers.                           *)
Advances ==
    /\ schema = 2 => schema' = 2
    /\ Dependencies => schema = 2

LEMMA ServicesKept ==
    ASSUME ServiceTypes, Prepared, [Next]_vars
    PROVE  ServiceTypes' /\ Prepared' /\ Advances
PROOF
<1> USE DEF ServiceTypes, Prepared, Advances, Dependencies, services, database, progress
<1>1. CASE ContainerSteps /\ UNCHANGED progress
  <2>1. CASE \E k \in Keys : Progress(k) \/ StoreMissed(k)
    BY <1>1, <2>1 DEF Progress, StoreMissed
  <2>2. CASE \E w \in Workers : FilesSteps(w)
    BY <1>1, <2>2 DEF FilesSteps, StartFiles, BootFiles
  <2>3. CASE PostgresSteps
    BY <1>1, <2>3 DEF PostgresSteps, StartPostgres, InitRole, OpenPort
  <2>4. CASE MigrateSteps
    BY <1>1, <2>4 DEF MigrateSteps, StartMigrate, InitSchema, AuditControls, MigrateEnds
  <2>5. CASE StartRedis \/ StoreStarts \/ AuthSteps
    BY <1>1, <2>5 DEF StartRedis, StoreStarts, AuthSteps, StartAuth, BootAuth
  <2> QED BY <1>1, <2>1, <2>2, <2>3, <2>4, <2>5 DEF ContainerSteps
<1>2. CASE ScriptStep
  <2>1. CASE Restart
    BY <2>1 DEF Restart, Steps
  <2>2. CASE Poll
    BY <2>2 DEF Poll, Ask, Steps
  <2>3. CASE SetUp \/ UploadRefused \/ Uploaded \/ ReadBack \/ Dump \/ Restore \/ Denied
    BY <2>3 DEF SetUp, UploadRefused, Uploaded, ReadBack, Dump, Restore, Denied, Check, Steps
  <2>4. CASE StopAuthentication \/ StartAuthentication
    BY <2>4 DEF StopAuthentication, StartAuthentication, Steps
  <2> QED BY <1>2, <2>1, <2>2, <2>3, <2>4 DEF ScriptStep
<1>3. CASE Begin \/ Repair \/ OtherCommit
  <2>1. CASE Begin
    <3>1. auth = "serving" /\ script' = "register" /\ mark' = faults
      BY <2>1 DEF Begin, Healthy, SessionStoreReady
    <3>2. UNCHANGED <<services, faults, item, rows, round>>
      BY <2>1 DEF Begin
    <3> QED BY <3>1, <3>2 DEF Steps
  <2>2. CASE Repair \/ OtherCommit
    BY <2>2 DEF Repair, OtherCommit
  <2> QED BY <1>3, <2>1, <2>2
<1>4. CASE \E w \in Workers, k \in Keys : SendUpload(w, k) \/ OtherRequest(w, k)
  <2>1. CASE \E w \in Workers, k \in Keys : SendUpload(w, k)
    BY <2>1 DEF SendUpload, ClientPut, Introspects, Steps
  <2>2. CASE \E w \in Workers, k \in Keys : OtherRequest(w, k)
    BY <2>2 DEF OtherRequest, ClientPut, ClientDelete
  <2> QED BY <1>4, <2>1, <2>2
<1>5. CASE RedisStops
  BY <1>5 DEF RedisStops, StopRedis, Fault
<1>6. CASE HostStops
  BY <1>6 DEF HostStops, PowerFailure, Fault, Steps
<1>7. CASE OtherFault \/ CommandFails
  <2>1. CASE OtherFault
    BY <2>1 DEF OtherFault, StopPostgres, StopAuth, StorageFault, Fault
  <2>2. CASE CommandFails
    BY <2>2 DEF CommandFails, Commands, Fault, Steps
  <2> QED BY <1>7, <2>1, <2>2
<1>8. CASE UNCHANGED vars
  BY <1>8 DEF vars
<1> QED BY <1>1, <1>2, <1>3, <1>4, <1>5, <1>6, <1>7, <1>8 DEF Next

(* The session is opened by the login and lost with Redis.                  *)
LEMMA SessionKept ==
    ASSUME session \in BOOLEAN, [Next]_vars
    PROVE  session' \in BOOLEAN
PROOF
<1>1. UNCHANGED session \/ SetUp \/ session' = FALSE
  BY DEF Next, progress, vars, ScriptStep, UploadRefused, Uploaded, Restart, Poll, Ask,
     ReadBack, Dump, Restore, StopAuthentication, Denied, StartAuthentication, Begin, Repair,
     SendUpload, OtherRequest, OtherCommit, RedisStops, HostStops, OtherFault, CommandFails
<1>2. SetUp => UNCHANGED session \/ session' = Introspects
  BY Zenon DEF SetUp
<1>3. Introspects \in BOOLEAN
  BY DEF Introspects
<1> QED BY <1>1, <1>2, <1>3, Zenon

(* The inductive invariant behind ServesPrepared.                           *)
PreparedInv ==
    /\ HookTypes /\ ServiceTypes /\ Prepared /\ session \in BOOLEAN
    /\ \A w \in Workers :
          /\ worker[w] # "absent" => schema = 2
          /\ worker[w] = "serving" /\ adapter = "s3" => bucket

LEMMA PreparedInvariant == Spec => []PreparedInv
PROOF
<1>1. Init => PreparedInv
  <2> SUFFICES ASSUME Init PROVE PreparedInv
    OBVIOUS
  <2>1. HookTypes /\ \A w \in Workers : worker[w] = "absent"
    BY DEF Init, DeploymentInit, StorageInit, HookTypes, WorkerSteps
  <2>2. ServiceTypes /\ Prepared
    BY DEF Init, DeploymentInit, ServiceTypes, Prepared, Steps
  <2>3. session \in BOOLEAN
    BY Zenon DEF Init
  <2> QED BY <2>1, <2>2, <2>3 DEF PreparedInv
<1>2. ASSUME PreparedInv, [Next]_vars
      PROVE  PreparedInv'
  <2>1. ServiceTypes' /\ Prepared' /\ Advances
    BY <1>2, ServicesKept DEF PreparedInv
  <2>2. session' \in BOOLEAN
    BY <1>2, SessionKept DEF PreparedInv
  <2>3. CASE UNCHANGED hooks
    BY <1>2, <2>1, <2>2, <2>3 DEF hooks, PreparedInv, HookTypes, Advances
  <2>4. CASE HookStep
    BY <1>2, <2>1, <2>2, <2>4, HookStepKeeps DEF PreparedInv, HookTypes, Advances
  <2> QED BY <1>2, <2>3, <2>4, HookMoves DEF PreparedInv, HookTypes
<1> QED BY <1>1, <1>2, PTL DEF Spec

(* Every variable of the deployment and the script keeps values of its      *)
(* kind.                                                                    *)
THEOREM TypeCorrect == Spec => []TypeOK
PROOF
<1>1. BlobInv /\ PreparedInv => TypeOK
  BY DEF BlobInv, BlobTypes, PreparedInv, HookTypes, ServiceTypes, TypeOK, StorageTypeOK
<1> QED BY <1>1, BlobInvariant, PreparedInvariant, PTL

(* However often containers are stopped, interrupted and started again, an  *)
(* API serves only over a prepared database and, over S3, with its bucket.  *)
THEOREM ServesOnlyPrepared == Spec => []ServesPrepared
PROOF
<1>1. PreparedInv => ServesPrepared
  BY DEF PreparedInv, Prepared, ServesPrepared, FilesServe
<1> QED BY <1>1, PreparedInvariant, PTL

-----------------------------------------------------------------------------
(* As long as nothing goes wrong, what is up stays up and who serves serves *)
(* on, but for what the script stops itself.                                *)
StaysUp ==
    /\ script # "restart" /\ pg = "on" => pg' = "on"
    /\ redis = "up" => redis' = "up"
    /\ store = "up" => store' = "up"
    /\ script \notin {"restart", "stop", "start"} /\ auth = "serving" => auth' = "serving"

(* The workers, likewise. *)
WorkersStay ==
    script # "restart" => \A w \in Workers : worker[w] = "serving" => worker'[w] = "serving"

LEMMA QuietStep ==
    ASSUME HookTypes, faults \in Nat, [Next]_vars, faults' = faults
    PROVE  StaysUp /\ WorkersStay
PROOF
<1> USE DEF StaysUp, WorkersStay, HookTypes, storage, hooks, services, database
<1>1. CASE ContainerSteps /\ UNCHANGED progress
  <2>1. CASE \E k \in Keys : Progress(k) \/ StoreMissed(k)
    BY <2>1 DEF Progress, StoreMissed, Proceed, PutFails, DeleteFails, Open, Write, SyncFile,
       SyncDirectory, Upload, Return, Unlink
  <2>2. CASE \E w \in Workers : StartFiles(w)
    BY <2>2 DEF StartFiles, Start, Becomes
  <2>3. CASE \E w \in Workers : BootFiles(w)
    BY <2>3 DEF BootFiles, Boot, RunHooks, HeadBucket, CreateBucket, Becomes
  <2>4. CASE PostgresSteps \/ MigrateSteps \/ StartRedis \/ StoreStarts \/ AuthSteps
    BY <2>4 DEF PostgresSteps, StartPostgres, InitRole, OpenPort, MigrateSteps,
       StartMigrate, InitSchema, AuditControls, MigrateEnds, StartRedis, StoreStarts,
       StartStore, AuthSteps,
       StartAuth, BootAuth
  <2> QED BY <1>1, <2>1, <2>2, <2>3, <2>4 DEF ContainerSteps, FilesSteps
<1>2. CASE ScriptStep
  <2>1. CASE Restart
    BY <2>1 DEF Restart
  <2>2. CASE ~Restart
    BY <1>2, <2>2 DEF ScriptStep, SetUp, UploadRefused, Uploaded, Poll, Ask, ReadBack, Dump,
       Restore, StopAuthentication, Denied, StartAuthentication
  <2> QED BY <2>1, <2>2
<1>3. CASE Begin \/ Repair \/ OtherCommit
  BY <1>3 DEF Begin, Repair, OtherCommit
<1>4. CASE \E w \in Workers, k \in Keys : SendUpload(w, k) \/ OtherRequest(w, k)
  BY <1>4 DEF SendUpload, OtherRequest, ClientPut, ClientDelete, Put, Delete
<1>5. CASE RedisStops \/ HostStops \/ OtherFault \/ CommandFails
  BY <1>5 DEF RedisStops, StopRedis, HostStops, PowerFailure, OtherFault, StopPostgres,
     StopAuth, StorageFault, CommandFails, Fault
<1>6. CASE UNCHANGED vars
  BY <1>6 DEF vars
<1> QED BY <1>1, <1>2, <1>3, <1>4, <1>5, <1>6 DEF Next

(* Apart from its own steps, the script is begun, sends its upload, or is   *)
(* ended by the host or by a command that fails.                            *)
LEMMA ScriptMoves ==
    ASSUME [Next]_vars
    PROVE  \/ UNCHANGED <<script, item, round, mark>>
           \/ ScriptStep \/ Begin \/ (\E w \in Workers, k \in Keys : SendUpload(w, k))
           \/ HostStops \/ CommandFails
PROOF
  BY DEF Next, progress, vars, Repair, OtherRequest, OtherCommit, RedisStops, OtherFault

(* Faults are counted. *)
LEMMA FaultsGrow ==
    ASSUME faults \in Nat, [Next]_vars
    PROVE  faults' = faults \/ faults' = faults + 1
PROOF
<1> USE DEF vars, services
<1>1. CASE ContainerSteps
  BY <1>1 DEF ContainerSteps, PostgresSteps, StartPostgres, InitRole, OpenPort, MigrateSteps,
     StartMigrate, InitSchema, AuditControls, MigrateEnds, StartRedis, StoreStarts,
     AuthSteps, StartAuth, BootAuth,
     FilesSteps, StartFiles, BootFiles, Progress, StoreMissed
<1>2. CASE ScriptStep \/ Begin \/ Repair \/ OtherCommit
  BY <1>2 DEF ScriptStep, SetUp, UploadRefused, Uploaded, Restart, Poll, Ask, ReadBack, Dump,
     Restore, StopAuthentication, Denied, StartAuthentication, Begin, Repair, OtherCommit
<1>3. CASE \E w \in Workers, k \in Keys : SendUpload(w, k) \/ OtherRequest(w, k)
  BY <1>3 DEF SendUpload, OtherRequest, ClientPut, ClientDelete
<1>4. CASE RedisStops \/ HostStops \/ OtherFault \/ CommandFails
  BY <1>4 DEF RedisStops, StopRedis, HostStops, PowerFailure, OtherFault, StopPostgres,
     StopAuth, StorageFault, CommandFails, Fault
<1> QED BY <1>1, <1>2, <1>3, <1>4 DEF Next

(* Nobody but its owner deletes the script's file, and stopping a worker    *)
(* does not hurt what is stored.                                            *)
LEMMA ItemStays ==
    ASSUME BlobInv, item \in Keys, life[item] = "kept", [Next]_vars
    PROVE  life'[item] = "kept"
PROOF
<1> USE DEF BlobInv, BlobTypes
<1>1. at[item] \notin Workers
  BY DEF Settled, PutSteps
<1>2. ASSUME NEW k \in Keys, Proceed(k) \/ PutFails(k) \/ DeleteFails(k) \/ StoreMissed(k)
      PROVE  life'[item] = "kept"
  BY <1>2 DEF Proceed, PutFails, DeleteFails, StoreMissed, Open, Write, SyncFile, SyncDirectory,
     Upload, Return, Unlink, Advance, Finish, PutSteps
<1>3. ASSUME NEW Down \in SUBSET Workers, Orphaned(Down)
      PROVE  life'[item] = "kept"
  BY <1>1, <1>3 DEF Orphaned
<1>4. ASSUME NEW w \in Workers, NEW k \in Keys,
             Put(w, k) \/ (k # item /\ Delete(w, k))
      PROVE  life'[item] = "kept"
  BY <1>4 DEF Put, Delete
<1>5. CASE UNCHANGED blobs
  BY <1>5 DEF blobs
<1>6. CASE ContainerSteps /\ UNCHANGED progress
  BY <1>2, <1>5, <1>6 DEF ContainerSteps, Progress, PostgresSteps, StartPostgres, InitRole,
     OpenPort, MigrateSteps, StartMigrate, InitSchema, AuditControls, MigrateEnds,
     StartRedis, StoreStarts,
     StartStore, AuthSteps, StartAuth, BootAuth, FilesSteps, StartFiles, BootFiles, Start, Boot,
     RunHooks, HeadBucket, CreateBucket, storage, blobs
<1>7. CASE ScriptStep \/ Begin \/ Repair \/ OtherCommit
  <2>1. CASE Restart
    BY <2>1, <1>3, Workers \in SUBSET Workers DEF Restart, StopWorkers
  <2>2. CASE ~Restart
    BY <1>5, <1>7, <2>2 DEF ScriptStep, SetUp, UploadRefused, Uploaded, Poll, Ask, ReadBack,
       Dump, Restore, StopAuthentication, Denied, StartAuthentication, Begin, Repair,
       OtherCommit, storage, blobs
  <2> QED BY <2>1, <2>2
<1>8. CASE \E w \in Workers, k \in Keys : SendUpload(w, k) \/ OtherRequest(w, k)
  BY <1>4, <1>8 DEF SendUpload, OtherRequest, ClientPut, ClientDelete
<1>9. CASE RedisStops \/ HostStops \/ OtherFault \/ CommandFails
  <2>1. CASE StorageFault
    BY <2>1, <1>2, <1>3, <1>5 DEF StorageFault, StopStore, CreateRefused, Crash, StopWorkers,
       blobs
  <2>2. CASE HostStops
    BY <2>2, <1>3, Workers \in SUBSET Workers DEF HostStops, PowerFailure, LosePower,
    StopWorkers
  <2>3. CASE RedisStops \/ StopPostgres \/ StopAuth \/ CommandFails
    BY <2>3, <1>5 DEF RedisStops, StopRedis, StopPostgres, StopAuth, CommandFails, storage, blobs
  <2> QED BY <1>9, <2>1, <2>2, <2>3 DEF OtherFault
<1> QED BY <1>5, <1>6, <1>7, <1>8, <1>9 DEF Next, vars, storage, blobs

-----------------------------------------------------------------------------
(* What the script may rely on, as long as nothing has gone wrong since it, *)
(* or its last round of polling, began.                                     *)
SettingUp == {"register", "login", "create", "put", "upload"}
Waiting == {"restart", "poll", "poll_sessions", "poll_files", "read"}
Serving == {"dump", "restore", "count", "drop", "stop", "denied"}

Records ==
    /\ mark \in Nat /\ faults \in Nat /\ mark <= faults
    /\ script \in Waiting \cup {"upload"} => item \in Keys
    /\ script \in Waiting => life[item] = "kept"
    /\ script \in Polling => round < Rounds
    /\ script \in {"restore", "count"} => rows \in {"same", "changed"}

Established ==
    /\ script \in SettingUp => store = "up" /\ redis = "up" /\ auth = "serving"
    /\ script \in SettingUp \cup Serving => pg = "on" /\ FilesServe
    /\ script \in {"create", "put"} => session
    /\ script = "upload" => life[item] \in PutSteps \cup {"kept"}
    /\ script \in {"poll_sessions", "poll_files", "read"} => auth = "serving" /\ pg = "on"
    /\ script \in {"poll_files", "read"} => redis = "up"
    /\ script = "read" => FilesServe

HonestInv == Records /\ (faults = mark => Established)

(* An upload goes on while the store answers and nothing goes wrong.        *)
LEMMA UploadGoesOn ==
    ASSUME BlobInv, item \in Keys, life[item] \in PutSteps \cup {"kept"}, store = "up",
           faults \in Nat, script = "upload", [Next]_vars, faults' = faults
    PROVE  life'[item] \in PutSteps \cup {"kept"}
PROOF
<1> USE DEF BlobInv, BlobTypes, storage, blobs, services
<1>1. CASE \E k \in Keys : Proceed(k)
  BY <1>1 DEF Proceed, Open, Write, SyncFile, SyncDirectory, Upload, Return, Unlink, Advance,
     Finish, PutSteps
<1>2. CASE UNCHANGED blobs
  BY <1>2
<1>3. CASE ContainerSteps /\ UNCHANGED progress
  BY <1>1, <1>2, <1>3 DEF ContainerSteps, Progress, StoreMissed, PostgresSteps, StartPostgres,
     InitRole, OpenPort, MigrateSteps, StartMigrate, InitSchema, AuditControls, MigrateEnds,
     StartRedis, StoreStarts,
     StartStore, AuthSteps, StartAuth, BootAuth, FilesSteps, StartFiles, BootFiles, Start, Boot,
     RunHooks, HeadBucket, CreateBucket
<1>4. CASE ScriptStep \/ Begin \/ Repair \/ OtherCommit
  BY <1>2, <1>4 DEF ScriptStep, Begin, SetUp, UploadRefused, Uploaded, Restart, Poll, Ask, ReadBack, Dump, Restore, Check,
     StopAuthentication, Denied, StartAuthentication, Repair, OtherCommit
<1>5. CASE \E w \in Workers, k \in Keys : SendUpload(w, k)
  BY <1>5 DEF SendUpload
<1>6. CASE \E w \in Workers, k \in Keys : OtherRequest(w, k)
  BY <1>6 DEF OtherRequest, ClientPut, ClientDelete, Put, Delete, PutSteps
<1>7. CASE RedisStops \/ HostStops \/ OtherFault \/ CommandFails
  BY <1>7 DEF RedisStops, StopRedis, HostStops, PowerFailure, OtherFault, StopPostgres,
     StopAuth, StorageFault, CommandFails, Fault
<1> QED BY <1>2, <1>3, <1>4, <1>5, <1>6, <1>7 DEF Next, vars

(* Rows change after the dump only, and for good. *)
LEMMA RowsMove ==
    ASSUME [Next]_vars
    PROVE  UNCHANGED rows \/ Dump \/ (rows = "same" /\ rows' = "changed")
PROOF
  BY DEF Next, progress, vars, ScriptStep, SetUp, UploadRefused, Uploaded, Restart, Poll, Ask,
     ReadBack, Restore, StopAuthentication, Denied, StartAuthentication, Begin, Repair,
     SendUpload, OtherRequest, OtherCommit, RedisStops, HostStops, OtherFault, CommandFails


(* The script's session is lost by a fault only. *)
LEMMA SessionStays ==
    ASSUME faults \in Nat, [Next]_vars, faults' = faults, session, ~SetUp
    PROVE  session'
PROOF
<1>1. ~RedisStops /\ ~HostStops
  BY DEF RedisStops, StopRedis, HostStops, PowerFailure, Fault
<1>2. UNCHANGED session
  BY <1>1 DEF Next, progress, vars, ScriptStep, UploadRefused, Uploaded, Restart, Poll, Ask,
     ReadBack, Dump, Restore, StopAuthentication, Denied, StartAuthentication, Begin, Repair,
     SendUpload, OtherRequest, OtherCommit, OtherFault, CommandFails
<1> QED BY <1>2, Zenon

(* Registration, login and creation succeed on a deployment that serves.    *)
LEMMA SetUpStaysHonest ==
    ASSUME HonestInv, SetUp
    PROVE  HonestInv'
PROOF
<1>1. UNCHANGED <<storage, services, faults, item, rows, round, mark>>
  BY DEF SetUp
<1>2. script' \in {"login", "create", "put", "aborted"}
  BY DEF SetUp, Check
<1>3. Records'
  BY <1>1, <1>2 DEF HonestInv, Records, Waiting, Polling, storage, blobs
<1>4. ASSUME faults = mark PROVE Established'
  <2>1. script \in SettingUp
    BY DEF SetUp, Check, SettingUp
  <2>2. /\ store' = "up" /\ redis' = "up" /\ auth' = "serving" /\ pg' = "on" /\ FilesServe'
        /\ Introspects
    BY <1>1, <1>4, <2>1 DEF HonestInv, Established, storage, services, FilesServe, Introspects
  <2>3. script' = "create" => session' = Introspects
    BY DEF SetUp, Check
  <2>4. script' = "put" => script = "create" /\ (session' <=> session)
    BY DEF SetUp, Check
  <2>5. script = "create" => session
    BY <1>4 DEF HonestInv, Established
  <2>6. script' \in {"create", "put"} => session'
    <3> SUFFICES ASSUME script' \in {"create", "put"}
                 PROVE  session'
      BY Zenon
    <3>1. CASE script' = "create"
      BY <2>2, <2>3, <3>1, Zenon
    <3>2. CASE script' = "put"
      BY <2>4, <2>5, <3>2, Zenon
    <3> QED BY <3>1, <3>2, Zenon
  <2> QED BY <1>2, <2>2, <2>6 DEF Established, Serving
<1> QED BY <1>1, <1>3, <1>4 DEF HonestInv

(* The script goes on from what it finds.                                   *)
LEMMA ScriptStaysHonest ==
    ASSUME BlobInv, PreparedInv, HonestInv, ScriptStep, [Next]_vars
    PROVE  HonestInv'
PROOF
<1> USE DEF HonestInv, Records, Established, Waiting, Serving, SettingUp, Polling, services
<1>1. CASE Restart
  <2>1. life[item] = "kept" /\ item \in Keys
    BY <1>1 DEF Restart
  <2>2. life'[item] = "kept"
    BY <2>1, ItemStays
  <2> QED BY <1>1, <2>1, <2>2, RoundsAssumption DEF Restart
<1>2. CASE Poll
  <2>1. life' = life /\ worker' = worker
    BY <1>2 DEF Poll, Ask, storage
  <2>2. CASE Ask("poll", DatabaseReady(auth = "serving"), "poll_sessions")
    BY <2>1, <2>2 DEF Ask, DatabaseReady
  <2>3. CASE Ask("poll_sessions", SessionStoreReady, "poll_files")
    BY <2>1, <2>3 DEF Ask, SessionStoreReady
  <2>4. CASE Ask("poll_files", DatabaseReady(FilesServe) /\ ObjectStorageReady, "read")
    BY <2>1, <2>4 DEF Ask, DatabaseReady, FilesServe
  <2> QED BY <1>2, <2>2, <2>3, <2>4 DEF Poll
<1>3. CASE Uploaded \/ UploadRefused
  BY <1>3 DEF Uploaded, UploadRefused, Check, storage
<1>4. CASE ReadBack
  BY <1>4 DEF ReadBack, Check, storage, FilesServe
<1>5. CASE Dump
  BY <1>5 DEF Dump, Check, storage, FilesServe
<1>6. CASE Restore \/ Denied
  BY <1>6 DEF Restore, Denied, Check, storage, FilesServe
<1>7. CASE StopAuthentication \/ StartAuthentication
  BY <1>7 DEF StopAuthentication, StartAuthentication, storage, database, FilesServe
<1>8. CASE SetUp
  BY <1>8, SetUpStaysHonest
<1> QED BY <1>1, <1>2, <1>3, <1>4, <1>5, <1>6, <1>7, <1>8 DEF ScriptStep

(* It begins on a healthy deployment, and its upload on one that serves.    *)
LEMMA BeginsHonest ==
    ASSUME HonestInv, Begin
    PROVE  HonestInv'
PROOF
<1>1. /\ UNCHANGED <<storage, services, faults, item, rows, round>>
      /\ script' = "register" /\ mark' = faults
  BY DEF Begin
<1>2. auth = "serving" /\ pg = "on" /\ redis = "up" /\ store = "up" /\ FilesServe
  BY DEF Begin, Healthy, DatabaseReady, SessionStoreReady
<1>3. Records'
  BY <1>1 DEF HonestInv, Records, Waiting, Polling
<1>4. Established'
  BY <1>1, <1>2 DEF Established, storage, services, FilesServe, Serving
<1> QED BY <1>3, <1>4 DEF HonestInv

LEMMA SendsHonest ==
    ASSUME BlobInv, HonestInv, NEW w \in Workers, NEW k \in Keys, SendUpload(w, k)
    PROVE  HonestInv'
PROOF
<1>1. /\ UNCHANGED <<services, faults, rows, round, mark, worker, store>>
      /\ script = "put" /\ script' = "upload" /\ item' = k
  BY DEF SendUpload, ClientPut, Put, hooks
<1>2. life' = [life EXCEPT ![k] = IF adapter = "s3" THEN "upload" ELSE "open"]
  BY DEF SendUpload, ClientPut, Put
<1>3. life'[k] \in PutSteps
  BY <1>2 DEF BlobInv, BlobTypes, PutSteps
<1>4. Records'
  BY <1>1 DEF HonestInv, Records, Waiting, Polling
<1>5. ASSUME faults = mark PROVE Established'
  BY <1>1, <1>3, <1>5 DEF HonestInv, Established, SettingUp, services, FilesServe
<1> QED BY <1>1, <1>4, <1>5 DEF HonestInv

(* An end leaves nothing to rely on.                                        *)
LEMMA EndsHonest ==
    ASSUME HonestInv, HostStops \/ CommandFails, [Next]_vars
    PROVE  HonestInv'
PROOF
<1>1. script' \in {"idle", "passed", "aborted"} /\ mark' = mark
  BY DEF HostStops, CommandFails
<1>2. faults' = faults \/ faults' = faults + 1
  BY FaultsGrow DEF HonestInv, Records
<1> QED BY <1>1, <1>2 DEF HonestInv, Records, Established, Waiting, Serving, SettingUp, Polling

(* Everybody else lets it be, unless something goes wrong.                  *)
LEMMA OthersStayHonest ==
    ASSUME BlobInv, PreparedInv, HonestInv, [Next]_vars, UNCHANGED <<script, item, round, mark>>
    PROVE  HonestInv'
PROOF
<1>1. script \in Waiting => life'[item] = "kept"
  BY ItemStays DEF HonestInv, Records
<1>2. faults \in Nat /\ (faults' = faults \/ faults' = faults + 1)
  BY FaultsGrow DEF HonestInv, Records
<1>3. script \in {"restore", "count"} => rows' \in {"same", "changed"}
  <2>1. ~Dump
    BY DEF Dump, Check
  <2> QED BY <2>1, RowsMove DEF HonestInv, Records
<1>4. Records'
  BY <1>1, <1>2, <1>3 DEF HonestInv, Records, Polling
<1>5. ASSUME faults' = mark' PROVE Established'
  <2>1. faults = mark /\ faults' = faults
    BY <1>2, <1>5 DEF HonestInv, Records
  <2>2. Established
    BY <2>1 DEF HonestInv
  <2>3. StaysUp /\ WorkersStay
    BY <1>2, <2>1, QuietStep DEF PreparedInv
  <2>4. script # "restart" /\ FilesServe => FilesServe'
    BY <2>3 DEF WorkersStay, FilesServe
  <2>5. script \in {"create", "put"} => session'
    <3> SUFFICES ASSUME script \in {"create", "put"}
                 PROVE  session'
      BY Zenon
    <3>1. ~SetUp
      <4>1. SetUp => script' # script
        BY DEF SetUp, Check
      <4> QED BY <4>1
    <3>2. session
      BY <2>2, Zenon DEF Established
    <3> QED BY <1>2, <2>1, <3>1, <3>2, SessionStays, Zenon
  <2>6. script = "upload" => life'[item] \in PutSteps \cup {"kept"}
    BY <1>2, <2>1, <2>2, UploadGoesOn DEF HonestInv, Records, Established, SettingUp
  <2> QED BY <2>2, <2>3, <2>4, <2>5, <2>6 DEF Established, StaysUp, SettingUp, Serving
<1> QED BY <1>4, <1>5 DEF HonestInv

LEMMA HonestInvariant == Spec => []HonestInv
PROOF
<1>1. Init => HonestInv
  BY DEF Init, DeploymentInit, HonestInv, Records, Established, Waiting, Serving, SettingUp,
     Polling
<1>2. ASSUME BlobInv, PreparedInv, HonestInv, [Next]_vars
      PROVE  HonestInv'
  <2>1. CASE UNCHANGED <<script, item, round, mark>>
    BY <1>2, <2>1, OthersStayHonest
  <2>2. CASE ScriptStep
    BY <1>2, <2>2, ScriptStaysHonest
  <2>3. CASE Begin
    BY <1>2, <2>3, BeginsHonest
  <2>4. CASE \E w \in Workers, k \in Keys : SendUpload(w, k)
    BY <1>2, <2>4, SendsHonest
  <2>5. CASE HostStops \/ CommandFails
    BY <1>2, <2>5, EndsHonest
  <2> QED BY <1>2, <2>1, <2>2, <2>3, <2>4, <2>5, ScriptMoves
<1> QED BY <1>1, <1>2, BlobInvariant, PreparedInvariant, PTL DEF Spec

-----------------------------------------------------------------------------
(* The reasons for which the script may end early.                          *)
Reason ==
    \/ faults' > mark
    \/ script \in Polling /\ round' = Rounds
    \/ script = "read" /\ (~session \/ (adapter = "s3" /\ store = "down"))
    \/ script = "count" /\ rows = "changed"

(* A failing assertion: what it relied on was established.                  *)
LEMMA StepsEndForAReason ==
    ASSUME BlobInv, PreparedInv, HonestInv, ScriptStep, faults = mark, script' = "aborted"
    PROVE  Reason
PROOF
<1> USE DEF Reason
<1>1. Records /\ Established
  BY DEF HonestInv
<1>2. ~SetUp /\ ~UploadRefused
  <2>1. SetUp \/ UploadRefused => Introspects /\ FilesServe
    BY <1>1 DEF SetUp, UploadRefused, Check, Established, SettingUp, Introspects
  <2>2. script \in {"create", "put"} => session
    BY <1>1 DEF Established
  <2>3. ~UploadRefused
    BY <2>1, <2>2 DEF UploadRefused
  <2>4. ~SetUp
    <3>1. ~(script = "register" /\ SetUp)
      BY <2>1 DEF SetUp, Check, Introspects
    <3>2. ~(script = "login" /\ SetUp)
      BY <2>1 DEF SetUp, Check
    <3>3. ~(script = "create" /\ SetUp)
      BY <2>1, <2>2 DEF SetUp, Check
    <3> QED BY <3>1, <3>2, <3>3 DEF SetUp, Check
  <2> QED BY <2>3, <2>4
<1>3. ~Uploaded
  <2>1. Uploaded => life[item] = "kept" /\ pg = "on"
    BY <1>1 DEF Uploaded, Records, Established, SettingUp, BlobInv, Settled, StorageAssumption
  <2> QED BY <2>1 DEF Uploaded, Check
<1>4. ~Restart /\ ~StopAuthentication /\ ~StartAuthentication
  BY DEF Restart, StopAuthentication, StartAuthentication
<1>5. CASE Poll
  <2>1. /\ script \in Polling
        /\ round' = round + 1 /\ ~(round + 1 < Rounds)
    BY <1>5 DEF Poll, Ask, Polling
  <2>2. round < Rounds /\ round \in Nat
    BY <1>1, <2>1 DEF Records, PreparedInv, ServiceTypes
  <2> QED BY <2>1, <2>2, RoundsAssumption
<1>6. CASE ReadBack
  <2>1. script = "read"
    BY <1>6 DEF ReadBack, Check
  <2>2. FilesServe /\ Introspects /\ seen[item] = "whole"
    BY <1>1, <2>1 DEF Records, Established, Waiting, Introspects, BlobInv, Settled
  <2>3. ~session \/ ~(adapter = "s3" => store = "up")
    BY <1>6, <2>2, Zenon DEF ReadBack, Check
  <2>4. store \in {"up", "down"}
    BY DEF PreparedInv, HookTypes
  <2>5. ~session \/ (adapter = "s3" /\ store = "down")
    BY <2>3, <2>4
  <2> QED BY <2>1, <2>5
<1>7. CASE Dump \/ Restore \/ Denied
  BY <1>1, <1>7 DEF Dump, Restore, Denied, Check, Records, Established, Serving
<1> QED BY <1>2, <1>3, <1>4, <1>5, <1>6, <1>7 DEF ScriptStep

(* The recovery script ends early only because something has gone wrong     *)
(* since its last round of polling began, or for one of the reasons it      *)
(* cannot know of, for any number of workers, keys, faults and rounds.      *)
THEOREM EvidenceIsSound == Spec => AbortsForAReason
PROOF
<1>1. ASSUME BlobInv, PreparedInv, HonestInv, [Next]_vars,
             script # "aborted", script' = "aborted"
      PROVE  Reason
  <2>1. /\ faults \in Nat /\ mark \in Nat /\ mark <= faults
        /\ faults' = faults \/ faults' = faults + 1
    BY <1>1, FaultsGrow DEF HonestInv, Records
  <2>2. CASE HostStops \/ CommandFails
    BY <2>1, <2>2 DEF HostStops, PowerFailure, CommandFails, Fault, Reason
  <2>3. CASE ScriptStep
    <3>1. CASE faults = mark
      BY <1>1, <2>3, <3>1, StepsEndForAReason
    <3>2. CASE faults # mark
      BY <2>1, <3>2 DEF Reason
    <3> QED BY <3>1, <3>2
  <2>4. ~Begin /\ ~\E w \in Workers, k \in Keys : SendUpload(w, k)
    BY <1>1 DEF Begin, SendUpload
  <2> QED BY <1>1, <2>2, <2>3, <2>4, ScriptMoves
<1>2. ASSUME BlobInv, PreparedInv, HonestInv, [Next]_vars
      PROVE  [script # "aborted" /\ script' = "aborted" => Reason]_vars
  BY <1>1, <1>2
<1> QED BY <1>2, BlobInvariant, PreparedInvariant, HonestInvariant, PTL
    DEF Spec, AbortsForAReason, Reason

(* What /ready leaves out: a read that fails although both APIs have said   *)
(* they are ready, nothing has gone wrong since and the session is there,   *)
(* fails on an object store that is down.                                   *)
StoreAnswers == adapter = "s3" => store = "up"

(* The claim of /ready would hold if it asked the store: two answers 200    *)
(* mean that the file can be read in every behaviour whose store answers    *)
(* when the file is read, for any number of workers and rounds.             *)
THEOREM ReadyUnlessStoreIsDown ==
    Spec /\ [](script = "read" => StoreAnswers) => ReadyIsHonest
PROOF
<1>1. ASSUME [script # "aborted" /\ script' = "aborted" => Reason]_vars,
             script = "read" => StoreAnswers
      PROVE  [script = "read" /\ script' = "aborted" => faults' > mark \/ ~session]_vars
  BY <1>1 DEF Reason, StoreAnswers, Polling
<1>2. Spec => [][script # "aborted" /\ script' = "aborted" => Reason]_vars
  BY EvidenceIsSound DEF AbortsForAReason, Reason
<1> QED BY <1>1, <1>2, PTL DEF ReadyIsHonest

-----------------------------------------------------------------------------
(* While nothing has gone wrong at all: every worker that was ever started  *)
(* has an object store and goes on.                                         *)
Running == \A w \in Workers : worker[w] # "exited" /\ (worker[w] # "absent" => store = "up")

LEMMA RunningOn ==
    ASSUME HookTypes, faults \in Nat, Running, [Next]_vars, faults' = faults
    PROVE  Running'
PROOF
<1> USE DEF Running, HookTypes, WorkerSteps, storage, hooks, services
<1>1. store = "up" => store' = "up"
  BY QuietStep DEF StaysUp
<1>2. CASE ContainerSteps /\ UNCHANGED progress
  <2>1. CASE \E k \in Keys : Progress(k) \/ StoreMissed(k)
    BY <2>1 DEF Progress, StoreMissed, Proceed, PutFails, DeleteFails, Open, Write, SyncFile,
       SyncDirectory, Upload, Return, Unlink
  <2>2. CASE \E w \in Workers : StartFiles(w)
    BY <2>2 DEF StartFiles, Dependencies, Start, Becomes
  <2>3. CASE \E w \in Workers : BootFiles(w)
    BY <2>3 DEF BootFiles, Boot, RunHooks, HeadBucket, CreateBucket, Becomes
  <2>4. CASE PostgresSteps \/ MigrateSteps \/ StartRedis \/ StoreStarts \/ AuthSteps
    BY <1>1, <2>4 DEF PostgresSteps, StartPostgres, InitRole, OpenPort, MigrateSteps,
       StartMigrate, InitSchema, AuditControls, MigrateEnds, StartRedis, StoreStarts,
       StartStore, AuthSteps,
       StartAuth, BootAuth
  <2> QED BY <1>2, <2>1, <2>2, <2>3, <2>4 DEF ContainerSteps, FilesSteps
<1>3. CASE ScriptStep
  <2>1. CASE Restart
    BY <2>1 DEF Restart, StopWorkers
  <2>2. CASE ~Restart
    BY <1>3, <2>2 DEF ScriptStep, SetUp, UploadRefused, Uploaded, Poll, Ask, ReadBack, Dump,
       Restore, StopAuthentication, Denied, StartAuthentication
  <2> QED BY <2>1, <2>2
<1>4. CASE Begin \/ Repair \/ OtherCommit
  BY <1>4 DEF Begin, Repair, OtherCommit
<1>5. CASE \E w \in Workers, k \in Keys : SendUpload(w, k) \/ OtherRequest(w, k)
  BY <1>5 DEF SendUpload, OtherRequest, ClientPut, ClientDelete, Put, Delete
<1>6. CASE RedisStops \/ HostStops \/ OtherFault \/ CommandFails
  BY <1>6 DEF RedisStops, StopRedis, HostStops, PowerFailure, OtherFault, StopPostgres,
     StopAuth, StorageFault, CommandFails, Fault
<1>7. CASE UNCHANGED vars
  BY <1>7 DEF vars
<1> QED BY <1>2, <1>3, <1>4, <1>5, <1>6, <1>7 DEF Next


(* The inductive invariant behind NoStartFailsAlone.                        *)
CalmInv == faults \in Nat /\ (faults = 0 => Running)

(* Until something goes wrong no files worker fails to start, in whatever   *)
(* order the containers come up and however many workers find no bucket.    *)
THEOREM NobodyFailsAlone == Spec => []NoStartFailsAlone
PROOF
<1>1. Init => CalmInv
  BY DEF Init, DeploymentInit, StorageInit, CalmInv, Running
<1>2. ASSUME PreparedInv, CalmInv, [Next]_vars
      PROVE  CalmInv'
  <2>1. faults' = faults \/ faults' = faults + 1
    BY <1>2, FaultsGrow DEF CalmInv
  <2>2. CASE faults' = faults
    BY <1>2, <2>2, RunningOn DEF PreparedInv, CalmInv
  <2>3. CASE faults' = faults + 1
    BY <1>2, <2>3 DEF CalmInv
  <2> QED BY <2>1, <2>2, <2>3
<1>3. CalmInv => NoStartFailsAlone
  BY DEF CalmInv, Running, NoStartFailsAlone
<1> QED BY <1>1, <1>2, <1>3, PreparedInvariant, PTL DEF Spec
=============================================================================
