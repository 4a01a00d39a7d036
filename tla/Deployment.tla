----------------------------- MODULE Deployment ------------------------------
(***************************************************************************)
(* The containers of docker-compose.yml: PostgreSQL and its initialisation,*)
(* the migrations, Redis, the S3 service, the authentication API and the   *)
(* files workers, started in the order their dependencies ask for, any of  *)
(* which may stop at any time.  No service has a restart policy: whatever  *)
(* has stopped is started again by "docker compose up".                    *)
(***************************************************************************)
EXTENDS ContentStorage

CONSTANTS
    MaxFaults   \* bound: so many things go wrong

ASSUME FaultsAssumption == MaxFaults \in Nat

VARIABLES
    pg,       \* off, init: only its Unix socket is open, or on
    data,     \* its volume: blank, a cluster, or one with the role cloud_app
    schema,   \* how many of the two migrations have been committed
    migrate,  \* the one-shot container that applies them
    redis,    \* whether Redis answers
    auth,     \* the life of the authentication API
    faults    \* how many things have gone wrong so far

database == <<pg, data, schema, migrate>>
services == <<pg, data, schema, migrate, redis, auth>>

-----------------------------------------------------------------------------
(* The image initialises an empty volume once, with a server that listens   *)
(* on its Unix socket only, and runs init-role.sh; if it is stopped in      *)
(* between it finds a cluster the next time and does not run it again.      *)
StartPostgres ==
    /\ pg = "off"
    /\ \/ data = "blank" /\ pg' = "init" /\ data' = "cluster"
       \/ data # "blank" /\ pg' = "on" /\ UNCHANGED data
    /\ UNCHANGED <<storage, schema, migrate, redis, auth, faults>>

InitRole ==
    /\ pg = "init"
    /\ data' = "role"
    /\ UNCHANGED <<storage, pg, schema, migrate, redis, auth, faults>>

OpenPort ==
    /\ pg = "init" /\ data = "role"
    /\ pg' = "on"
    /\ UNCHANGED <<storage, data, schema, migrate, redis, auth, faults>>

(* pg_isready succeeds on the Unix socket, so the health check is passed    *)
(* while the server is still being initialised.                             *)
StartMigrate ==
    /\ migrate \in {"absent", "failed"}
    /\ pg \in {"init", "on"}
    /\ migrate' = "running"
    /\ UNCHANGED <<storage, pg, data, schema, redis, auth, faults>>

(* aerich upgrade: each migration in a transaction that also records it.    *)
InitSchema ==
    /\ migrate = "running"
    /\ pg = "on" /\ schema = 0
    /\ schema' = 1
    /\ UNCHANGED <<storage, pg, data, migrate, redis, auth, faults>>

(* Mutant: what is recorded as applied is applied again.                    *)
AuditControlsAgain ==
    /\ migrate = "running"
    /\ pg = "on" /\ data = "role" /\ schema > 0
    /\ schema' = schema + 1
    /\ UNCHANGED <<storage, pg, data, migrate, redis, auth, faults>>

(* Mutant: the second migration does not stop for want of the role.         *)
AuditControlsAnyway ==
    /\ migrate = "running"
    /\ pg = "on" /\ schema = 1
    /\ schema' = 2
    /\ UNCHANGED <<storage, pg, data, migrate, redis, auth, faults>>

(* The second one grants rights to cloud_app, and fails without it.         *)
AuditControls ==
    /\ migrate = "running"
    /\ pg = "on" /\ data = "role" /\ schema = 1
    /\ schema' = 2
    /\ UNCHANGED <<storage, pg, data, migrate, redis, auth, faults>>

MigrateEnds ==
    /\ migrate = "running"
    /\ \/ pg = "on" /\ schema = 2 /\ migrate' = "done"
       \/ (pg # "on" \/ (schema = 1 /\ data # "role")) /\ migrate' = "failed"
    /\ UNCHANGED <<storage, pg, data, schema, redis, auth, faults>>

StartRedis ==
    /\ redis = "down"
    /\ redis' = "up"
    /\ UNCHANGED <<storage, database, auth, faults>>

StoreStarts == StartStore /\ UNCHANGED <<services, faults>>

-----------------------------------------------------------------------------
(* depends_on holds a container back when it is first started. *)
Dependencies == migrate = "done" /\ redis = "up" /\ store = "up"

StartFiles(w) ==
    /\ worker[w] = "absent" => Dependencies
    /\ Start(w)
    /\ UNCHANGED <<services, faults>>

StartAuth ==
    /\ auth \in {"absent", "exited"}
    /\ auth = "absent" => Dependencies
    /\ auth' = "starting"
    /\ UNCHANGED <<storage, database, redis, faults>>

(* The authentication API has no hooks, and its Redis client connects when  *)
(* it is first used.                                                        *)
BootAuth ==
    /\ auth = "starting"
    /\ auth' = "serving"
    /\ UNCHANGED <<storage, database, redis, faults>>

BootFiles(w) == Boot(w) /\ UNCHANGED <<services, faults>>

-----------------------------------------------------------------------------
FilesServe == \E w \in Workers : worker[w] = "serving"

(* current_user needs the authentication API, its session store and the     *)
(* database, and so does every operation of the files API.                  *)
Introspects == auth = "serving" /\ redis = "up" /\ pg = "on"

ClientPut(w, k) == Introspects /\ Put(w, k) /\ UNCHANGED <<services, faults>>
ClientDelete(w, k) == Introspects /\ Delete(w, k) /\ UNCHANGED <<services, faults>>
Progress(k) == Proceed(k) /\ UNCHANGED <<services, faults>>

(* A request to a store that is down fails. *)
StoreMissed(k) ==
    /\ adapter = "s3" /\ store = "down"
    /\ PutFails(k) \/ DeleteFails(k)
    /\ UNCHANGED <<services, faults>>

(* The first await of /ready connects as cloud_app; the second one of the   *)
(* authentication API reads from Redis.                                     *)
DatabaseReady(serving) == serving /\ pg = "on" /\ data = "role"
SessionStoreReady == auth = "serving" /\ redis = "up"

(* The second one of the files API signs a URL, which needs no answer from  *)
(* the store, and shareable_url swallows every failure.                     *)
ObjectStorageReady == TRUE

-----------------------------------------------------------------------------
(* What may go wrong. *)
Fault == faults < MaxFaults /\ faults' = faults + 1

StopPostgres ==
    /\ Fault
    /\ pg # "off"
    /\ pg' = "off"
    /\ UNCHANGED <<storage, data, schema, migrate, redis, auth>>

StopRedis ==
    /\ Fault
    /\ redis = "up"
    /\ redis' = "down"
    /\ UNCHANGED <<storage, database, auth>>

StopAuth ==
    /\ Fault
    /\ auth \in {"starting", "serving"}
    /\ auth' = "exited"
    /\ UNCHANGED <<storage, database, redis>>

StorageFault ==
    /\ Fault
    /\ \/ StopStore
       \/ \E w \in Workers : CreateRefused(w) \/ Crash(w)
       \/ \E k \in Keys : PutFails(k) \/ DeleteFails(k)
    /\ UNCHANGED services

PowerFailure ==
    /\ Fault
    /\ LosePower
    /\ pg' = "off" /\ redis' = "down"
    /\ migrate' = IF migrate = "running" THEN "failed" ELSE migrate
    /\ auth' = IF auth \in {"starting", "serving"} THEN "exited" ELSE auth
    /\ UNCHANGED <<data, schema>>

-----------------------------------------------------------------------------
DeploymentInit ==
    /\ StorageInit
    /\ pg = "off" /\ data = "blank" /\ schema = 0
    /\ migrate = "absent"
    /\ redis = "down"
    /\ auth = "absent"
    /\ faults = 0

PostgresSteps == StartPostgres \/ InitRole \/ OpenPort
MigrateSteps == StartMigrate \/ InitSchema \/ AuditControls \/ MigrateEnds
AuthSteps == StartAuth \/ BootAuth
FilesSteps(w) == StartFiles(w) \/ BootFiles(w)

ContainerSteps ==
    \/ PostgresSteps \/ MigrateSteps \/ StartRedis \/ StoreStarts \/ AuthSteps
    \/ \E w \in Workers : FilesSteps(w)
    \/ \E k \in Keys : Progress(k) \/ StoreMissed(k)

-----------------------------------------------------------------------------
(* Properties. *)

(* An API that serves finds all that it will not create itself and that no  *)
(* readiness check looks at: both migrations, so the rights of its role and *)
(* the protection of the audit rows, the role, and over S3 the bucket; no   *)
(* order of starts, failures and repetitions lets one serve without.        *)
ServesPrepared ==
    /\ auth = "serving" \/ FilesServe => schema = 2 /\ data = "role"
    /\ FilesServe /\ adapter = "s3" => bucket

(* As long as nothing goes wrong no API fails to start: neither the order   *)
(* in which the containers come up nor two workers that both find the       *)
(* bucket missing is a failure.                                             *)
NoStartFailsAlone == faults = 0 => \A w \in Workers : worker[w] # "exited"

(* The one accident that starting again does not repair: PostgreSQL stopped *)
(* before init-role.sh had run on its new volume.                           *)
Unrepaired == data = "cluster" /\ pg # "init"

AllServe == auth = "serving" /\ \A w \in Workers : worker[w] = "serving"

(* Whatever goes wrong and whenever, once no more does the whole deployment *)
(* comes up and stays up, as long as "docker compose up" is repeated and    *)
(* the volume of PostgreSQL has been initialised.                           *)
ComesUp == <>[](Unrepaired \/ AllServe)
=============================================================================
