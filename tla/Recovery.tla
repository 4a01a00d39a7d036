------------------------------ MODULE Recovery -------------------------------
(***************************************************************************)
(* scripts/recovery_s3.py on a running deployment: it uploads a file,      *)
(* restarts PostgreSQL and both APIs, waits until they are ready, reads    *)
(* the file back, restores a dump beside the database and compares counts, *)
(* and stops the authentication API to see the files API refuse.  Every    *)
(* command and request may find the deployment changed since the last one, *)
(* and a failed assertion or command ends the script where it is.          *)
(***************************************************************************)
EXTENDS Deployment

CONSTANTS
    Rounds   \* how often it asks whether the APIs are ready (45)

ASSUME RoundsAssumption == Rounds \in Nat \ {0}

VARIABLES
    script,   \* what it does next, passed or aborted
    item,     \* the key of its file
    session,  \* whether Redis still knows its session
    rows,     \* the tables against the dump: none yet, same or changed
    round,    \* rounds of polling used up
    mark      \* what had gone wrong when it, or its present round, began

progress == <<script, item, session, rows, round, mark>>
vars == <<storage, services, faults, progress>>

Steps == {"idle", "register", "login", "create", "put", "upload", "restart",
          "poll", "poll_sessions", "poll_files", "read", "dump", "restore", "count",
          "drop", "stop", "denied", "start", "passed", "aborted"}
Commands == {"restart", "dump", "restore", "count", "drop", "stop", "start"}

-----------------------------------------------------------------------------
(* assert: go on or end. *)
Check(step, condition, next) ==
    /\ script = step
    /\ script' = IF condition THEN next ELSE "aborted"

(* It is run on a deployment that "docker compose up --wait" has reported   *)
(* healthy.                                                                 *)
Healthy ==
    /\ DatabaseReady(auth = "serving") /\ SessionStoreReady
    /\ FilesServe /\ store = "up"

Begin ==
    /\ script = "idle" /\ Healthy
    /\ script' = "register" /\ mark' = faults
    /\ UNCHANGED <<storage, services, faults, item, session, rows, round>>

(* It registers, logs in and creates a file.                                *)
SetUp ==
    /\ \/ /\ Check("register", auth = "serving" /\ pg = "on", "login")
          /\ UNCHANGED session
       \/ /\ Check("login", Introspects, "create")
          /\ session' = Introspects
       \/ /\ Check("create", FilesServe /\ Introspects /\ session, "put")
          /\ UNCHANGED session
    /\ UNCHANGED <<storage, services, faults, item, rows, round, mark>>

SendUpload(w, k) ==
    /\ script = "put" /\ session
    /\ ClientPut(w, k)
    /\ script' = "upload" /\ item' = k
    /\ UNCHANGED <<session, rows, round, mark>>

UploadRefused ==
    /\ script = "put"
    /\ ~(FilesServe /\ Introspects /\ session)
    /\ script' = "aborted"
    /\ UNCHANGED <<storage, services, faults, item, session, rows, round, mark>>

Uploaded ==
    /\ script = "upload" /\ at[item] = None
    /\ Check("upload", life[item] = "kept" /\ pg = "on", "restart")
    /\ UNCHANGED <<storage, services, faults, item, session, rows, round, mark>>

(* docker compose restart postgres authentication-api files-api *)
Restart ==
    /\ script = "restart"
    /\ StopWorkers(Workers, "starting")
    /\ pg' = "off" /\ auth' = "starting"
    /\ script' = "poll" /\ round' = 0 /\ mark' = faults
    /\ UNCHANGED <<adapter, store, bucket, seen, disk>>
    /\ UNCHANGED <<data, schema, migrate, redis, faults, item, session, rows>>

(* One round asks the authentication API and then the files API; each of    *)
(* them first asks the database.                                            *)
Ask(step, condition, next) ==
    /\ script = step
    /\ \/ /\ condition
          /\ script' = next
          /\ UNCHANGED <<round, mark>>
       \/ /\ ~condition
          /\ script' = IF round + 1 < Rounds THEN "poll" ELSE "aborted"
          /\ round' = round + 1
          /\ mark' = faults
    /\ UNCHANGED <<storage, services, faults, item, session, rows>>

(* Mutant: the files API is not asked. *)
PollAuthentication ==
    \/ Ask("poll", DatabaseReady(auth = "serving"), "poll_sessions")
    \/ Ask("poll_sessions", SessionStoreReady, "read")

Poll ==
    \/ Ask("poll", DatabaseReady(auth = "serving"), "poll_sessions")
    \/ Ask("poll_sessions", SessionStoreReady, "poll_files")
    \/ Ask("poll_files", DatabaseReady(FilesServe) /\ ObjectStorageReady, "read")

ReadBack ==
    /\ Check("read", FilesServe /\ Introspects /\ session /\ seen[item] = "whole"
                     /\ (adapter = "s3" => store = "up"), "dump")
    /\ UNCHANGED <<storage, services, faults, item, session, rows, round, mark>>

Dump ==
    /\ Check("dump", pg = "on", "restore")
    /\ rows' = IF pg = "on" THEN "same" ELSE rows
    /\ UNCHANGED <<storage, services, faults, item, session, round, mark>>

(* createdb, pg_restore and both counts, then dropdb. *)
Restore ==
    /\ \/ Check("restore", pg = "on", "count")
       \/ Check("count", pg = "on" /\ rows = "same", "drop")
       \/ Check("drop", pg = "on", "stop")
    /\ UNCHANGED <<storage, services, faults, item, session, rows, round, mark>>

StopAuthentication ==
    /\ script = "stop"
    /\ auth' = "stopped" /\ script' = "denied"
    /\ UNCHANGED <<storage, database, redis, faults, item, session, rows, round, mark>>

(* A refusal is audited before it is answered 503. *)
Denied ==
    /\ Check("denied", FilesServe /\ pg = "on", "start")
    /\ UNCHANGED <<storage, services, faults, item, session, rows, round, mark>>

StartAuthentication ==
    /\ script = "start"
    /\ auth' = "starting" /\ script' = "passed"
    /\ UNCHANGED <<storage, database, redis, faults, item, session, rows, round, mark>>

(* A docker command fails; whatever it has stopped by then is a fault of    *)
(* its own.                                                                 *)
CommandFails ==
    /\ Fault
    /\ script \in Commands
    /\ script' = "aborted"
    /\ UNCHANGED <<storage, services, item, session, rows, round, mark>>

(* What an aborted script has left stopped, "docker compose up" starts too. *)
Repair ==
    /\ script = "aborted" /\ auth = "stopped"
    /\ auth' = "starting"
    /\ UNCHANGED <<storage, database, redis, faults, progress>>

-----------------------------------------------------------------------------
(* Somebody else's request, or the audit row of a failed health check.      *)
OtherCommit ==
    /\ rows = "same" /\ pg = "on"
    /\ auth = "serving" \/ FilesServe
    /\ rows' = "changed"
    /\ UNCHANGED <<storage, services, faults, script, item, session, round, mark>>

OtherRequest(w, k) ==
    /\ ClientPut(w, k) \/ (k # item /\ ClientDelete(w, k))
    /\ UNCHANGED progress

(* Redis forgets every session; the host takes the script with it.          *)
RedisStops ==
    /\ StopRedis
    /\ session' = FALSE
    /\ UNCHANGED <<script, item, rows, round, mark>>

HostStops ==
    /\ PowerFailure
    /\ session' = FALSE
    /\ script' = IF script \in {"idle", "passed"} THEN script ELSE "aborted"
    /\ UNCHANGED <<item, rows, round, mark>>

OtherFault == (StopPostgres \/ StopAuth \/ StorageFault) /\ UNCHANGED progress

-----------------------------------------------------------------------------
Init ==
    /\ DeploymentInit
    /\ script = "idle" /\ item = None /\ session = FALSE
    /\ rows = "none" /\ round = 0 /\ mark = 0

ScriptStep ==
    \/ SetUp \/ UploadRefused \/ Uploaded \/ Restart \/ Poll \/ ReadBack \/ Dump \/ Restore
    \/ StopAuthentication \/ Denied \/ StartAuthentication

Next ==
    \/ ContainerSteps /\ UNCHANGED progress
    \/ ScriptStep
    \/ Begin \/ Repair
    \/ \E w \in Workers, k \in Keys : SendUpload(w, k) \/ OtherRequest(w, k)
    \/ OtherCommit
    \/ RedisStops \/ HostStops \/ OtherFault \/ CommandFails

Spec == Init /\ [][Next]_vars

(* Containers that have stopped are started again, those that run get on,   *)
(* and so does the script once somebody has run it.                         *)
Fairness ==
    /\ WF_vars(PostgresSteps /\ UNCHANGED progress)
    /\ WF_vars(MigrateSteps /\ UNCHANGED progress)
    /\ WF_vars(StartRedis /\ UNCHANGED progress)
    /\ WF_vars(StoreStarts /\ UNCHANGED progress)
    /\ WF_vars(AuthSteps /\ UNCHANGED progress)
    /\ \A w \in Workers : WF_vars(FilesSteps(w) /\ UNCHANGED progress)
    /\ WF_vars(ScriptStep)
    /\ WF_vars(Repair)

FairSpec == Spec /\ Fairness

-----------------------------------------------------------------------------
(* Properties. *)

(* Every variable holds values of its kind. *)
TypeOK ==
    /\ StorageTypeOK
    /\ pg \in {"off", "init", "on"} /\ data \in {"blank", "cluster", "role"}
    /\ schema \in 0..2 /\ migrate \in {"absent", "running", "failed", "done"}
    /\ redis \in {"up", "down"}
    /\ auth \in {"absent", "starting", "serving", "stopped", "exited"}
    /\ faults \in Nat /\ mark \in Nat /\ round \in Nat
    /\ script \in Steps
    /\ item \in Keys \cup {None}
    /\ session \in BOOLEAN
    /\ rows \in {"none", "same", "changed"}

(* The evidence the script gathers is about the deployment it was run on.   *)
(* It ends early only for a reason more recent than its last round of       *)
(* polling: what was wrong before it was run, or has been put right before  *)
(* both APIs said they were ready, does not count.  The other reasons are   *)
(* that the APIs were never ready in time, that Redis has forgotten its     *)
(* session, that its file is in a store which does not answer, and that     *)
(* somebody else wrote to the tables between its dump and its counts.       *)
Polling == {"poll", "poll_sessions", "poll_files"}
AbortsForAReason ==
    [][script # "aborted" /\ script' = "aborted" =>
          \/ faults' > mark
          \/ script \in Polling /\ round' = Rounds
          \/ script = "read" /\ (~session \/ (adapter = "s3" /\ store = "down"))
          \/ script = "count" /\ rows = "changed"]_vars

(* Two answers 200 of /ready mean that traffic is safe: the file that was   *)
(* uploaded before the restart can be read, unless something has gone wrong *)
(* since the round began or the session is lost.                            *)
ReadyIsHonest ==
    [][script = "read" /\ script' = "aborted" => faults' > mark \/ ~session]_vars
=============================================================================
