--------------------------- MODULE ContentStorage ----------------------------
(***************************************************************************)
(* The two adapters of the ContentStorage port and the files workers that  *)
(* use them.  Over S3 a worker makes sure that the bucket exists before it *)
(* serves, and a put is one request.  Over a local volume a put is five    *)
(* system calls, between which the worker may die or the power may fail.   *)
(*                                                                         *)
(* What a file is: seen is what a read finds now, disk is everything a     *)
(* read may find once the page cache is gone.  An fsync of the file rules  *)
(* out a partial content, an fsync of the directory a missing entry.       *)
(***************************************************************************)
EXTENDS Naturals

CONSTANTS
    Workers,  \* files workers over one bucket or one volume
    Keys,     \* the keys put can generate, each once
    None

ASSUME StorageAssumption == None \notin Workers \cup Keys

VARIABLES
    adapter,  \* which adapter the container composes, "s3" or "local"
    store,    \* whether the S3 service answers
    bucket,   \* whether the bucket exists
    worker,   \* the life of each worker
    seen,     \* what reading a key finds: nothing, a part, or all of it
    disk,     \* what reading it may find after a power failure
    life,     \* the next step of the put or delete of a key, or its outcome
    at        \* the worker that serves this put or delete

hooks == <<adapter, store, bucket, worker>>
blobs == <<seen, disk, life, at>>
storage == <<adapter, store, bucket, worker, seen, disk, life, at>>

Found == {"none", "part", "whole"}
WorkerSteps == {"absent", "starting", "head", "create", "serving", "exited"}
PutSteps == {"open", "write", "sync_file", "sync_directory", "upload", "return"}
(* kept: put has returned the key and it has not been deleted since; gone:  *)
(* its delete is over; lost: its put has failed and nobody knows it.        *)
Life == {"unused", "kept", "delete", "gone", "lost"} \cup PutSteps

-----------------------------------------------------------------------------
(* The start of a worker: the database connection is only configured, then *)
(* the hooks run.  LocalContentStorage has no ensure_bucket.                *)
Becomes(w, step) == worker' = [worker EXCEPT ![w] = step]

Start(w) ==
    /\ worker[w] \in {"absent", "exited"}
    /\ Becomes(w, "starting")
    /\ UNCHANGED <<adapter, store, bucket, blobs>>

RunHooks(w) ==
    /\ worker[w] = "starting"
    /\ \/ adapter = "s3" /\ Becomes(w, "head")
       \/ adapter = "local" /\ Becomes(w, "serving")
    /\ UNCHANGED <<adapter, store, bucket, blobs>>

(* Mutant: the bucket is looked for, and a missing one is an error.         *)
HeadBucketOnly(w) ==
    /\ worker[w] = "head"
    /\ \/ store = "up" /\ bucket /\ Becomes(w, "serving")
       \/ (store = "down" \/ ~bucket) /\ Becomes(w, "exited")
    /\ UNCHANGED <<adapter, store, bucket, blobs>>

(* Any ClientError counts as a missing bucket; a store that does not answer *)
(* raises something else.                                                   *)
HeadBucket(w) ==
    /\ worker[w] = "head"
    /\ \/ store = "up" /\ bucket /\ Becomes(w, "serving")
       \/ store = "up" /\ Becomes(w, "create")
       \/ store = "down" /\ Becomes(w, "exited")
    /\ UNCHANGED <<adapter, store, bucket, blobs>>

(* Mutant: a bucket that somebody else has created meanwhile is an error.   *)
CreateBucketAlone(w) ==
    /\ worker[w] = "create"
    /\ \/ store = "up" /\ ~bucket /\ bucket' = TRUE /\ Becomes(w, "serving")
       \/ (store = "down" \/ bucket) /\ Becomes(w, "exited") /\ UNCHANGED bucket
    /\ UNCHANGED <<adapter, store, blobs>>

(* Losing the race to another worker is as good as winning it.              *)
CreateBucket(w) ==
    /\ worker[w] = "create"
    /\ \/ store = "up" /\ bucket' = TRUE /\ Becomes(w, "serving")
       \/ store = "down" /\ Becomes(w, "exited") /\ UNCHANGED bucket
    /\ UNCHANGED <<adapter, store, blobs>>

CreateRefused(w) ==
    /\ worker[w] = "create"
    /\ Becomes(w, "exited")
    /\ UNCHANGED <<adapter, store, bucket, blobs>>

-----------------------------------------------------------------------------
(* Every call runs in a thread of its own, so a worker may serve several.   *)
Serves(w) == worker[w] = "serving"
Advance(k, step) == life' = [life EXCEPT ![k] = step] /\ UNCHANGED at
Finish(k, outcome) ==
    /\ life' = [life EXCEPT ![k] = outcome]
    /\ at' = [at EXCEPT ![k] = None]
Sees(k, v) == seen' = [seen EXCEPT ![k] = v]

Put(w, k) ==
    /\ Serves(w)
    /\ life[k] = "unused"
    /\ life' = [life EXCEPT ![k] = IF adapter = "s3" THEN "upload" ELSE "open"]
    /\ at' = [at EXCEPT ![k] = w]
    /\ UNCHANGED <<hooks, seen, disk>>

Open(k) ==
    /\ life[k] = "open"
    /\ Sees(k, "part")
    /\ disk' = [disk EXCEPT ![k] = @ \cup {"part"}]
    /\ Advance(k, "write")
    /\ UNCHANGED hooks

Write(k) ==
    /\ life[k] = "write"
    /\ Sees(k, "whole")
    /\ disk' = [disk EXCEPT ![k] = @ \cup {"whole"}]
    /\ Advance(k, "sync_file")
    /\ UNCHANGED hooks

SyncFile(k) ==
    /\ life[k] = "sync_file"
    /\ disk' = [disk EXCEPT ![k] = @ \ {"part"}]
    /\ Advance(k, "sync_directory")
    /\ UNCHANGED <<hooks, seen>>

(* Mutant: the key is returned while its directory entry is in memory only. *)
SyncNoDirectory(k) ==
    /\ life[k] = "sync_directory"
    /\ Advance(k, "return")
    /\ UNCHANGED <<hooks, seen, disk>>

(* The entries of all files are in the one directory.                       *)
SyncDirectory(k) ==
    /\ life[k] = "sync_directory"
    /\ disk' = [j \in Keys |-> IF seen[j] = "none" THEN {"none"} ELSE disk[j] \ {"none"}]
    /\ Advance(k, "return")
    /\ UNCHANGED <<hooks, seen>>

Upload(k) ==
    /\ life[k] = "upload"
    /\ store = "up" /\ bucket
    /\ Sees(k, "whole")
    /\ disk' = [disk EXCEPT ![k] = {"whole"}]
    /\ Advance(k, "return")
    /\ UNCHANGED hooks

Return(k) ==
    /\ life[k] = "return"
    /\ Finish(k, "kept")
    /\ UNCHANGED <<hooks, seen, disk>>

(* Any call may raise, content_unavailable over S3 and OSError over the     *)
(* volume; what it has already written stays.                               *)
PutFails(k) ==
    /\ life[k] \in PutSteps
    /\ Finish(k, "lost")
    /\ UNCHANGED <<hooks, seen, disk>>

Delete(w, k) ==
    /\ Serves(w)
    /\ life[k] = "kept"
    /\ life' = [life EXCEPT ![k] = "delete"]
    /\ at' = [at EXCEPT ![k] = w]
    /\ UNCHANGED <<hooks, seen, disk>>

(* Unlinking is not followed by an fsync: the file may be back after a      *)
(* power failure, and nothing names it then.                                *)
Unlink(k) ==
    /\ life[k] = "delete"
    /\ Sees(k, "none")
    /\ \/ adapter = "local" /\ disk' = [disk EXCEPT ![k] = @ \cup {"none"}]
       \/ adapter = "s3" /\ store = "up" /\ disk' = [disk EXCEPT ![k] = {"none"}]
    /\ Finish(k, "gone")
    /\ UNCHANGED hooks

DeleteFails(k) ==
    /\ life[k] = "delete"
    /\ Finish(k, "gone")
    /\ UNCHANGED <<hooks, seen, disk>>

-----------------------------------------------------------------------------
(* The workers in Down stop where they are.                                 *)
Orphaned(Down) ==
    /\ life' = [k \in Keys |-> IF at[k] \notin Down THEN life[k]
                               ELSE IF life[k] = "delete" THEN "gone" ELSE "lost"]
    /\ at' = [k \in Keys |-> IF at[k] \in Down THEN None ELSE at[k]]

(* They stop and become: exited, or starting when they are restarted.       *)
StopWorkers(Down, step) ==
    /\ worker' = [w \in Workers |->
                    IF w \in Down /\ worker[w] # "absent" THEN step ELSE worker[w]]
    /\ Orphaned(Down)

Crash(w) ==
    /\ worker[w] \notin {"absent", "exited"}
    /\ StopWorkers({w}, "exited")
    /\ UNCHANGED <<adapter, store, bucket, seen, disk>>

StopStore ==
    /\ store = "up"
    /\ store' = "down"
    /\ UNCHANGED <<adapter, bucket, worker, blobs>>

StartStore ==
    /\ store = "down"
    /\ store' = "up"
    /\ UNCHANGED <<adapter, bucket, worker, blobs>>

(* The host loses power: of each file one of the possible states remains.   *)
LosePower ==
    /\ StopWorkers(Workers, "exited")
    /\ store' = "down"
    /\ seen' \in [Keys -> Found]
    /\ \A k \in Keys : seen'[k] \in disk[k]
    /\ disk' = [k \in Keys |-> {seen'[k]}]
    /\ UNCHANGED <<adapter, bucket>>

-----------------------------------------------------------------------------
(* Nothing runs yet, in an environment that has never been used.            *)
StorageInit ==
    /\ adapter \in {"s3", "local"}
    /\ store = "down"
    /\ bucket = FALSE
    /\ worker = [w \in Workers |-> "absent"]
    /\ seen = [k \in Keys |-> "none"]
    /\ disk = [k \in Keys |-> {"none"}]
    /\ life = [k \in Keys |-> "unused"]
    /\ at = [k \in Keys |-> None]

(* What a worker or its thread does next by itself.                         *)
Boot(w) == RunHooks(w) \/ HeadBucket(w) \/ CreateBucket(w)
Proceed(k) ==
    \/ Open(k) \/ Write(k) \/ SyncFile(k) \/ SyncDirectory(k) \/ Upload(k)
    \/ Return(k) \/ Unlink(k)

-----------------------------------------------------------------------------
(* Properties. *)

StorageTypeOK ==
    /\ adapter \in {"s3", "local"} /\ store \in {"up", "down"} /\ bucket \in BOOLEAN
    /\ worker \in [Workers -> WorkerSteps]
    /\ seen \in [Keys -> Found]
    /\ disk \in [Keys -> SUBSET Found]
    /\ life \in [Keys -> Life]
    /\ at \in [Keys -> Workers \cup {None}]

(* A key that put has returned leads to the whole content until its delete  *)
(* begins, and to all or nothing after that, through every crash of a       *)
(* worker and every power failure: metadata committed after the put never   *)
(* names a file that is missing or cut off.                                 *)
ContentSurvives ==
    \A k \in Keys :
        /\ life[k] = "kept" => seen[k] = "whole"
        /\ life[k] \in {"delete", "gone"} => seen[k] # "part"
=============================================================================
